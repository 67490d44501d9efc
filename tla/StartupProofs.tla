---------------------------- MODULE StartupProofs ----------------------------
(***************************************************************************)
(* The set-up of the cores for every number of cores, memory, image and    *)
(* argument, and every interleaving of main with the cores that run.       *)
(*                                                                         *)
(* StartInv: the types, what each pending call of mmu_allocate is for, and *)
(* the order of main's steps.  StartupMemory builds on it.                 *)
(***************************************************************************)
EXTENDS Startup, MmuProofs

Early  == {"init", "file", "segments", "run"}

(* Where main is, before the first core is set up and after it; how far a  *)
(* call of mmu_allocate is; a core nothing was set up for.                 *)
Places == Early \cup {"stack", "argv0", "argv1", "push", "join", "returned", "died"}
Stages == {"none", "asked", "bumped", "done"}
Idle   == [state |-> "none", sp |-> 0, av0 |-> 0, av1 |-> 0]

(* The types, in the parts a step can be checked against.                  *)
Types ==
  /\ MmuOK(mmu) /\ mmu.size = RamSize
  /\ DOMAIN mem = 0 .. RamSize - 1
  /\ bus \in {"READY", "ERROR", "held"}
  /\ at \in Places
  /\ setup \in [core : Cores, done : Nat]
  /\ image \in Images /\ argv1 \in Argv1
  /\ elf \in {"unset", "loaded"} /\ raced \in BOOLEAN
  /\ core \in [Cores -> [state : {"none", "running", "unstarted", "ended"},
                         sp : Int, av0 : Nat, av1 : Nat]]
  /\ request \in [Threads -> [stage : Stages, at : Nat, size : Nat]]
  /\ blocks \subseteq [owner : Threads, at : Nat, size : Nat]

(* A block that mmu_allocate may hand out, or NULL.                        *)
Fits(v, n)   == Base <= v /\ v + Aligned(n) < Base + RamSize
Answer(v, n) == v = 0 \/ Fits(v, n)

(* A call of mmu_allocate that has read the pointer and not returned.      *)
Pending(t) == request[t].stage \in {"asked", "bumped"}

(* What main is asking memory for.                                         *)
MainAsks(n) == request[Main].size = n /\ n \in Nat

(* What is asked for fits, cores only ask while they run, and main asks    *)
(* for the size its place calls for.                                       *)
Requests ==
  /\ \A t \in Threads :
       /\ Answer(request[t].at, request[t].size)
       /\ Pending(t) => Fits(request[t].at, request[t].size)
  /\ \A c \in Cores : Stage(c, "none") \/ core[c].state = "running"
  /\ ~Stage(Main, "none") =>
       \/ at = "stack" /\ MainAsks(StackSize)
       \/ at = "argv0" /\ MainAsks(Argv0)
       \/ at = "argv1" /\ MainAsks(argv1)
       \/ at = "died"

(* The stack pointer before anything was pushed is that many words up.     *)
Pushes(c) == IF core[c].state # "none" THEN 6
             ELSE IF at = "push" /\ c = This THEN setup.done ELSE 0

(* The block of the stack of core c.                                       *)
StackAt(c) == core[c].sp + Pushes(c) * WordBytes - StackSize

(* Main sets up one core after the other.                                  *)
Order ==
  /\ at \notin {"join", "returned", "died"} =>
       \A c \in Cores : c >= This => core[c].state = "none"
  /\ at \in Early =>
       /\ \A c \in Cores : core[c] = Idle
       /\ blocks = {}
  /\ at \in Early \ {"run"} => elf = "unset"
  /\ at \notin {"segments", "push", "died"} => setup.done = 0
  /\ at = "push" => setup.done <= 6
  /\ \A c \in Cores :
       /\ Answer(core[c].av0, Argv0)
       /\ core[c].av1 = 0 \/ (argv1 \in Nat /\ Fits(core[c].av1, argv1))
       /\ \/ Answer(StackAt(c), StackSize)
          \/ /\ core[c].state = "none" /\ core[c].sp = 0
             /\ c = This => at \notin {"argv0", "argv1", "push"}

(* The invariant of the set-up.                                            *)
StartInv == Types /\ Requests /\ Order

(* Where a segment ends, and what it is once it is loaded.                 *)
ImageEnd(k) == image[k].vaddr + image[k].memsz

InPlace(k) ==
  \A i \in Span(image[k].vaddr, image[k].filesz) :
    mem[i] = <<"image", i>> /\ mmu.perm[i] = ElfPerm(image[k].flags)

----------------------------------------------------------------------------
(* The constants, and what every step starts from.                         *)
LEMMA Numbers ==
  /\ Base \in Nat /\ Base >= 1 /\ RamSize \in Nat /\ WordBytes \in Nat /\ WordBytes >= 1
  /\ StackSize \in Nat /\ StackSize < Base /\ BrkStep \in Nat /\ Argv0 \in Nat
  /\ NumCores \in Nat /\ NumCores >= 1 /\ 1 \in Cores
  /\ Main \in Threads /\ Main \notin Cores /\ Cores \subseteq Threads
  /\ FreshPerm \in SUBSET Flags
BY MmuAssumption, StartupAssumption DEF Cores, Threads, Main, FreshPerm, Flags

(* A block fits where there is room for it.                                *)
LEMMA AnswerRanges ==
  ASSUME NEW v \in Nat, NEW n \in Nat
  PROVE  /\ Aligned(n) \in Nat /\ n <= Aligned(n)
         /\ Fits(v, n) => Base <= v /\ v + n < Base + RamSize /\ v \in BusAddresses
         /\ Answer(v, n) /\ v \in BusAddresses => Fits(v, n)
<1>1. Aligned(n) \in Nat /\ n <= Aligned(n)
  BY AlignedCovers
<1> QED
  BY <1>1, Numbers DEF Fits, Answer, BusAddresses

(* cpu_init, mmu_init and the constants leave nothing requested.           *)
LEMMA StartInit == Init => StartInv
<1> SUFFICES ASSUME Init PROVE StartInv
  OBVIOUS
<1>1. MmuOK(mmu) /\ mmu.size = RamSize
  <2>1. "MMU_OK" \in MmuStates
    BY DEF MmuStates
  <2> QED
    BY <2>1, InitOK DEF MmuInit, Init
<1>2. /\ \A t \in Threads : request[t] = NoRequest
      /\ request \in [Threads -> [stage : Stages, at : Nat, size : Nat]]
  BY DEF Init, NoRequest, Stages
<1>3. /\ \A c \in Cores : core[c] = Idle
      /\ core \in [Cores -> [state : {"none", "running", "unstarted", "ended"},
                             sp : Int, av0 : Nat, av1 : Nat]]
  BY DEF Init, Idle
<1>4. /\ DOMAIN mem = 0 .. RamSize - 1 /\ bus = "READY" /\ at = "init"
      /\ setup = [core |-> 1, done |-> 0] /\ image \in Images /\ argv1 \in Argv1
      /\ elf = "unset" /\ blocks = {} /\ raced = FALSE
  BY DEF Init
<1>5. Types
  BY <1>1, <1>2, <1>3, <1>4, Numbers DEF Types, Places, Early
<1>6. Requests
  BY <1>2, Numbers DEF Requests, Answer, NoRequest, Pending, Stage
<1>7. \A c \in Cores : core[c].state = "none" /\ core[c].sp = 0 /\ core[c].av0 = 0
                       /\ core[c].av1 = 0
  BY <1>3 DEF Idle
<1>8. Order
  BY <1>3, <1>4, <1>7 DEF Order, This, Answer, Early
<1> QED
  BY <1>5, <1>6, <1>8 DEF StartInv

----------------------------------------------------------------------------
(* The steps by what they do.  Steps of main that only move it on, and the *)
(* ends of the process; ...                                                *)
Moves ==
  /\ \/ at = "init" /\ at' = "file"
     \/ at = "file" /\ at' \in {"segments", "run"}
     \/ at = "run" /\ at' = "stack"
     \/ at # "push" /\ at' = "died"
  /\ UNCHANGED <<mmu, mem, bus, setup, elf, core, request, blocks, raced, held>>

(* ... the end of elf_load; a call of mmu_allocate, and its return to a    *)
(* core.                                                                   *)
ElfLoaded ==
  /\ setup.done = Len(image)
  /\ Goes("segments", "run")
  /\ elf' = "loaded" /\ setup' = [setup EXCEPT !.done = 0]
  /\ UNCHANGED <<mmu, mem, bus, core, request, blocks, raced, held>>

(* A call of mmu_allocate starts: for a stack, an argument, or brk.        *)
Asks(t, n) ==
  /\ Ask(t, n) /\ n \in Nat
  /\ \/ /\ t = Main
        /\ \/ at = "stack" /\ n = StackSize
           \/ at = "argv0" /\ n = Argv0
           \/ at = "argv1" /\ n = argv1
     \/ t \in Cores /\ Runs(t)

(* brk returns what mmu_allocate granted.                                  *)
Takes(c) ==
  /\ Runs(c) /\ Stage(c, "done")
  /\ request' = [request EXCEPT ![c] = NoRequest]
  /\ UNCHANGED <<mmu, mem, bus, at, setup, elf, core, blocks, raced, held>>

(* All of them.                                                            *)
StepCases ==
  \/ Moves \/ LoadSegment \/ ElfLoaded
  \/ \E t \in Threads : (\E n \in Nat : Asks(t, n)) \/ Bump(t) \/ Grant(t)
  \/ core_init \/ WriteArgv0 \/ WriteArgv1 \/ push \/ core_start \/ core_join
  \/ \E c \in Cores : GuestAccess(c) \/ Takes(c) \/ CoreEnds(c)

(* Next does nothing else.                                                 *)
LEMMA NextCases == StartInv /\ Next => StepCases
<1> SUFFICES ASSUME StartInv, Next PROVE StepCases
  OBVIOUS
<1>1. ASSUME NEW from, from # "push", Dies(from) PROVE Moves
  BY <1>1 DEF Dies, Goes, Moves
<1>2. CASE MainSteps
  <2>1. CASE emulator_init \/ load_file \/ cpu_init \/ WriteAsserts
    <3>1. Moves
      BY <1>1, <2>1 DEF emulator_init, load_file, cpu_init, WriteAsserts, Goes, Moves
    <3> QED
      BY <3>1 DEF StepCases
  <2>2. CASE elf_load
    <3>1. LoadSegment \/ ElfLoaded \/ Moves
      BY <1>1, <2>2 DEF elf_load, ElfLoaded
    <3> QED
      BY <3>1 DEF StepCases
  <2>3. CASE AskStack \/ AskArgv0 \/ AskArgv1
    <3>1. Moves \/ Asks(Main, StackSize) \/ Asks(Main, Argv0)
          \/ (argv1 \in Nat /\ Asks(Main, argv1))
      BY <1>1, <2>3, Numbers, StartupAssumption
         DEF AskStack, AskArgv0, AskArgv1, Asks, StartInv, Types
    <3> QED
      BY <3>1, Numbers DEF StepCases
  <2> QED
    BY <1>2, <2>1, <2>2, <2>3 DEF MainSteps, StepCases
<1>3. ASSUME NEW t \in Threads, mmu_allocate(t) PROVE StepCases
  BY <1>3 DEF mmu_allocate, StepCases
<1>4. ASSUME NEW c \in Cores, GuestAccess(c) \/ sys_brk(c) \/ CoreEnds(c)
      PROVE  StepCases
  <2>1. GuestAccess(c) \/ Asks(c, BrkStep) \/ Takes(c) \/ CoreEnds(c)
    BY <1>4, Numbers DEF sys_brk, Asks, Takes
  <2> QED
    BY <2>1, Numbers DEF StepCases
<1> QED
  BY <1>2, <1>3, <1>4 DEF Next

(* What main writes has the length it asked memory for.                    *)
LEMMA Lengths ==
  /\ \A name : \A n \in Nat : Len(Bytes(name, n)) = n /\ DOMAIN Bytes(name, n) = 1 .. n
  /\ \A x : Len(Word(x)) = WordBytes /\ DOMAIN Word(x) = 1 .. WordBytes
BY Numbers DEF Bytes, Word

(* A bus write of main, of all of the bytes or of none.                    *)
LEMMA WrittenEffect ==
  ASSUME Types, NEW v \in Int, NEW bytes, Len(bytes) \in Nat, Written(v, bytes)
  PROVE  /\ MmuOK(mmu') /\ mmu'.size = RamSize /\ mmu'.curr_vaddr = mmu.curr_vaddr
         /\ DOMAIN mem' = DOMAIN mem
         /\ \A i \in 0 .. RamSize - 1 :
              i \notin Span(v, Len(bytes)) \/ v \notin BusAddresses =>
                mem'[i] = mem[i] /\ mmu'.perm[i] = mmu.perm[i]
         /\ v \in BusAddresses /\ WriteOK(mmu, v, Len(bytes)) =>
              \A i \in Span(v, Len(bytes)) :
                /\ i \in 0 .. RamSize - 1
                /\ mem'[i] = bytes[i - (v - Base) + 1]
                /\ mmu'.perm[i] = AfterWrite(mmu.perm[i])
<1> DEFINE n == Len(bytes)
<1>1. MmuOK(mmu) /\ mmu.size = RamSize /\ DOMAIN mem = 0 .. RamSize - 1 /\ n \in Nat
  BY DEF Types
<1>2. CASE v \notin BusAddresses
  BY <1>1, <1>2 DEF Written
<1>3. CASE v \in BusAddresses
  <2>1. /\ v \in Nat /\ mmu' = WriteFrom(mmu, v, n)
        /\ mem' = IF WriteOK(mmu, v, n)
                  THEN [i \in DOMAIN mem |->
                          IF i \in Span(v, n) THEN bytes[i - (v - Base) + 1] ELSE mem[i]]
                  ELSE mem
    BY <1>3, Numbers DEF Written, BusAddresses
  <2> HIDE DEF n
  <2>2. /\ MmuOK(mmu') /\ mmu'.size = RamSize /\ mmu'.curr_vaddr = mmu.curr_vaddr
        /\ \A i \in 0 .. RamSize - 1 : i \notin Span(v, n) => mmu'.perm[i] = mmu.perm[i]
    <3> DEFINE s == WriteFrom(mmu, v, n)
    <3>1. /\ MmuOK(s) /\ s.size = mmu.size /\ s.curr_vaddr = mmu.curr_vaddr
          /\ \A i \in 0 .. mmu.size - 1 : i \notin Span(v, n) => s.perm[i] = mmu.perm[i]
      BY <1>1, <2>1, WriteFromOK
    <3> HIDE DEF s
    <3>2. mmu' = s
      BY <2>1 DEF s
    <3> QED
      BY <1>1, <3>1, <3>2
  <2>3. WriteOK(mmu, v, n) =>
          \A i \in Span(v, n) : i \in 0 .. RamSize - 1 /\ mmu'.perm[i] = AfterWrite(mmu.perm[i])
    BY <1>1, <2>1, WriteFromWrites
  <2>4. DOMAIN mem' = DOMAIN mem
        /\ \A i \in 0 .. RamSize - 1 : i \notin Span(v, n) => mem'[i] = mem[i]
    BY <1>1, <2>1
  <2>5. WriteOK(mmu, v, n) =>
          \A i \in Span(v, n) : mem'[i] = bytes[i - (v - Base) + 1]
    BY <1>1, <2>1, <2>3
  <2> QED
    BY <1>3, <2>2, <2>3, <2>4, <2>5 DEF n
<1> QED
  BY <1>2, <1>3

(* The segments of an image fit in RAM, one behind the other.              *)
LEMMA SegmentFits ==
  ASSUME image \in Images, NEW k \in DOMAIN image
  PROVE  /\ k \in Nat /\ k \in 1 .. Len(image) /\ DOMAIN image = 1 .. Len(image)
         /\ image[k].vaddr \in Nat /\ image[k].memsz \in Nat /\ image[k].filesz \in Nat
         /\ ElfPerm(image[k].flags) \in SUBSET Flags
         /\ Base <= image[k].vaddr /\ image[k].filesz <= image[k].memsz
         /\ ImageEnd(k) <= Base + RamSize
         /\ \A j \in 1 .. k - 1 : ImageEnd(j) <= image[k].vaddr
<1>1. image \in Seq(Segments) /\ image[k] \in Segments
  BY StartupAssumption
<1>2. ElfPerm(image[k].flags) \in SUBSET Flags
  BY DEF ElfPerm
<1>3. k \in Nat /\ k \in 1 .. Len(image) /\ DOMAIN image = 1 .. Len(image)
  BY <1>1
<1>4. /\ image[k].vaddr \in Nat /\ image[k].memsz \in Nat /\ image[k].filesz \in Nat
  BY <1>1 DEF Segments
<1>5. /\ Base <= image[k].vaddr /\ image[k].filesz <= image[k].memsz
      /\ image[k].vaddr + image[k].memsz <= Base + RamSize
      /\ \A j \in 1 .. k - 1 : image[j].vaddr + image[j].memsz <= image[k].vaddr
  BY StartupAssumption
<1> QED
  BY <1>2, <1>3, <1>4, <1>5 DEF ImageEnd

(* elf_load adds memory for a segment, fills it and sets its permissions.  *)
LEMMA LoadEffect ==
  ASSUME Types, LoadSegment, NEW k, k = setup.done + 1
  PROVE  /\ k \in DOMAIN image /\ k \in Nat
         /\ MmuOK(mmu') /\ mmu'.size = RamSize /\ mmu'.curr_vaddr = ImageEnd(k)
         /\ DOMAIN mem' = DOMAIN mem
         /\ \A i \in 0 .. RamSize - 1 : i \notin Span(image[k].vaddr, image[k].memsz) =>
              mem'[i] = mem[i] /\ mmu'.perm[i] = mmu.perm[i]
         /\ InPlace(k)'
<1> DEFINE v == image[k].vaddr
           n == image[k].memsz
           f == image[k].filesz
           p == ElfPerm(image[k].flags)
           m1 == AddInside(mmu, v, n, FreshPerm)
           m2 == WriteFrom(m1, v, f)
<1>1. /\ at = "segments" /\ setup.done < Len(image) /\ image' = image
      /\ mmu' = SetPerm(m2, v, f, p)
      /\ mem' = [i \in DOMAIN mem |-> IF i \in Span(v, f) THEN <<"image", i>> ELSE mem[i]]
  BY DEF LoadSegment, held
<1>2. MmuOK(mmu) /\ mmu.size = RamSize /\ DOMAIN mem = 0 .. RamSize - 1
      /\ image \in Images /\ setup.done \in Nat
  BY DEF Types
<1>3. k \in DOMAIN image /\ k \in Nat
  <2>1. image \in Seq(Segments)
    BY <1>2, StartupAssumption
  <2> QED
    BY <1>1, <1>2, <2>1
<1>4. /\ v \in Nat /\ n \in Nat /\ f \in Nat /\ p \in SUBSET Flags
      /\ Base <= v /\ f <= n /\ v + n <= Base + RamSize /\ ImageEnd(k) = v + n
  BY <1>2, <1>3, SegmentFits DEF ImageEnd
<1> HIDE DEF v, n, f, p
<1>5. /\ MmuOK(m1) /\ m1.size = RamSize /\ m1.curr_vaddr = v + n
      /\ \A i \in 0 .. RamSize - 1 : i \notin Span(v, n) => m1.perm[i] = mmu.perm[i]
  <2>1. ~Extends(mmu, v, n)
    BY <1>2, <1>4, Numbers DEF Extends, End
  <2> QED
    BY <1>2, <1>4, <2>1, Numbers, AddInsideOK
<1> HIDE DEF m1
<1>6. \A i \in 0 .. RamSize - 1 : i \in Span(v, f) => i \in Span(v, n)
  BY <1>4, Numbers DEF Span
<1>7. /\ MmuOK(m2) /\ m2.size = RamSize /\ m2.curr_vaddr = v + n
      /\ \A i \in 0 .. RamSize - 1 : i \notin Span(v, n) => m2.perm[i] = mmu.perm[i]
  <2>1. /\ MmuOK(m2) /\ m2.size = m1.size /\ m2.curr_vaddr = m1.curr_vaddr
        /\ \A i \in 0 .. m1.size - 1 : i \notin Span(v, f) => m2.perm[i] = m1.perm[i]
    BY <1>4, <1>5, WriteFromOK
  <2> HIDE DEF m2
  <2> QED
    BY <1>5, <1>6, <2>1
<1> HIDE DEF m2
<1>8. /\ MmuOK(mmu') /\ mmu'.size = RamSize /\ mmu'.curr_vaddr = v + n
      /\ \A i \in 0 .. RamSize - 1 :
           mmu'.perm[i] = IF i \in Span(v, f) THEN p ELSE m2.perm[i]
  BY <1>1, <1>4, <1>7, SetPermOK
<1>9. \A i \in 0 .. RamSize - 1 : i \notin Span(v, n) =>
        mem'[i] = mem[i] /\ mmu'.perm[i] = mmu.perm[i]
  BY <1>1, <1>2, <1>6, <1>7, <1>8
<1>10. \A i \in Span(v, f) : i \in 0 .. RamSize - 1 /\ mem'[i] = <<"image", i>>
                             /\ mmu'.perm[i] = p
  <2>1. \A i \in Span(v, f) : i \in 0 .. RamSize - 1
    BY <1>4, Numbers DEF Span
  <2> QED
    BY <1>1, <1>2, <1>8, <2>1
<1>11. InPlace(k)'
  <2>1. Span(image'[k].vaddr, image'[k].filesz) = Span(v, f)
        /\ ElfPerm(image'[k].flags) = p
    BY <1>1 DEF v, f, p
  <2> QED
    BY <1>10, <2>1 DEF InPlace
<1> QED
  BY <1>1, <1>2, <1>3, <1>4, <1>8, <1>9, <1>11 DEF v, n

----------------------------------------------------------------------------
(* StartInv, step by step.  No step but core_init moves the stack of a     *)
(* core: pushes leave the place they count from.                           *)
StacksStay == \A c \in Cores : StackAt(c)' = StackAt(c)

(* Steps of main that only move it on.                                     *)
LEMMA StartMoves == StartInv /\ Moves => StartInv' /\ StacksStay
<1> SUFFICES ASSUME StartInv, Moves PROVE StartInv' /\ StacksStay
  OBVIOUS
<1> USE DEF StartInv, Moves, held
<1>1. Types'
  BY DEF Types, Places, Early
<1>2. Requests'
  BY DEF Requests, Stage, Pending, MainAsks
<1>3. \A c \in Cores : StackAt(c)' = StackAt(c)
  BY DEF StackAt, Pushes
<1>4. Order'
  BY <1>3 DEF Order, This, Early
<1> QED
  BY <1>1, <1>2, <1>3, <1>4 DEF StacksStay

(* An iteration of elf_load, and its end.                                  *)
LEMMA StartLoads == StartInv /\ (LoadSegment \/ ElfLoaded) => StartInv' /\ StacksStay
<1> SUFFICES ASSUME StartInv, LoadSegment \/ ElfLoaded PROVE StartInv' /\ StacksStay
  OBVIOUS
<1> USE DEF StartInv
<1>1. /\ at = "segments" /\ setup' \in [core : Cores, done : Nat] /\ This' = This
      /\ UNCHANGED <<bus, core, request, blocks, raced, image, argv1>>
      /\ \/ at' = at /\ elf' = elf
         \/ at' = "run" /\ elf' = "loaded" /\ setup'.done = 0
  BY DEF LoadSegment, ElfLoaded, Goes, held, Types, This
<1>2. MmuOK(mmu') /\ mmu'.size = RamSize /\ DOMAIN mem' = 0 .. RamSize - 1
  BY LoadEffect DEF Types, ElfLoaded
<1>3. Types'
  BY <1>1, <1>2 DEF Types, Places, Early
<1>4. Requests'
  BY <1>1 DEF Requests, Stage, Pending, MainAsks
<1>5. \A c \in Cores : StackAt(c)' = StackAt(c)
  BY <1>1 DEF StackAt, Pushes
<1>6. Order'
  BY <1>1, <1>5 DEF Order, Early
<1> QED
  BY <1>3, <1>4, <1>5, <1>6 DEF StacksStay

(* mmu_allocate: what is asked for, fits, and so does the new pointer.     *)
LEMMA StartAsks ==
  ASSUME StartInv, NEW t \in Threads, NEW n \in Nat, Asks(t, n)
  PROVE  StartInv' /\ StacksStay
<1> USE DEF StartInv
<1>1. /\ Stage(t, "none")
      /\ request' = [request EXCEPT ![t] =
                       IF CanAllocate(mmu, n)
                       THEN [stage |-> "asked", at |-> mmu.curr_vaddr, size |-> n]
                       ELSE [stage |-> "done", at |-> 0, size |-> n]]
      /\ raced' \in BOOLEAN
      /\ UNCHANGED <<mmu, mem, bus, at, setup, elf, core, blocks, image, argv1>>
  BY DEF Asks, Ask, held
<1>2. mmu.curr_vaddr \in Nat /\ Base <= mmu.curr_vaddr /\ mmu.size = RamSize
  BY DEF Types, MmuOK
<1>3. /\ request'[t].size = n /\ request'[t].stage \in {"asked", "done"}
      /\ Answer(request'[t].at, n) /\ request'[t].at \in Nat
      /\ request'[t].stage = "asked" => Fits(request'[t].at, n)
  <2>1. CASE CanAllocate(mmu, n)
    <3>1. request'[t] = [stage |-> "asked", at |-> mmu.curr_vaddr, size |-> n]
      BY <1>1, <2>1 DEF Types
    <3>2. Fits(mmu.curr_vaddr, n)
      BY <1>2, <2>1 DEF Fits, CanAllocate, End
    <3> QED
      BY <1>2, <3>1, <3>2 DEF Answer
  <2>2. CASE ~CanAllocate(mmu, n)
    <3>1. request'[t] = [stage |-> "done", at |-> 0, size |-> n]
      BY <1>1, <2>2 DEF Types
    <3> QED
      BY <3>1 DEF Answer
  <2> QED
    BY <2>1, <2>2
<1>4. \A u \in Threads : u # t => request'[u] = request[u]
  BY <1>1 DEF Types
<1>5. Types'
  <2>1. request' \in [Threads -> [stage : Stages, at : Nat, size : Nat]]
    BY <1>1, <1>2 DEF Types, Stages
  <2> QED
    BY <1>1, <2>1 DEF Types
<1>6. Requests'
  <2>1. \A u \in Threads : /\ Answer(request'[u].at, request'[u].size)
                           /\ request'[u].stage \in {"asked", "bumped"} =>
                                Fits(request'[u].at, request'[u].size)
    BY <1>3, <1>4 DEF Requests, Pending
  <2>2. \A c \in Cores : request'[c].stage = "none" \/ core[c].state = "running"
    BY <1>3, <1>4, Numbers DEF Requests, Stage, Asks, Runs
  <2>3. request'[Main].stage # "none" =>
          \/ at = "stack" /\ MainAsks(StackSize)'
          \/ at = "argv0" /\ MainAsks(Argv0)'
          \/ at = "argv1" /\ MainAsks(argv1)'
          \/ at = "died"
    <3>1. CASE t = Main
      <4>1. \/ at = "stack" /\ n = StackSize
            \/ at = "argv0" /\ n = Argv0
            \/ at = "argv1" /\ n = argv1
        BY <3>1, Numbers DEF Asks
      <4>2. request'[Main].size = n /\ argv1' = argv1
        BY <1>1, <1>3, <3>1
      <4> QED
        BY <4>1, <4>2 DEF MainAsks
    <3>2. CASE t # Main
      BY <1>1, <1>4, <3>2, Numbers DEF Requests, MainAsks, Stage
    <3> QED
      BY <3>1, <3>2
  <2> QED
    BY <1>1, <2>1, <2>2, <2>3 DEF Requests, Pending, Stage
<1>7. Order'
  BY <1>1 DEF Order, This, StackAt, Pushes
<1>8. StacksStay
  BY <1>1 DEF StacksStay, StackAt, Pushes, This
<1> QED
  BY <1>5, <1>6, <1>7, <1>8

(* mmu_allocate: the pointer is moved, the block is marked.                *)
LEMMA StartAllocates ==
  ASSUME StartInv, NEW t \in Threads, Bump(t) \/ Grant(t)
  PROVE  StartInv' /\ StacksStay
<1> USE DEF StartInv
<1> DEFINE v == request[t].at
           n == request[t].size
<1>1. /\ Pending(t)
      /\ request' = [request EXCEPT ![t].stage = IF Stage(t, "asked") THEN "bumped"
                                                  ELSE "done"]
      /\ UNCHANGED <<mem, bus, at, setup, elf, core, raced, image, argv1>>
      /\ \/ mmu' = [mmu EXCEPT !.curr_vaddr = v + Aligned(n)] /\ blocks' = blocks
         \/ /\ mmu' = SetPerm(mmu, v, n, FreshPerm)
            /\ blocks' \subseteq blocks \cup {[owner |-> t, at |-> v, size |-> n]}
  BY DEF Bump, Grant, Pending, Stage, held
<1>2. v \in Nat /\ n \in Nat /\ MmuOK(mmu) /\ mmu.size = RamSize /\ Fits(v, n)
  BY <1>1 DEF Types, Requests
<1>3. /\ \A u \in Threads : /\ request'[u].at = request[u].at
                            /\ request'[u].size = request[u].size
                            /\ u # t => request'[u] = request[u]
      /\ request'[t].stage \in {"bumped", "done"}
      /\ request' \in [Threads -> [stage : Stages, at : Nat, size : Nat]]
  BY <1>1 DEF Types, Stages
<1> HIDE DEF v, n
<1>4. MmuOK(mmu') /\ mmu'.size = RamSize
  <2>1. CASE mmu' = SetPerm(mmu, v, n, FreshPerm)
    BY <1>2, <2>1, Numbers, SetPermOK
  <2>2. CASE mmu' = [mmu EXCEPT !.curr_vaddr = v + Aligned(n)]
    <3> DEFINE P == [0 .. mmu.size - 1 -> SUBSET Flags]
               D == [DOMAIN mmu.dirty -> BOOLEAN]
               w == v + Aligned(n)
    <3>1. mmu \in [size : Nat, curr_vaddr : Nat, perm : P, dirty : D, state : MmuStates]
      BY <1>2 DEF MmuOK
    <3>2. w \in Nat /\ Base <= w /\ w <= Base + RamSize
      <4>1. Aligned(n) \in Nat
        BY <1>2, AnswerRanges
      <4> QED
        BY <1>2, <4>1, Numbers DEF Fits
    <3>3. mmu' = [mmu EXCEPT !.curr_vaddr = w]
      BY <2>2
    <3> HIDE DEF P, D, w
    <3>4. /\ mmu' \in [size : Nat, curr_vaddr : Nat, perm : P, dirty : D, state : MmuStates]
          /\ mmu'.size = mmu.size /\ mmu'.curr_vaddr = w /\ mmu'.dirty = mmu.dirty
          /\ mmu'.perm = mmu.perm
      BY <3>1, <3>2, <3>3
    <3> QED
      BY <1>2, <3>2, <3>4 DEF MmuOK, P, D, End
  <2> QED
    BY <1>1, <2>1, <2>2
<1>5. blocks' \subseteq [owner : Threads, at : Nat, size : Nat]
  BY <1>1, <1>2 DEF Types
<1>6. Types'
  BY <1>1, <1>3, <1>4, <1>5 DEF Types
<1>7. Requests'
  <2>1. \A u \in Threads : /\ Answer(request'[u].at, request'[u].size)
                           /\ request'[u].stage \in {"asked", "bumped"} =>
                                Fits(request'[u].at, request'[u].size)
    BY <1>2, <1>3 DEF Requests, Pending, v, n
  <2>2. \A u \in Threads : request'[u].stage = "none" <=> request[u].stage = "none"
    BY <1>1, <1>3 DEF Pending
  <2> QED
    BY <1>1, <1>3, <2>1, <2>2, Numbers DEF Requests, Pending, Stage, MainAsks
<1>8. Order'
  <2>1. at \notin Early
    BY <1>1 DEF Requests, Order, Early, Idle, Pending, Stage, Threads, Cores, Main
  <2> QED
    BY <1>1, <2>1 DEF Order, This, StackAt, Pushes
<1>9. StacksStay
  BY <1>1 DEF StacksStay, StackAt, Pushes, This
<1> QED
  BY <1>6, <1>7, <1>8, <1>9

(* Main takes the block it asked for: as its stack, ...                    *)
LEMMA MainTakes ==
  ASSUME StartInv, Answered, NEW n \in Nat, MainAsks(n),
         \A c \in Cores : core'[c].state = core[c].state
  PROVE  /\ Requests'
         /\ request' \in [Threads -> [stage : Stages, at : Nat, size : Nat]]
         /\ request[Main].at \in Nat /\ Answer(request[Main].at, n)
<1> USE DEF StartInv
<1>1. /\ request[Main].stage = "done"
      /\ request' = [request EXCEPT ![Main] = NoRequest]
  BY DEF Answered, Stage
<1>2. /\ \A t \in Threads : t # Main => request'[t] = request[t]
      /\ request'[Main] = NoRequest
      /\ request' \in [Threads -> [stage : Stages, at : Nat, size : Nat]]
  BY <1>1, Numbers DEF Types, Stages, NoRequest
<1>3. request[Main].at \in Nat /\ Answer(request[Main].at, n)
  BY Numbers DEF Types, Requests, MainAsks
<1>4. Requests'
  <2>1. NoRequest.at = 0 /\ NoRequest.stage = "none"
    BY DEF NoRequest
  <2>2. \A t \in Threads : /\ Answer(request'[t].at, request'[t].size)
                           /\ request'[t].stage \in {"asked", "bumped"} =>
                                Fits(request'[t].at, request'[t].size)
    BY <1>2, <2>1 DEF Requests, Pending, Answer
  <2>3. \A c \in Cores : request'[c].stage = "none" \/ core'[c].state = "running"
    BY <1>2, Numbers DEF Requests, Stage
  <2> QED
    BY <1>2, <2>1, <2>2, <2>3 DEF Requests, Pending, Stage
<1> QED
  BY <1>2, <1>3, <1>4

(* ... and as an argument, which it writes there.                          *)
LEMMA ArgumentEffect ==
  ASSUME StartInv, NEW name, NEW n \in Nat, MainAsks(n), Argument(name, n)
  PROVE  /\ Answered /\ UNCHANGED <<elf, blocks, raced, image, argv1>>
         /\ bus' \in {"READY", "ERROR", "held"}
         /\ MmuOK(mmu') /\ mmu'.size = RamSize /\ mmu'.curr_vaddr = mmu.curr_vaddr
         /\ DOMAIN mem' = 0 .. RamSize - 1
<1>1. /\ Answered /\ UNCHANGED <<elf, blocks, raced, image, argv1>>
      /\ Written(request[Main].at, Bytes(name, n))
      /\ bus' = DeviceAfter(request[Main].at, n, "held")
  BY DEF Argument, held
<1>2. request[Main].at \in Nat /\ Types
  BY Numbers DEF StartInv, Types
<1>3. bus' \in {"READY", "ERROR", "held"}
  BY <1>1, <1>2 DEF DeviceAfter, Types
<1>4. Len(Bytes(name, n)) \in Nat
  BY Lengths
<1>5. /\ MmuOK(mmu') /\ mmu'.size = RamSize /\ mmu'.curr_vaddr = mmu.curr_vaddr
      /\ DOMAIN mem' = DOMAIN mem
  BY <1>1, <1>2, <1>4, WrittenEffect
<1> QED
  BY <1>1, <1>2, <1>3, <1>5 DEF Types

(* core_init: the stack pointer is the end of the block.                   *)
LEMMA StartTakesStack ==
  ASSUME StartInv, core_init
  PROVE  /\ StartInv' /\ This \in Cores /\ This' = This
         /\ \A c \in Cores : c # This => StackAt(c)' = StackAt(c)
         /\ StackAt(This)' = request[Main].at
<1> USE DEF StartInv
<1>1. /\ at = "stack" /\ at' = "argv0" /\ Answered
      /\ core' = [core EXCEPT ![This].sp = request[Main].at + StackSize]
      /\ UNCHANGED <<mmu, mem, bus, setup, elf, blocks, raced, image, argv1>>
  BY DEF core_init, Goes, held
<1>2. MainAsks(StackSize)
  BY <1>1 DEF Requests, Answered, Stage
<1>3. This \in Cores /\ core[This].state = "none" /\ setup.done = 0
  <2>1. This \in Cores /\ This >= This
    BY Numbers DEF Types, This, Cores
  <2> QED
    BY <1>1, <2>1 DEF Order
<1>4. request[Main].at \in Nat
  BY Numbers DEF Types
<1>5. /\ \A c \in Cores : /\ core'[c].state = core[c].state
                          /\ core'[c].av0 = core[c].av0 /\ core'[c].av1 = core[c].av1
                          /\ c # This => core'[c] = core[c]
      /\ core'[This].sp = request[Main].at + StackSize
      /\ core' \in [Cores -> [state : {"none", "running", "unstarted", "ended"},
                              sp : Int, av0 : Nat, av1 : Nat]]
  <2> DEFINE w == request[Main].at + StackSize
  <2>1. w \in Int /\ core' = [core EXCEPT ![This].sp = w]
    BY <1>1, <1>4, Numbers
  <2> HIDE DEF w
  <2> QED
    BY <1>3, <2>1 DEF Types, w
<1>6. /\ Requests' /\ request' \in [Threads -> [stage : Stages, at : Nat, size : Nat]]
      /\ Answer(request[Main].at, StackSize)
  BY <1>1, <1>2, <1>5, Numbers, MainTakes
<1>7. Types'
  BY <1>1, <1>5, <1>6 DEF Types, Places
<1>8. /\ \A c \in Cores : c # This => StackAt(c)' = StackAt(c)
      /\ StackAt(This)' = request[Main].at
  <2>1. /\ This' = This /\ \A c \in Cores : c # This => Pushes(c)' = Pushes(c)
        /\ Pushes(This)' = 0
    BY <1>1, <1>3, <1>5 DEF Pushes, This
  <2>2. StackAt(This)' = core'[This].sp + 0 * WordBytes - StackSize
    BY <2>1 DEF StackAt
  <2>3. \A c \in Cores : c # This => StackAt(c)' = StackAt(c)
    BY <1>5, <2>1 DEF StackAt
  <2> QED
    BY <1>4, <1>5, <2>2, <2>3, Numbers
<1>9. Order'
  BY <1>1, <1>3, <1>5, <1>6, <1>8 DEF Order, This, Early
<1> QED
  BY <1>1, <1>3, <1>6, <1>7, <1>8, <1>9 DEF This

(* main copies an argument into its block.                                 *)
LEMMA StartWritesArgument == StartInv /\ (WriteArgv0 \/ WriteArgv1) => StartInv' /\ StacksStay
<1> SUFFICES ASSUME StartInv, WriteArgv0 \/ WriteArgv1 PROVE StartInv' /\ StacksStay
  OBVIOUS
<1> USE DEF StartInv
<1> DEFINE v == request[Main].at
<1>1. /\ \/ /\ at = "argv0" /\ at' = "argv1" /\ Argument("argv0", Argv0)
            /\ core' = [core EXCEPT ![This].av0 = v] /\ setup' = setup
         \/ /\ at = "argv1" /\ at' = "push" /\ Argument("argv1", argv1)
            /\ core' = [core EXCEPT ![This].av1 = v]
            /\ setup' = [setup EXCEPT !.done = 0]
      /\ ~Stage(Main, "none")
  BY DEF WriteArgv0, WriteArgv1, Goes, Argument, Answered, Stage
<1>2. PICK n \in Nat : /\ MainAsks(n)
                       /\ Argument("argv0", n) \/ Argument("argv1", n)
                       /\ at = "argv0" => n = Argv0
                       /\ at = "argv1" => n = argv1
  <2>1. CASE at = "argv0"
    BY <1>1, <2>1, Numbers DEF Requests
  <2>2. CASE at = "argv1"
    <3>1. MainAsks(argv1)
      BY <1>1, <2>2 DEF Requests
    <3> QED
      BY <1>1, <2>2, <3>1 DEF MainAsks
  <2> QED
    BY <1>1, <2>1, <2>2
<1>3. /\ Answered /\ UNCHANGED <<elf, blocks, raced, image, argv1>>
      /\ bus' \in {"READY", "ERROR", "held"}
      /\ MmuOK(mmu') /\ mmu'.size = RamSize
      /\ DOMAIN mem' = 0 .. RamSize - 1
  BY <1>2, ArgumentEffect
<1>4. This \in Cores /\ This' = This /\ core[This].state = "none" /\ v \in Nat
      /\ setup' \in [core : Cores, done : Nat] /\ setup'.done = 0
  <2>1. This \in Cores /\ This >= This
    BY Numbers DEF Types, This, Cores
  <2>2. core[This].state = "none" /\ setup.done = 0
    BY <1>1, <2>1 DEF Order
  <2> QED
    BY <1>1, <2>1, <2>2, Numbers DEF Types, This
<1> HIDE DEF v
<1>5. /\ \A c \in Cores : /\ core'[c].state = core[c].state /\ core'[c].sp = core[c].sp
                          /\ core'[c].av0 = core[c].av0 \/ (at = "argv0" /\ core'[c].av0 = v)
                          /\ core'[c].av1 = core[c].av1 \/ (at = "argv1" /\ core'[c].av1 = v)
      /\ core' \in [Cores -> [state : {"none", "running", "unstarted", "ended"},
                              sp : Int, av0 : Nat, av1 : Nat]]
  <2>0. core \in [Cores -> [state : {"none", "running", "unstarted", "ended"},
                          sp : Int, av0 : Nat, av1 : Nat]]
    BY DEF Types
  <2>1. CASE at = "argv0" /\ core' = [core EXCEPT ![This].av0 = v]
    BY <1>4, <2>0, <2>1
  <2>2. CASE at = "argv1" /\ core' = [core EXCEPT ![This].av1 = v]
    BY <1>4, <2>0, <2>2
  <2> QED
    BY <1>1, <2>1, <2>2
<1>6. /\ Requests' /\ request' \in [Threads -> [stage : Stages, at : Nat, size : Nat]]
      /\ Answer(v, n)
  BY <1>2, <1>3, <1>5, MainTakes DEF v
<1>7. Types'
  BY <1>1, <1>3, <1>4, <1>5, <1>6 DEF Types, Places
<1>8. \A c \in Cores : StackAt(c)' = StackAt(c)
  <2>1. \A c \in Cores : Pushes(c)' = Pushes(c)
    BY <1>1, <1>4, <1>5 DEF Pushes
  <2> QED
    BY <1>5, <2>1 DEF StackAt
<1>9. Order'
  <2>1. \A c \in Cores :
          /\ Answer(core'[c].av0, Argv0)
          /\ core'[c].av1 = 0 \/ (argv1 \in Nat /\ Fits(core'[c].av1, argv1))
    BY <1>2, <1>5, <1>6 DEF Order, Answer
  <2>2. \A c \in Cores :
          \/ Answer(StackAt(c)', StackSize)
          \/ /\ core'[c].state = "none" /\ core'[c].sp = 0
             /\ c = This' => at' \notin {"argv0", "argv1", "push"}
    BY <1>1, <1>4, <1>5, <1>8 DEF Order
  <2>3. at' \notin Early
    BY <1>1 DEF Early
  <2>4. \A c \in Cores : c >= This' => core'[c].state = "none"
    <3>1. \A c \in Cores : c >= This => core[c].state = "none"
      BY <1>1 DEF Order
    <3> QED
      BY <1>4, <1>5, <3>1
  <2>5. setup'.done = 0 /\ argv1' = argv1
    BY <1>3, <1>4
  <2> QED
    BY <2>1, <2>2, <2>3, <2>4, <2>5 DEF Order
<1> QED
  BY <1>6, <1>7, <1>8, <1>9 DEF StacksStay

(* A push moves x2 down by one word, to where the next one counts from.    *)
LEMMA StartPushes == StartInv /\ push => StartInv' /\ StacksStay
<1> SUFFICES ASSUME StartInv, push PROVE StartInv' /\ StacksStay
  OBVIOUS
<1> USE DEF StartInv
<1> DEFINE w == core[This].sp - WordBytes
           x == Pushed(This)[setup.done + 1]
<1>1. /\ at = "push" /\ setup.done < 6
      /\ Written(w, Word(x)) /\ bus' = DeviceAfter(w, WordBytes, "ERROR")
      /\ core' = [core EXCEPT ![This].sp = w]
      /\ setup' = [setup EXCEPT !.done = @ + 1]
      /\ UNCHANGED <<at, elf, request, blocks, raced, image, argv1>>
  BY DEF push, Slot, held
<1>2. This \in Cores /\ This' = This /\ core[This].state = "none" /\ w \in Int
      /\ setup' \in [core : Cores, done : Nat] /\ setup'.done = setup.done + 1
      /\ setup.done \in Nat
  <2>1. This \in Cores /\ This >= This
    BY Numbers DEF Types, This, Cores
  <2>2. core[This].state = "none"
    BY <1>1, <2>1 DEF Order
  <2>3. core[This].sp \in Int /\ setup \in [core : Cores, done : Nat]
    BY <2>1 DEF Types
  <2>4. /\ setup' \in [core : Cores, done : Nat] /\ setup'.done = setup.done + 1
        /\ setup'.core = setup.core /\ setup.done \in Nat
    BY <1>1, <2>3
  <2> QED
    BY <2>1, <2>2, <2>3, <2>4, Numbers DEF This
<1>3. Len(Word(x)) \in Nat
  BY Lengths, Numbers
<1>4. bus' \in {"READY", "ERROR", "held"}
  BY <1>1 DEF DeviceAfter, Types
<1> HIDE DEF x
<1>5. MmuOK(mmu') /\ mmu'.size = RamSize /\ DOMAIN mem' = 0 .. RamSize - 1
  BY <1>1, <1>2, <1>3, WrittenEffect DEF Types
<1>6. /\ \A c \in Cores : /\ core'[c].state = core[c].state
                          /\ core'[c].av0 = core[c].av0 /\ core'[c].av1 = core[c].av1
                          /\ c # This => core'[c] = core[c]
      /\ core'[This].sp = w
      /\ core' \in [Cores -> [state : {"none", "running", "unstarted", "ended"},
                              sp : Int, av0 : Nat, av1 : Nat]]
  <2>1. core \in [Cores -> [state : {"none", "running", "unstarted", "ended"},
                          sp : Int, av0 : Nat, av1 : Nat]]
    BY DEF Types
  <2>2. This \in Cores /\ w \in Int /\ core' = [core EXCEPT ![This].sp = w]
    BY <1>1, <1>2
  <2> HIDE DEF w
  <2> QED
    BY <2>1, <2>2
<1>7. Types'
  BY <1>1, <1>2, <1>4, <1>5, <1>6 DEF Types
<1>8. Requests'
  BY <1>1, <1>6 DEF Requests, Stage, Pending, MainAsks
<1>9. \A c \in Cores : StackAt(c)' = StackAt(c)
  <2>1. \A c \in Cores : c # This => Pushes(c)' = Pushes(c) /\ core'[c].sp = core[c].sp
    BY <1>1, <1>2, <1>6 DEF Pushes
  <2>2. Pushes(This)' = setup.done + 1 /\ Pushes(This) = setup.done
    BY <1>1, <1>2, <1>6 DEF Pushes
  <2>3. StackAt(This)' = StackAt(This)
    <3>1. core[This].sp \in Int
      BY <1>2 DEF Types
    <3>2. /\ StackAt(This)' = w + (setup.done + 1) * WordBytes - StackSize
          /\ StackAt(This) = core[This].sp + setup.done * WordBytes - StackSize
      BY <1>2, <1>6, <2>2 DEF StackAt
    <3>3. (setup.done + 1) * WordBytes = setup.done * WordBytes + WordBytes
      BY <1>2, Numbers
    <3>4. setup.done * WordBytes \in Int
      BY <1>2, Numbers
    <3> QED
      BY <3>1, <3>2, <3>3, <3>4, Numbers
  <2>4. \A c \in Cores : c # This => StackAt(c)' = StackAt(c)
    BY <2>1 DEF StackAt
  <2>5. \A c \in Cores : c = This => StackAt(c)' = StackAt(c)
    BY <1>2, <2>3 DEF StackAt
  <2> QED
    BY <2>4, <2>5
<1>10. Order'
  <2>1. \A c \in Cores : Answer(StackAt(c)', StackSize) \/ c # This
    BY <1>1, <1>2, <1>9 DEF Order
  <2>2. \A c \in Cores : c # This =>
          \/ Answer(StackAt(c)', StackSize)
          \/ core'[c].state = "none" /\ core'[c].sp = 0
    BY <1>6, <1>9 DEF Order
  <2>3. at \notin Early
    BY <1>1 DEF Early
  <2>4. setup'.done <= 6
    BY <1>1, <1>2
  <2> QED
    BY <1>1, <1>2, <1>6, <2>1, <2>2, <2>3, <2>4 DEF Order
<1> QED
  BY <1>7, <1>8, <1>9, <1>10 DEF StacksStay

(* A core starts with all six words pushed, and main goes to the next.     *)
LEMMA StartStarts == StartInv /\ core_start => StartInv' /\ StacksStay
<1> SUFFICES ASSUME StartInv, core_start PROVE StartInv' /\ StacksStay
  OBVIOUS
<1> USE DEF StartInv
<1>1. PICK started \in {"running", "unstarted"} :
        /\ at = "push" /\ setup.done = 6
        /\ core' = [core EXCEPT ![This].state = started]
        /\ \/ This < NumCores /\ at' = "stack" /\ setup' = [core |-> This + 1, done |-> 0]
           \/ at' = "join" /\ setup' = [core |-> 1, done |-> 0]
        /\ UNCHANGED <<mmu, mem, bus, elf, request, blocks, raced, image, argv1>>
  BY DEF core_start, Goes, held
<1>2. This \in Cores /\ This >= This /\ core[This].state = "none"
  <2>1. This \in Cores /\ This >= This
    BY Numbers DEF Types, This, Cores
  <2> QED
    BY <1>1, <2>1 DEF Order
<1>3. /\ setup' \in [core : Cores, done : Nat] /\ setup'.done = 0
      /\ at' = "stack" => This' = This + 1
  BY <1>1, <1>2, Numbers DEF Cores, This
<1>4. /\ \A c \in Cores : /\ core'[c].sp = core[c].sp
                          /\ core'[c].av0 = core[c].av0 /\ core'[c].av1 = core[c].av1
                          /\ c # This => core'[c] = core[c]
      /\ core'[This].state \in {"running", "unstarted"}
      /\ core' \in [Cores -> [state : {"none", "running", "unstarted", "ended"},
                              sp : Int, av0 : Nat, av1 : Nat]]
  BY <1>1, <1>2 DEF Types
<1>5. Types'
  BY <1>1, <1>3, <1>4 DEF Types, Places
<1>6. Requests'
  <2>1. Stage(Main, "none") /\ Stage(This, "none")
    BY <1>1, <1>2 DEF Requests
  <2> QED
    BY <1>1, <1>4, <2>1 DEF Requests, Stage, Pending
<1>7. \A c \in Cores : StackAt(c)' = StackAt(c)
  <2>1. Pushes(This) = 6
    BY <1>1, <1>2 DEF Pushes
  <2>2. \A c \in Cores : Pushes(c)' = Pushes(c)
    BY <1>1, <1>2, <1>4, <2>1 DEF Pushes
  <2> QED
    BY <1>4, <2>2 DEF StackAt
<1>8. Order'
  <2>1. at' = "stack" => \A c \in Cores : c >= This' => core'[c].state = "none"
    <3> SUFFICES ASSUME at' = "stack", NEW c \in Cores, c >= This'
                 PROVE  core'[c].state = "none"
      OBVIOUS
    <3>1. c >= This /\ c # This
      BY <1>2, <1>3, Numbers DEF Cores
    <3> QED
      BY <1>1, <1>4, <3>1 DEF Order
  <2>2. \A c \in Cores :
          \/ Answer(StackAt(c)', StackSize)
          \/ core'[c].state = "none" /\ core'[c].sp = 0
    BY <1>1, <1>2, <1>4, <1>7 DEF Order
  <2>3. at' \in {"stack", "join"} /\ at' \notin Early
    BY <1>1 DEF Early
  <2> QED
    BY <1>1, <1>3, <1>4, <2>1, <2>2, <2>3 DEF Order
<1> QED
  BY <1>5, <1>6, <1>7, <1>8 DEF StacksStay

(* What main and the cores do after that.                                  *)
LEMMA StartRuns ==
  ASSUME StartInv,
         \/ core_join
         \/ \E c \in Cores : GuestAccess(c) \/ Takes(c) \/ CoreEnds(c)
         \/ UNCHANGED vars
  PROVE  StartInv' /\ StacksStay
<1> USE DEF StartInv
<1>1. CASE core_join
  <2>1. /\ at = "join" /\ at' \in {"join", "returned", "died"}
        /\ \/ This < NumCores /\ setup' = [setup EXCEPT !.core = This + 1]
           \/ setup' = setup
        /\ UNCHANGED <<mmu, mem, bus, elf, core, request, blocks, raced, image, argv1>>
    BY <1>1 DEF core_join, Goes, held
  <2>2. setup \in [core : Cores, done : Nat] /\ This = setup.core
    BY DEF Types, This
  <2>3. setup' \in [core : Cores, done : Nat] /\ setup'.done = setup.done
    <3>1. CASE This < NumCores /\ setup' = [setup EXCEPT !.core = This + 1]
      <4>1. This + 1 \in Cores
        BY <2>2, <3>1, Numbers DEF Cores
      <4> QED
        BY <2>2, <3>1, <4>1
    <3> QED
      BY <2>1, <2>2, <3>1
  <2>4. Types'
    BY <2>1, <2>3 DEF Types, Places
  <2>5. Requests'
    BY <2>1 DEF Requests, Stage, Pending
  <2>6. \A c \in Cores : StackAt(c)' = StackAt(c)
    BY <2>1 DEF StackAt, Pushes
  <2>7. Order'
    BY <2>1, <2>3, <2>6 DEF Order, Early
  <2> QED
    BY <2>4, <2>5, <2>6, <2>7 DEF StacksStay
<1>2. ASSUME NEW c \in Cores, GuestAccess(c) PROVE StartInv' /\ StacksStay
  <2>1. /\ bus' \in {"READY", "ERROR", "held"}
        /\ UNCHANGED <<mmu, mem, at, setup, elf, core, request, blocks, raced, image, argv1>>
    BY <1>2 DEF GuestAccess, held
  <2>2. Types'
    BY <2>1 DEF Types
  <2>3. Requests' /\ Order'
    BY <2>1 DEF Requests, Stage, Pending, MainAsks, Order, StackAt, Pushes, This
  <2>4. StacksStay
    BY <2>1 DEF StacksStay, StackAt, Pushes, This
  <2> QED
    BY <2>2, <2>3, <2>4
<1>3. ASSUME NEW c \in Cores, Takes(c) PROVE StartInv' /\ StacksStay
  <2>1. /\ request' = [request EXCEPT ![c] = NoRequest]
        /\ UNCHANGED <<mmu, mem, bus, at, setup, elf, core, blocks, raced, image, argv1>>
    BY <1>3 DEF Takes, held
  <2>2. /\ request' \in [Threads -> [stage : Stages, at : Nat, size : Nat]]
        /\ request'[c].stage = "none" /\ request'[c].at = 0
        /\ \A t \in Threads : t # c => request'[t] = request[t]
    BY <2>1, Numbers DEF Types, NoRequest, Stages
  <2>3. Types'
    BY <2>1, <2>2 DEF Types
  <2>4. Requests'
    <3>1. \A t \in Threads : /\ Answer(request'[t].at, request'[t].size)
                             /\ request'[t].stage \in {"asked", "bumped"} =>
                                  Fits(request'[t].at, request'[t].size)
      BY <2>2 DEF Requests, Pending, Answer
    <3> QED
      BY <2>1, <2>2, <3>1, Numbers DEF Requests, Pending, Stage, MainAsks
  <2>5. Order'
    BY <2>1 DEF Order, StackAt, Pushes, This
  <2>6. StacksStay
    BY <2>1 DEF StacksStay, StackAt, Pushes, This
  <2> QED
    BY <2>3, <2>4, <2>5, <2>6
<1>4. ASSUME NEW c \in Cores, CoreEnds(c) PROVE StartInv' /\ StacksStay
  <2>1. /\ core[c].state = "running" /\ request[c].stage = "none"
        /\ core' = [core EXCEPT ![c].state = "ended"]
        /\ UNCHANGED <<mmu, mem, bus, at, setup, elf, request, blocks, raced, image, argv1>>
    BY <1>4 DEF CoreEnds, Runs, Stage, held
  <2>2. /\ \A d \in Cores : /\ core'[d].sp = core[d].sp
                            /\ core'[d].av0 = core[d].av0 /\ core'[d].av1 = core[d].av1
                            /\ core'[d].state = "none" <=> core[d].state = "none"
                            /\ d # c => core'[d] = core[d]
        /\ core' \in [Cores -> [state : {"none", "running", "unstarted", "ended"},
                                sp : Int, av0 : Nat, av1 : Nat]]
    BY <2>1 DEF Types
  <2>3. Types'
    BY <2>1, <2>2 DEF Types
  <2>4. Requests'
    BY <2>1, <2>2 DEF Requests, Stage, Pending, MainAsks
  <2>5. \A d \in Cores : StackAt(d)' = StackAt(d)
    BY <2>1, <2>2 DEF StackAt, Pushes, This
  <2>6. at \notin Early
    BY <2>1 DEF Order, Idle
  <2>7. Order'
    BY <2>1, <2>2, <2>5, <2>6 DEF Order, This
  <2> QED
    BY <2>3, <2>4, <2>5, <2>7 DEF StacksStay
<1>5. CASE UNCHANGED vars
  <2> USE <1>5 DEF vars, held
  <2>1. Types'
    BY DEF Types
  <2>2. Requests' /\ Order'
    BY DEF Requests, Stage, Pending, MainAsks, Order, StackAt, Pushes, This
  <2>3. StacksStay
    BY DEF StacksStay, StackAt, Pushes, This
  <2> QED
    BY <2>1, <2>2, <2>3
<1> QED
  BY <1>1, <1>2, <1>3, <1>4, <1>5

(* Every step keeps the invariant.                                         *)
LEMMA StartNext == StartInv /\ [Next]_vars => StartInv'
<1> SUFFICES ASSUME StartInv, [Next]_vars PROVE StartInv'
  OBVIOUS
<1>1. CASE Next
  <2>1. StepCases
    BY <1>1, NextCases
  <2> QED
    BY <2>1, StartMoves, StartLoads, StartAsks, StartAllocates, StartTakesStack,
       StartWritesArgument, StartPushes, StartStarts, StartRuns
       DEF StepCases
<1>2. CASE UNCHANGED vars
  BY <1>2, StartRuns
<1> QED
  BY <1>1, <1>2

(* main's steps come in their order, with memory or without: what it asks  *)
(* for belongs to where it is, and x2 counts the words pushed.             *)
THEOREM SetUpInOrder == Spec => []StartInv
BY StartInit, StartNext, PTL DEF Spec

(* The mmu stays well formed though main and the cores write its           *)
(* allocation pointer, and each core is set up before it runs              *)
(* (emulator_run, mmu_allocate), for every number of cores.                *)
THEOREM TypesHold == Spec => []TypeOK
<1>1. StartInv => TypeOK
  <2> SUFFICES ASSUME StartInv PROVE TypeOK
    OBVIOUS
  <2>1. /\ MmuOK(mmu) /\ mmu.size = RamSize
        /\ bus \in {"READY", "ERROR", "held"}
        /\ setup \in [core : Cores, done : Nat]
        /\ elf \in {"unset", "loaded"} /\ raced \in BOOLEAN
        /\ \A b \in blocks : b.owner \in Threads
    BY DEF StartInv, Types
  <2>2. ASSUME NEW c \in Cores, c > This, at \notin {"join", "returned", "died"}
        PROVE  core[c].state = "none"
    <3>1. c >= This
      BY <2>1, <2>2, Numbers DEF This, Cores
    <3> QED
      BY <2>2, <3>1 DEF StartInv, Order
  <2> QED
    BY <2>1, <2>2 DEF TypeOK
<1> QED
  BY <1>1, SetUpInOrder, PTL

=============================================================================
