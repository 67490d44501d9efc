---------------------------- MODULE AddressSpace ----------------------------
(***************************************************************************)
(* The life of the emulated memory, from emulator_init to the last guest   *)
(* access: mmu_init, the segments elf_load adds, the blocks emulator_run   *)
(* and sys_brk take from the allocator, and the reads and writes that      *)
(* reach the mmu through the RAM device of the bus (memory.c).             *)
(*                                                                         *)
(* One thread runs at a time (the loader, then the single core while the   *)
(* main thread waits in core_join), so every call is one action.           *)
(***************************************************************************)
EXTENDS Mmu

CONSTANTS
  Segments,     \* PT_LOAD headers an image may hold
  AllocSizes,   \* sizes emulator_run allocates (stack and argv strings)
  BrkRequests,  \* addresses the guest asks sys_brk for
  BrkStep,      \* what sys_brk allocates for any non-zero request (0x100)
  AccessSizes,  \* bytes of one bus transfer (1, 2, 4, or count * width)
  Junk          \* permission words the heap may hold after realloc

ASSUME AddressSpaceAssumption ==
  /\ Segments \subseteq [vaddr : Nat, memsz : Nat, filesz : Nat,
                         flags : SUBSET {"R", "W", "X"}]
  /\ \A s \in Segments : s.filesz <= s.memsz
  /\ AllocSizes \subseteq Nat
  /\ BrkRequests \subseteq Nat \ {0}
  /\ BrkStep \in Nat
  /\ AccessSizes \subseteq Nat
  /\ Junk \subseteq SUBSET Flags

VARIABLES
  mmu,      \* the mmu_t of the emulator
  phase,    \* "load": elf_load; "run": emulator_run; "aborted": the process died
  brk,      \* program break sys_brk last returned to the guest, 0 before
  written,  \* history: offsets written since they were last granted
  claimed,  \* history: offsets of segments and of allocated blocks
  beyond    \* history: those of segments that extended the memory, until
            \* the allocator hands them out

vars == <<mmu, phase, brk, written, claimed, beyond>>

----------------------------------------------------------------------------
(* The ELF format lists loadable segments in ascending, disjoint order.    *)
Ascending(seg) == \A i \in claimed : i < seg.vaddr - Base

Init ==
  /\ \E st \in MmuStates : mmu = MmuInit(st)
  /\ phase = "load"
  /\ brk = 0
  /\ written = {} /\ claimed = {} /\ beyond = {}

(* The rest of an iteration of elf_load once mmu_add_memory returned m.    *)
FillSegment(m, seg) ==
  /\ mmu' = SetPerm(WriteFrom(m, seg.vaddr, seg.filesz),
                    seg.vaddr, seg.filesz, ElfPerm(seg.flags))
  /\ written' = (written \ Span(seg.vaddr, seg.memsz))
                  \cup (IF WriteOK(m, seg.vaddr, seg.filesz)
                        THEN Span(seg.vaddr, seg.filesz) ELSE {})
  /\ claimed' = claimed \cup Span(seg.vaddr, seg.memsz)
  /\ UNCHANGED <<phase, brk>>

LoadInside(seg) ==
  /\ phase = "load" /\ Ascending(seg)
  /\ seg.vaddr >= Base /\ ~Extends(mmu, seg.vaddr, seg.memsz)
  /\ FillSegment(AddInside(mmu, seg.vaddr, seg.memsz, FreshPerm), seg)
  /\ UNCHANGED beyond

(* The words past the shrunken permission array belong to the heap: using  *)
(* them works on junk, or kills the process (LoadFails).                   *)
LoadBeyond(seg) ==
  /\ phase = "load" /\ Ascending(seg)
  /\ seg.vaddr >= Base /\ Extends(mmu, seg.vaddr, seg.memsz)
  /\ \E junk \in Junk, jd \in BOOLEAN :
       FillSegment(AddBeyond(mmu, seg.vaddr, seg.memsz, FreshPerm, junk, jd), seg)
  /\ beyond' = beyond \cup Span(seg.vaddr, seg.memsz)

(* assert(0) below the base; failed realloc (elf_load returns NULL, which  *)
(* emulator_load_elf dereferences) or a fault on the lost words above it.  *)
LoadFails(seg) ==
  /\ phase = "load" /\ Ascending(seg)
  /\ seg.vaddr < Base \/ Extends(mmu, seg.vaddr, seg.memsz)
  /\ phase' = "aborted"
  /\ UNCHANGED <<mmu, brk, written, claimed, beyond>>

(* elf_load returns and emulator_run begins.                               *)
Run ==
  /\ phase = "load"
  /\ phase' = "run"
  /\ UNCHANGED <<mmu, brk, written, claimed, beyond>>

----------------------------------------------------------------------------
(* mmu_allocate with MPERM_RAW|MPERM_WRITE, the only permissions in use.   *)
(* Out of memory it returns 0 and nothing changes; no caller looks.        *)
Grab(n) ==
  IF CanAllocate(mmu, n)
  THEN /\ mmu' = Allocated(mmu, n, FreshPerm)
       /\ written' = written \ Span(mmu.curr_vaddr, n)
       /\ claimed' = claimed \cup Span(mmu.curr_vaddr, n)
       /\ beyond' = beyond \ Span(mmu.curr_vaddr, n)
  ELSE UNCHANGED <<mmu, written, claimed, beyond>>

(* emulator_run: the stack and the two argument strings.                   *)
Allocate(n) ==
  /\ phase = "run"
  /\ Grab(n)
  /\ UNCHANGED <<phase, brk>>

(* sys_brk.  A query returns the allocation pointer.  Any other request    *)
(* computes the increase from arg0 - vaddr, which is 0, so it allocates    *)
(* one BrkStep and returns the requested address as the new break.         *)
BrkQuery ==
  /\ phase = "run"
  /\ brk' = mmu.curr_vaddr
  /\ UNCHANGED <<mmu, phase, written, claimed, beyond>>

BrkRequest(arg0) ==
  /\ phase = "run"
  /\ Grab(BrkStep)
  /\ brk' = arg0
  /\ UNCHANGED phase

----------------------------------------------------------------------------
(* Transfers through the RAM device: bus_find_device compares only the     *)
(* first byte, with the RAM_SIZE of the device, not with mmu->size.        *)
BusAddresses == Base .. Base + RamSize - 1

Write(v, n) ==
  /\ phase = "run"
  /\ mmu' = WriteFrom(mmu, v, n)
  /\ written' = IF WriteOK(mmu, v, n) THEN written \cup Span(v, n) ELSE written
  /\ UNCHANGED <<phase, brk, claimed, beyond>>

Read(v, n) ==
  /\ phase = "run"
  /\ mmu' = ReadInto(mmu, v, n)
  /\ UNCHANGED <<phase, brk, written, claimed, beyond>>

Next ==
  \/ \E seg \in Segments : LoadInside(seg) \/ LoadBeyond(seg) \/ LoadFails(seg)
  \/ Run
  \/ \E n \in AllocSizes : Allocate(n)
  \/ BrkQuery
  \/ \E a \in BrkRequests : BrkRequest(a)
  \/ \E v \in BusAddresses, n \in AccessSizes : Write(v, n) \/ Read(v, n)

Spec == Init /\ [][Next]_vars

----------------------------------------------------------------------------
NeverExtended == mmu.size = RamSize

(* The mmu stays well formed (MmuOK: the permission and dirty arrays cover *)
(* the memory and the allocation pointer stays inside it), and nothing     *)
(* claimed lies below the base.                                            *)
TypeOK ==
  /\ MmuOK(mmu)
  /\ phase \in {"load", "run", "aborted"}
  /\ brk \in Nat
  /\ written \subseteq Int
  /\ claimed \subseteq Nat /\ beyond \subseteq claimed

(* Read-after-write memory: a read the mmu admits never returns a byte     *)
(* that nobody wrote since the segment or block holding it was granted     *)
(* (mmu_check_access with the permissions mmu_setperm, mmu_allocate,       *)
(* mmu_write_from and elf_load leave behind).                              *)
ReadsSeeWrites ==
  NeverExtended =>
    \A v \in Base .. End(mmu), n \in 0 .. RamSize :
      ReadOK(mmu, v, n) => Span(v, n) \subseteq written

(* While the program runs, no allocation (stack, argv, brk) lands on an    *)
(* earlier block or on a segment, but for segments that extended the       *)
(* memory (mmu_add_memory leaves the pointer below them): a claimed byte   *)
(* the guest may read stays readable (mmu_allocate resets the permissions  *)
(* of what it hands out).                                                  *)
ClaimedKept ==
  [][phase = "run" =>
       \A i \in (claimed \ beyond) \cap DOMAIN mmu.perm :
         "READ" \in mmu.perm[i] => "READ" \in mmu'.perm[i]]_vars

(* What ClaimedKept needs to be inductive: everything claimed but those    *)
(* segments lies below the allocation pointer.                             *)
ClaimedBelowPointer ==
  \A i \in claimed \ beyond : i < mmu.curr_vaddr - Base

(* Loading a segment leaves the permissions of the segments loaded before  *)
(* it as they are, even when the memory grows (mmu_add_memory: "Extend the *)
(* current memory segment").                                               *)
LoadKeepsEarlierSegments ==
  [][phase = "load" => \A i \in claimed : mmu'.perm[i] = mmu.perm[i]]_vars

(* A page whose last byte was written is marked dirty and stays so, also   *)
(* when the flags move to a longer array (mmu_write_from, mmu_add_memory). *)
(* The other pages of a write are not all marked: the one in which it ends *)
(* is left out.                                                            *)
PageEndsAreDirty ==
  \A i \in written :
    (i + 1) % DirtyPageSize = 0 => mmu.dirty[i \div DirtyPageSize]

(* The break sys_brk reports is memory the guest was given.                *)
BreakIsGranted == brk <= mmu.curr_vaddr
=============================================================================
