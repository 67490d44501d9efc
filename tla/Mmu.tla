-------------------------------- MODULE Mmu --------------------------------
(***************************************************************************)
(* The memory management unit of the emulator (mmu.c, mmu.h): one          *)
(* contiguous block of emulated memory with a permission word per byte, a  *)
(* dirty flag per page and a bump allocator.                               *)
(*                                                                         *)
(* The fields of mmu_t are one record and every function of mmu.c is a     *)
(* pure operator on it, so that callers (elf_load, emulator_run, the bus   *)
(* device of memory.c, sys_brk) compose the calls they make.  The bytes    *)
(* themselves are not kept: no property tells one byte value from another. *)
(*                                                                         *)
(* Permission words are sets of flags.  Addresses and sizes are naturals:  *)
(* the code adds a 32-bit address to a 64-bit size_t, which cannot wrap.   *)
(***************************************************************************)
EXTENDS Integers, FiniteSets

CONSTANTS
  Base,           \* mmu->base (RAM_START in the program)
  RamSize,        \* size given to mmu_init (RAM_SIZE in the program)
  AllocAlign,     \* granularity of mmu_allocate (16 in the program)
  DirtyPageSize,  \* DIRTY_PAGE_SIZE (64 in the program)
  PermBytes       \* sizeof(mperm_t): bytes of one permission word (4)

ASSUME MmuAssumption ==
  /\ Base \in Nat \ {0}
  /\ RamSize \in Nat
  /\ AllocAlign \in Nat \ {0}
  /\ DirtyPageSize \in Nat \ {0}
  /\ PermBytes \in Nat \ {0}

Flags     == {"EXEC", "WRITE", "READ", "RAW"}   \* mperm_t
MmuStates == {"MMU_OK", "READ_PAGE_FAULT", "WRITE_PAGE_FAULT", "ACCESS_DENIED"}

\* Memory that may be read only after it was written.
FreshPerm == {"WRITE", "RAW"}

\* Offsets, in the arrays of the mmu, of the n bytes at address v.
Span(v, n) == (v - Base) .. (v - Base + n - 1)

End(m) == Base + m.size

(* A well-formed mmu_t: one permission word per byte, a dirty flag for     *)
(* every page there was at the start, the allocation pointer in bounds.    *)
MmuOK(m) ==
  /\ m \in [size : Nat, curr_vaddr : Nat,
            perm : [0 .. m.size - 1 -> SUBSET Flags],
            dirty : [DOMAIN m.dirty -> BOOLEAN],
            state : MmuStates]
  /\ RamSize <= m.size
  /\ Base <= m.curr_vaddr /\ m.curr_vaddr <= End(m)
  /\ 0 .. RamSize \div DirtyPageSize \subseteq DOMAIN m.dirty

InRange(m, v, n) == Base <= v /\ v + n <= End(m)

(* p_flags of an ELF segment as permissions (elf_load).                    *)
ElfPerm(f) ==
  {p \in Flags : \/ p = "READ"  /\ "R" \in f
                 \/ p = "WRITE" /\ "W" \in f
                 \/ p = "EXEC"  /\ "X" \in f
                 \/ p = "RAW"   /\ "R" \in f /\ "W" \notin f}

----------------------------------------------------------------------------
(* mmu_setperm.  Its two assertions are InRange: callers abort without it. *)
SetPerm(m, v, n, p) ==
  [m EXCEPT !.perm = [i \in DOMAIN m.perm |->
                        IF i \in Span(v, n) THEN p ELSE m.perm[i]]]

(* mmu_init.  The state field is never assigned: any value is possible.    *)
MmuInit(st) ==
  [size       |-> RamSize,
   curr_vaddr |-> Base,
   perm       |-> [i \in 0 .. RamSize - 1 |-> FreshPerm],
   dirty      |-> [p \in 0 .. RamSize \div DirtyPageSize |-> FALSE],
   state      |-> st]

Extends(m, addr, n) == addr + n > End(m)

AddInsideKeepsPointer(m, addr, n, p) == SetPerm(m, addr, n, p)   \* mutant

(* mmu_add_memory on memory that exists: the allocation pointer is SET to  *)
(* the end of the segment, whatever it was.                                *)
AddInside(m, addr, n, p) ==
  SetPerm([m EXCEPT !.curr_vaddr = addr + n], addr, n, p)

(* The words the permission array has room for: sizeof(mperm_t)*size bytes *)
(* in mmu_init, but size bytes once memory was extended.                   *)
PermRoom(m) == IF m.size = RamSize THEN RamSize ELSE m.size \div PermBytes

(* mmu_add_memory past the end of memory.  realloc is given new_size BYTES *)
(* for the permission words: of those the old array had room for, the      *)
(* first new_size \div PermBytes survive; the others and those of the gap  *)
(* up to addr are whatever the heap holds (junk), and so are the dirty     *)
(* flags of the new pages.  The allocation pointer does not move.          *)
AddBeyond(m, addr, n, p, junk, junkDirty) ==
  LET new_size == addr + n - Base
      kept(i)  == i < PermRoom(m) /\ i < new_size \div PermBytes
      grown    == [m EXCEPT
                    !.size  = new_size,
                    !.perm  = [i \in 0 .. new_size - 1 |->
                                 IF kept(i) THEN m.perm[i] ELSE junk],
                    !.dirty = [q \in 0 .. new_size - 1 |->
                                 IF q \in DOMAIN m.dirty THEN m.dirty[q]
                                 ELSE junkDirty]]
  IN  SetPerm(grown, addr, n, p)

AlignedDown(n) == (n \div AllocAlign) * AllocAlign         \* mutant

(* mmu_allocate.  A block that would end exactly at the end of memory is   *)
(* refused too.  Allocated is the branch that returns the old pointer.     *)
Aligned(n) == ((n + AllocAlign - 1) \div AllocAlign) * AllocAlign

CanAllocateUnaligned(m, n) == m.curr_vaddr + n <= End(m)   \* mutant

CanAllocate(m, n) == m.curr_vaddr + Aligned(n) < End(m)

AllocatedNoBump(m, n, p) ==                                \* mutant
  SetPerm([m EXCEPT !.curr_vaddr = m.curr_vaddr + n - 1], m.curr_vaddr, n, p)

Allocated(m, n, p) ==
  SetPerm([m EXCEPT !.curr_vaddr = m.curr_vaddr + Aligned(n)],
          m.curr_vaddr, n, p)

----------------------------------------------------------------------------
CheckAccessRawReads(m, v, n, flag) ==                      \* mutant
  \A i \in Span(v, n) : flag \in m.perm[i] \/ "RAW" \in m.perm[i]

(* mmu_check_access: one flag is asked for; RAW memory admits writes.      *)
CheckAccess(m, v, n, flag) ==
  \A i \in Span(v, n) :
    \/ flag \in m.perm[i]
    \/ flag = "WRITE" /\ "RAW" \in m.perm[i]

WriteOK(m, v, n) == InRange(m, v, n) /\ CheckAccess(m, v, n, "WRITE")
ReadOK(m, v, n)  == InRange(m, v, n) /\ CheckAccess(m, v, n, "READ")

AfterWrite(p) ==
  IF "RAW" \in p THEN {"READ", "WRITE"} \cup (p \cap {"EXEC"}) ELSE p

MarkedPagesPastFirst(v, n) ==                              \* mutant
  ((v - Base) \div DirtyPageSize + 1) .. ((v - Base + n) \div DirtyPageSize - 1)

(* Pages mmu_write_from marks: the last one only if the write reaches its  *)
(* end.                                                                    *)
MarkedPages(v, n) ==
  ((v - Base) \div DirtyPageSize) .. ((v - Base + n) \div DirtyPageSize - 1)

(* mmu_write_from: a failed write changes nothing but the state.           *)
WriteFrom(m, v, n) ==
  IF ~InRange(m, v, n) THEN [m EXCEPT !.state = "READ_PAGE_FAULT"]
  ELSE IF ~CheckAccess(m, v, n, "WRITE") THEN [m EXCEPT !.state = "ACCESS_DENIED"]
  ELSE [m EXCEPT
         !.state = "MMU_OK",
         !.perm  = [i \in DOMAIN m.perm |->
                      IF i \in Span(v, n) THEN AfterWrite(m.perm[i])
                      ELSE m.perm[i]],
         !.dirty = [q \in DOMAIN m.dirty |->
                      m.dirty[q] \/ q \in MarkedPages(v, n)]]

(* mmu_read_into.                                                          *)
ReadInto(m, v, n) ==
  [m EXCEPT !.state =
     IF ~InRange(m, v, n) THEN "WRITE_PAGE_FAULT"
     ELSE IF CheckAccess(m, v, n, "READ") THEN "MMU_OK"
     ELSE "ACCESS_DENIED"]
=============================================================================
