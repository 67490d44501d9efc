------------------------- MODULE AddressSpaceProofs -------------------------
(***************************************************************************)
(* What holds of the emulated memory for every base, size, page size,      *)
(* allocation unit, image and sequence of allocations and guest accesses.  *)
(*                                                                         *)
(* One invariant, Safe, is proved inductive.  ReadsSeeWrites is about what *)
(* the mmu admits; RawInv says it byte by byte of the permission array,    *)
(* which is the form a step can be checked against.  ClaimedBelowPointer   *)
(* is what makes the action property ClaimedKept true.                     *)
(*                                                                         *)
(* PagesInv, at the end, is about the dirty flags: that there is one for   *)
(* every page of the memory there is, however it grew, has to be kept with *)
(* what they say, for a write to find the flag of the page it ends in.     *)
(***************************************************************************)
EXTENDS AddressSpace, MmuProofs

(* Readable bytes are written bytes (MPERM_RAW in mmu_write_from).         *)
RawInv ==
  NeverExtended =>
    \A i \in 0 .. RamSize - 1 : "READ" \in mmu.perm[i] => i \in written

(* What is inductive about permissions and the allocation pointer.         *)
Safe == TypeOK /\ RawInv /\ ClaimedBelowPointer

(* The permissions the code grants: fresh memory is for writing only.      *)
LEMMA PermFacts ==
  /\ FreshPerm \in SUBSET Flags /\ "READ" \notin FreshPerm /\ "WRITE" \in FreshPerm
  /\ \A f : ElfPerm(f) \in SUBSET Flags
BY DEF FreshPerm, Flags, ElfPerm

(* mmu_init grants no byte to a reader, and nothing is claimed yet.        *)
LEMMA InitSafe == Init => Safe
<1> SUFFICES ASSUME Init PROVE Safe
  OBVIOUS
<1>1. PICK st \in MmuStates : mmu = MmuInit(st)
  BY DEF Init
<1>2. MmuOK(mmu)
  BY <1>1, InitOK
<1>3. TypeOK
  BY <1>2 DEF Init, TypeOK
<1>4. \A i \in 0 .. RamSize - 1 : mmu.perm[i] = FreshPerm
  BY <1>1 DEF MmuInit
<1>5. RawInv
  BY <1>4, PermFacts DEF RawInv
<1>6. ClaimedBelowPointer
  BY DEF Init, ClaimedBelowPointer
<1> QED
  BY <1>3, <1>5, <1>6 DEF Safe

(* An iteration of elf_load, on the memory mmu_add_memory returned: either *)
(* the memory grew, or it is the segment's from its first byte to the      *)
(* pointer.                                                                *)
LEMMA FillSafe ==
  ASSUME Safe, NEW seg \in Segments, NEW m, MmuOK(m), Base <= seg.vaddr,
         Ascending(seg), FillSegment(m, seg),
         \/ /\ mmu.size < m.size
            /\ m.curr_vaddr = mmu.curr_vaddr
            /\ beyond' = beyond \cup Span(seg.vaddr, seg.memsz)
         \/ /\ m.size = mmu.size
            /\ beyond' = beyond
            /\ m.curr_vaddr = seg.vaddr + seg.memsz
            /\ ~Extends(mmu, seg.vaddr, seg.memsz)
            /\ \A i \in 0 .. m.size - 1 :
                 m.perm[i] = IF i \in Span(seg.vaddr, seg.memsz)
                             THEN FreshPerm ELSE mmu.perm[i]
  PROVE  Safe'
<1> DEFINE v == seg.vaddr
           fs == seg.filesz
           ms == seg.memsz
           w == WriteFrom(m, v, fs)
<1>1. v \in Nat /\ fs \in Nat /\ ms \in Nat /\ fs <= ms /\ Base \in Nat /\ RamSize \in Nat
  BY AddressSpaceAssumption, MmuAssumption
<1>2. /\ MmuOK(mmu) /\ mmu.size \in Nat /\ m.size \in Nat /\ RamSize <= mmu.size
      /\ phase \in {"load", "run", "aborted"} /\ brk \in Nat
      /\ written \subseteq Int /\ claimed \subseteq Nat /\ beyond \subseteq claimed
  BY DEF Safe, TypeOK, MmuOK
<1>3. /\ MmuOK(w) /\ w.size = m.size /\ w.curr_vaddr = m.curr_vaddr
      /\ \A i \in 0 .. m.size - 1 : i \notin Span(v, fs) => w.perm[i] = m.perm[i]
  <2> HIDE DEF v, fs
  <2>1. MmuOK(w)
    BY <1>1, WriteFromOK
  <2>2. w.size = m.size
    BY <1>1, WriteFromOK
  <2>3. w.curr_vaddr = m.curr_vaddr
    BY <1>1, WriteFromOK
  <2>4. \A i \in 0 .. m.size - 1 : i \notin Span(v, fs) => w.perm[i] = m.perm[i]
    BY <1>1, WriteFromOK
  <2> QED
    BY <2>1, <2>2, <2>3, <2>4
<1>4. /\ mmu' = SetPerm(w, v, fs, ElfPerm(seg.flags))
      /\ written' = (written \ Span(v, ms))
                    \cup (IF WriteOK(m, v, fs) THEN Span(v, fs) ELSE {})
      /\ claimed' = claimed \cup Span(v, ms)
      /\ phase' = phase /\ brk' = brk
  BY DEF FillSegment
<1> HIDE DEF w
<1>5. /\ MmuOK(mmu)' /\ mmu'.size = m.size /\ mmu'.curr_vaddr = m.curr_vaddr
      /\ \A i \in 0 .. m.size - 1 :
           i \notin Span(v, fs) => mmu'.perm[i] = m.perm[i]
  <2>1. MmuOK(SetPerm(w, v, fs, ElfPerm(seg.flags)))
    BY <1>1, <1>3, SetPermOK, PermFacts
  <2>2. MmuOK(mmu')
    BY <2>1, <1>4
  <2>3. /\ mmu'.size = w.size /\ mmu'.curr_vaddr = w.curr_vaddr
        /\ \A i \in 0 .. w.size - 1 :
             i \notin Span(v, fs) => mmu'.perm[i] = w.perm[i]
    BY <1>1, <1>3, <1>4, SetPermOK, PermFacts
  <2> QED
    BY <2>2, <2>3, <1>3
<1>6. Span(v, fs) \subseteq Span(v, ms) /\ Span(v, ms) \subseteq Nat
  BY <1>1 DEF Span
<1>7. TypeOK'
  <2>1. written' \subseteq Int /\ claimed' \subseteq Nat /\ beyond' \subseteq claimed'
    <3>1. Span(v, fs) \subseteq Int
      BY <1>1 DEF Span
    <3>2. written' \subseteq Int
      BY <3>1, <1>2, <1>4
    <3>3. claimed' \subseteq Nat
      BY <1>2, <1>4, <1>6
    <3>4. beyond' \subseteq claimed'
      BY <1>2, <1>4
    <3> QED
      BY <3>2, <3>3, <3>4
  <2> QED
    BY <2>1, <1>2, <1>4, <1>5 DEF TypeOK
<1>8. CASE /\ mmu.size < m.size
           /\ m.curr_vaddr = mmu.curr_vaddr
           /\ beyond' = beyond \cup Span(v, ms)
  <2>1. ~NeverExtended'
    BY <1>1, <1>2, <1>5, <1>8 DEF NeverExtended
  <2>2. claimed' \ beyond' \subseteq claimed \ beyond
    BY <1>4, <1>8
  <2>3. ClaimedBelowPointer'
    BY <2>2, <1>5, <1>8 DEF Safe, ClaimedBelowPointer
  <2> QED
    BY <2>1, <2>3, <1>7 DEF Safe, RawInv
<1>9. CASE /\ m.size = mmu.size
           /\ beyond' = beyond
           /\ m.curr_vaddr = v + ms
           /\ ~Extends(mmu, v, ms)
           /\ \A i \in 0 .. m.size - 1 :
                m.perm[i] = IF i \in Span(v, ms) THEN FreshPerm ELSE mmu.perm[i]
  <2>1. v + ms <= Base + m.size
    BY <1>1, <1>2, <1>9 DEF Extends, End
  <2>2. Span(v, ms) \subseteq 0 .. m.size - 1
    BY <2>1, <1>1, <1>2 DEF Span
  <2>3. WriteOK(m, v, fs)
    BY <2>1, <2>2, <1>1, <1>2, <1>6, <1>9, PermFacts
       DEF WriteOK, InRange, CheckAccess, End
  <2>4. RawInv'
    <3> SUFFICES ASSUME NeverExtended', NEW i \in 0 .. RamSize - 1,
                        "READ" \in mmu'.perm[i]
                 PROVE  i \in written'
      BY DEF RawInv
    <3>1. NeverExtended /\ i \in 0 .. m.size - 1
      BY <1>5, <1>9 DEF NeverExtended
    <3>2. CASE i \in Span(v, fs)
      BY <3>2, <2>3, <1>4
    <3>3. CASE i \notin Span(v, fs)
      BY <3>1, <3>3, <1>4, <1>5, <1>9, PermFacts DEF Safe, RawInv
    <3> QED
      BY <3>2, <3>3
  <2>5. ClaimedBelowPointer'
    <3> SUFFICES ASSUME NEW i \in claimed' \ beyond'
                 PROVE  i < mmu'.curr_vaddr - Base
      BY DEF ClaimedBelowPointer
    <3>1. CASE i \in Span(v, ms)
      BY <3>1, <1>1, <1>5, <1>9 DEF Span
    <3>2. CASE i \in claimed
      BY <3>2, <1>1, <1>2, <1>5, <1>9 DEF Ascending
    <3> QED
      BY <3>1, <3>2, <1>4
  <2> QED
    BY <2>4, <2>5, <1>7 DEF Safe
<1> QED
  BY <1>8, <1>9

(* mmu_allocate, for the stack, the arguments and sys_brk.                 *)
LEMMA GrabSafe ==
  ASSUME Safe, NEW n \in Nat, Grab(n), phase' = phase, brk' \in Nat
  PROVE  /\ Safe'
         /\ \A i \in (claimed \ beyond) \cap (0 .. mmu.size - 1) :
              mmu'.perm[i] = mmu.perm[i]
<1>1. /\ MmuOK(mmu) /\ mmu.size \in Nat /\ mmu.curr_vaddr \in Nat
      /\ Base \in Nat /\ RamSize \in Nat /\ RamSize <= mmu.size /\ Base <= mmu.curr_vaddr
      /\ phase \in {"load", "run", "aborted"}
      /\ written \subseteq Int /\ claimed \subseteq Nat /\ beyond \subseteq claimed
  BY MmuAssumption DEF Safe, TypeOK, MmuOK
<1>2. CASE CanAllocate(mmu, n)
  <2> DEFINE S == Span(mmu.curr_vaddr, n)
  <2>1. /\ mmu' = Allocated(mmu, n, FreshPerm)
        /\ written' = written \ S
        /\ claimed' = claimed \cup S
        /\ beyond' = beyond \ S
    BY <1>2 DEF Grab
  <2>2. MmuOK(Allocated(mmu, n, FreshPerm))
    BY <1>1, <1>2, AllocatedOK, PermFacts
  <2>3. MmuOK(mmu)'
    BY <2>1, <2>2
  <2>4. /\ mmu'.size = mmu.size /\ mmu.curr_vaddr + n <= mmu'.curr_vaddr
        /\ mmu'.curr_vaddr \in Nat
        /\ \A i \in 0 .. mmu.size - 1 :
             mmu'.perm[i] = IF i \in S THEN FreshPerm ELSE mmu.perm[i]
    <3> DEFINE a == Allocated(mmu, n, FreshPerm)
    <3>1. /\ a.size = mmu.size /\ mmu.curr_vaddr + n <= a.curr_vaddr
          /\ \A i \in 0 .. mmu.size - 1 :
               a.perm[i] = IF i \in S THEN FreshPerm ELSE mmu.perm[i]
      BY <1>1, <1>2, AllocatedOK, PermFacts
    <3>2. a.curr_vaddr \in Nat
      BY <2>2 DEF MmuOK
    <3> HIDE DEF a
    <3> QED
      BY <3>1, <3>2, <2>1 DEF a
  <2>5. S \subseteq Nat /\ \A i \in S : i >= mmu.curr_vaddr - Base
                                       /\ i < mmu.curr_vaddr + n - Base
    BY <1>1 DEF Span
  <2> HIDE DEF S
  <2>6. TypeOK'
    BY <1>1, <2>1, <2>3, <2>5 DEF TypeOK
  <2>7. RawInv'
    BY <1>1, <2>1, <2>4, PermFacts DEF Safe, RawInv, NeverExtended
  <2>8. ClaimedBelowPointer'
    <3> SUFFICES ASSUME NEW i \in claimed' \ beyond'
                 PROVE  i < mmu'.curr_vaddr - Base
      BY DEF ClaimedBelowPointer
    <3>1. CASE i \in S
      BY <3>1, <1>1, <2>4, <2>5
    <3>2. CASE i \in claimed \ beyond
      <4>1. i \in Nat /\ i < mmu.curr_vaddr - Base
        BY <3>2, <1>1 DEF Safe, ClaimedBelowPointer
      <4> QED
        BY <4>1, <1>1, <2>4
    <3> QED
      BY <3>1, <3>2, <2>1
  <2>9. ASSUME NEW i \in (claimed \ beyond) \cap (0 .. mmu.size - 1)
        PROVE  mmu'.perm[i] = mmu.perm[i]
    <3>1. i < mmu.curr_vaddr - Base
      BY <2>9 DEF Safe, ClaimedBelowPointer
    <3>2. i \notin S
      BY <3>1, <1>1, <2>5
    <3> QED
      BY <3>2, <2>4, <2>9
  <2> QED
    BY <2>6, <2>7, <2>8, <2>9 DEF Safe
<1>3. CASE ~CanAllocate(mmu, n)
  BY <1>1, <1>3 DEF Grab, Safe, TypeOK, RawInv, ClaimedBelowPointer, NeverExtended, MmuOK, End
<1> QED
  BY <1>2, <1>3

(* A transfer through the RAM device: memory becomes readable only by      *)
(* being written.                                                          *)
LEMMA AccessSafe ==
  ASSUME Safe, NEW v \in BusAddresses, NEW n \in AccessSizes,
         Write(v, n) \/ Read(v, n)
  PROVE  /\ Safe'
         /\ \A i \in 0 .. mmu.size - 1 :
              "READ" \in mmu.perm[i] => "READ" \in mmu'.perm[i]
<1>1. /\ MmuOK(mmu) /\ mmu.size \in Nat /\ RamSize <= mmu.size /\ RamSize \in Nat
      /\ written \subseteq Int
  BY MmuAssumption DEF Safe, TypeOK, MmuOK
<1>2. v \in Nat /\ n \in Nat /\ Span(v, n) \subseteq Int
  BY AddressSpaceAssumption, MmuAssumption DEF BusAddresses, Span
<1>3. CASE Write(v, n)
  <2> DEFINE w == WriteFrom(mmu, v, n)
  <2>1. MmuOK(w) /\ w.size = mmu.size /\ w.curr_vaddr = mmu.curr_vaddr
    BY <1>1, <1>2, WriteFromOK
  <2>2. ~WriteOK(mmu, v, n) => w.perm = mmu.perm
    BY <1>1, <1>2, WriteFromOK
  <2>3. \A i \in 0 .. mmu.size - 1 : i \notin Span(v, n) => w.perm[i] = mmu.perm[i]
    BY <1>1, <1>2, WriteFromOK
  <2>4. \A i \in 0 .. mmu.size - 1 : "READ" \in mmu.perm[i] => "READ" \in w.perm[i]
    BY <1>1, <1>2, WriteFromOK
  <2>5. /\ mmu' = w
        /\ WriteOK(mmu, v, n) => written' = written \cup Span(v, n)
        /\ ~WriteOK(mmu, v, n) => written' = written
        /\ UNCHANGED <<phase, brk, claimed, beyond>>
    BY <1>3 DEF Write
  <2> HIDE DEF w
  <2>6. TypeOK'
    <3>1. written' \subseteq Int
      BY <1>1, <1>2, <2>5
    <3> QED
      BY <3>1, <2>1, <2>5 DEF Safe, TypeOK
  <2>7. RawInv'
    <3> SUFFICES ASSUME NeverExtended', NEW i \in 0 .. RamSize - 1,
                        "READ" \in mmu'.perm[i]
                 PROVE  i \in written'
      BY DEF RawInv
    <3>1. NeverExtended /\ i \in 0 .. mmu.size - 1
      BY <2>1, <2>5 DEF NeverExtended
    <3>2. CASE WriteOK(mmu, v, n) /\ i \in Span(v, n)
      BY <3>2, <2>5
    <3>3. CASE ~(WriteOK(mmu, v, n) /\ i \in Span(v, n))
      <4>1. mmu'.perm[i] = mmu.perm[i]
        BY <3>1, <3>3, <2>2, <2>3, <2>5
      <4>2. i \in written
        BY <4>1, <3>1 DEF Safe, RawInv
      <4> QED
        BY <4>2, <2>5
    <3> QED
      BY <3>2, <3>3
  <2>8. ClaimedBelowPointer'
    BY <2>1, <2>5 DEF Safe, ClaimedBelowPointer
  <2> QED
    BY <2>4, <2>5, <2>6, <2>7, <2>8 DEF Safe
<1>4. CASE Read(v, n)
  <2> DEFINE r == ReadInto(mmu, v, n)
  <2>1. /\ MmuOK(r) /\ r.size = mmu.size /\ r.curr_vaddr = mmu.curr_vaddr
        /\ r.perm = mmu.perm
    BY <1>1, <1>2, ReadIntoOK
  <2>2. mmu' = r /\ UNCHANGED <<phase, brk, written, claimed, beyond>>
    BY <1>4 DEF Read
  <2> HIDE DEF r
  <2>3. TypeOK'
    BY <2>1, <2>2 DEF Safe, TypeOK
  <2>4. RawInv' /\ ClaimedBelowPointer'
    BY <2>1, <2>2 DEF Safe, RawInv, ClaimedBelowPointer, NeverExtended
  <2> QED
    BY <2>1, <2>2, <2>3, <2>4 DEF Safe
<1> QED
  BY <1>3, <1>4

(* Every step keeps the invariant.                                         *)
LEMMA NextSafe == Safe /\ [Next]_vars => Safe'
<1> SUFFICES ASSUME Safe, [Next]_vars PROVE Safe'
  OBVIOUS
<1> USE DEF Safe
<1>0. /\ MmuOK(mmu) /\ mmu.size \in Nat /\ mmu.curr_vaddr \in Nat
      /\ phase \in {"load", "run", "aborted"} /\ brk \in Nat
      /\ FreshPerm \in SUBSET Flags
  BY PermFacts DEF TypeOK, MmuOK
<1>1. ASSUME NEW seg \in Segments, LoadInside(seg) PROVE Safe'
  <2> DEFINE m == AddInside(mmu, seg.vaddr, seg.memsz, FreshPerm)
  <2>1. /\ seg.vaddr \in Nat /\ seg.memsz \in Nat /\ Base <= seg.vaddr
        /\ ~Extends(mmu, seg.vaddr, seg.memsz) /\ Ascending(seg)
    BY <1>1, AddressSpaceAssumption, MmuAssumption DEF LoadInside
  <2>2. MmuOK(m)
    BY <1>0, <2>1, AddInsideOK
  <2>3. /\ m.size = mmu.size /\ m.curr_vaddr = seg.vaddr + seg.memsz
        /\ \A i \in 0 .. mmu.size - 1 :
             m.perm[i] = IF i \in Span(seg.vaddr, seg.memsz)
                         THEN FreshPerm ELSE mmu.perm[i]
    BY <1>0, <2>1, AddInsideOK
  <2>4. FillSegment(m, seg) /\ beyond' = beyond
    BY <1>1 DEF LoadInside
  <2> HIDE DEF m
  <2> QED
    BY <2>1, <2>2, <2>3, <2>4, FillSafe
<1>2. ASSUME NEW seg \in Segments, LoadBeyond(seg) PROVE Safe'
  <2>1. /\ seg.vaddr \in Nat /\ seg.memsz \in Nat /\ Base <= seg.vaddr
        /\ Extends(mmu, seg.vaddr, seg.memsz) /\ Ascending(seg)
    BY <1>2, AddressSpaceAssumption, MmuAssumption DEF LoadBeyond
  <2>2. PICK junk \in Junk, jd \in BOOLEAN :
          FillSegment(AddBeyond(mmu, seg.vaddr, seg.memsz, FreshPerm, junk, jd), seg)
    BY <1>2 DEF LoadBeyond
  <2> DEFINE m == AddBeyond(mmu, seg.vaddr, seg.memsz, FreshPerm, junk, jd)
  <2>3. junk \in SUBSET Flags
    BY AddressSpaceAssumption
  <2>4. MmuOK(m)
    BY <1>0, <2>1, <2>3, AddBeyondOK
  <2>5. mmu.size < m.size /\ m.curr_vaddr = mmu.curr_vaddr
    BY <1>0, <2>1, <2>3, AddBeyondOK
  <2>6. FillSegment(m, seg) /\ beyond' = beyond \cup Span(seg.vaddr, seg.memsz)
    BY <1>2, <2>2 DEF LoadBeyond
  <2> HIDE DEF m
  <2> QED
    BY <2>1, <2>4, <2>5, <2>6, FillSafe
<1>3. ASSUME NEW seg \in Segments, LoadFails(seg) PROVE Safe'
  BY <1>3 DEF LoadFails, TypeOK, RawInv, ClaimedBelowPointer, NeverExtended
<1>4. CASE Run
  BY <1>4 DEF Run, TypeOK, RawInv, ClaimedBelowPointer, NeverExtended
<1>5. ASSUME NEW n \in AllocSizes, Allocate(n) PROVE Safe'
  <2>1. n \in Nat /\ Grab(n) /\ phase' = phase /\ brk' \in Nat
    BY <1>0, <1>5, AddressSpaceAssumption DEF Allocate
  <2> QED
    BY <2>1, GrabSafe
<1>6. CASE BrkQuery
  <2>1. UNCHANGED <<mmu, phase, written, claimed, beyond>> /\ brk' \in Nat
    BY <1>0, <1>6 DEF BrkQuery
  <2> QED
    BY <2>1 DEF TypeOK, RawInv, ClaimedBelowPointer, NeverExtended
<1>7. ASSUME NEW a \in BrkRequests, BrkRequest(a) PROVE Safe'
  <2>1. BrkStep \in Nat /\ Grab(BrkStep) /\ phase' = phase
        /\ brk' \in Nat
    BY <1>7, AddressSpaceAssumption DEF BrkRequest
  <2> QED
    BY <2>1, GrabSafe
<1>8. ASSUME NEW v \in BusAddresses, NEW n \in AccessSizes,
             Write(v, n) \/ Read(v, n)
      PROVE  Safe'
  BY <1>8, AccessSafe
<1>9. CASE UNCHANGED vars
  BY <1>9 DEF vars, TypeOK, RawInv, ClaimedBelowPointer, NeverExtended
<1> QED
  BY <1>1, <1>2, <1>3, <1>4, <1>5, <1>6, <1>7, <1>8, <1>9 DEF Next

(* The invariant holds in every reachable state.                           *)
THEOREM SafetyInvariant == Spec => []Safe
BY InitSafe, NextSafe, PTL DEF Spec

(* The mmu is well formed for ever (mmu.c: the arrays indexed by           *)
(* mmu_setperm, mmu_check_access and mmu_write_from cover what they index).*)
THEOREM TypeCorrect == Spec => []TypeOK
<1>1. Safe => TypeOK
  BY DEF Safe
<1> QED
  BY <1>1, SafetyInvariant, PTL

(* Nothing claimed lies above the allocation pointer (mmu_add_memory and   *)
(* mmu_allocate), but for the segments that extended the memory.           *)
THEOREM PointerAboveClaims == Spec => []ClaimedBelowPointer
<1>1. Safe => ClaimedBelowPointer
  BY DEF Safe
<1> QED
  BY <1>1, SafetyInvariant, PTL

(* A read that mmu_check_access admits returns written bytes only.         *)
THEOREM ReadAfterWrite == Spec => []ReadsSeeWrites
<1>1. Safe => ReadsSeeWrites
  <2> SUFFICES ASSUME Safe, NeverExtended, NEW v \in Base .. End(mmu),
                      NEW n \in 0 .. RamSize, ReadOK(mmu, v, n),
                      NEW i \in Span(v, n)
               PROVE  i \in written
    BY DEF ReadsSeeWrites
  <2>1. mmu.size \in Nat /\ mmu.size = RamSize /\ Base \in Nat
    BY MmuAssumption DEF Safe, TypeOK, MmuOK, NeverExtended
  <2>2. i \in 0 .. RamSize - 1
    BY <2>1 DEF ReadOK, InRange, Span, End
  <2>3. "READ" \in mmu.perm[i]
    BY DEF ReadOK, CheckAccess
  <2> QED
    BY <2>2, <2>3 DEF Safe, RawInv
<1> QED
  BY <1>1, SafetyInvariant, PTL

(* No allocation takes a readable byte of a segment or of an earlier block *)
(* from the guest (mmu_allocate: mmu_setperm on the block it returns).     *)
THEOREM ClaimsAreKept == Spec => ClaimedKept
<1> DEFINE Kept == phase = "run" =>
                     \A i \in (claimed \ beyond) \cap DOMAIN mmu.perm :
                       "READ" \in mmu.perm[i] => "READ" \in mmu'.perm[i]
<1>1. Safe /\ [Next]_vars => [Kept]_vars
  <2> SUFFICES ASSUME Safe, Next, phase = "run",
                      NEW i \in (claimed \ beyond) \cap DOMAIN mmu.perm,
                      "READ" \in mmu.perm[i]
               PROVE  "READ" \in mmu'.perm[i]
    BY DEF vars
  <2>0. i \in (claimed \ beyond) \cap (0 .. mmu.size - 1)
        /\ brk \in Nat /\ mmu.curr_vaddr \in Nat
    BY DEF Safe, TypeOK, MmuOK
  <2>1. ASSUME NEW n \in AllocSizes, Allocate(n) PROVE "READ" \in mmu'.perm[i]
    <3>1. n \in Nat /\ Grab(n) /\ phase' = phase /\ brk' \in Nat
      BY <2>0, <2>1, AddressSpaceAssumption DEF Allocate
    <3> QED
      BY <2>0, <3>1, GrabSafe
  <2>2. CASE BrkQuery
    BY <2>2 DEF BrkQuery
  <2>3. ASSUME NEW a \in BrkRequests, BrkRequest(a) PROVE "READ" \in mmu'.perm[i]
    <3>1. BrkStep \in Nat /\ Grab(BrkStep) /\ phase' = phase
          /\ brk' \in Nat
      BY <2>3, AddressSpaceAssumption DEF BrkRequest
    <3> QED
      BY <2>0, <3>1, GrabSafe
  <2>4. ASSUME NEW v \in BusAddresses, NEW n \in AccessSizes,
               Write(v, n) \/ Read(v, n)
        PROVE  "READ" \in mmu'.perm[i]
    BY <2>0, <2>4, AccessSafe
  <2>5. \A seg \in Segments : ~LoadInside(seg) /\ ~LoadBeyond(seg) /\ ~LoadFails(seg)
    BY DEF LoadInside, LoadBeyond, LoadFails
  <2>6. ~Run
    BY DEF Run
  <2> QED
    BY <2>1, <2>2, <2>3, <2>4, <2>5, <2>6 DEF Next
<1> QED
  BY <1>1, SafetyInvariant, PTL DEF Spec, ClaimedKept

----------------------------------------------------------------------------
(* Dirty pages.  PageEndsAreDirty is inductive once it is known that what  *)
(* was written lies in the memory and that every byte has a flag.          *)
PagesOK(m, w) ==
  /\ \A i \in 0 .. m.size - 1 : i \div DirtyPageSize \in DOMAIN m.dirty
  /\ w \subseteq 0 .. m.size - 1
  /\ \A i \in w : (i + 1) % DirtyPageSize = 0 => m.dirty[i \div DirtyPageSize]

(* A page index, and where its page lies.                                  *)
LEMMA PageBounds ==
  ASSUME NEW a \in Nat
  PROVE  /\ a \div DirtyPageSize \in 0 .. a
         /\ DirtyPageSize * (a \div DirtyPageSize) <= a
         /\ a < DirtyPageSize * (a \div DirtyPageSize) + DirtyPageSize
<1> DEFINE q == a \div DirtyPageSize
           r == a % DirtyPageSize
<1>1. /\ DirtyPageSize \in Nat /\ DirtyPageSize >= 1
      /\ q \in Int /\ r \in 0 .. DirtyPageSize - 1 /\ a = DirtyPageSize * q + r
  BY MmuAssumption
<1>2. q >= 0
  BY MmuAssumption
<1> HIDE DEF q, r
<1>3. q <= DirtyPageSize * q
  BY <1>1, <1>2
<1>4. q \in 0 .. a
  BY <1>1, <1>2, <1>3
<1>5. DirtyPageSize * q <= a /\ a < DirtyPageSize * q + DirtyPageSize
  BY <1>1
<1> QED
  BY <1>4, <1>5 DEF q

(* Multiples of the page size are in the order of their factors.           *)
LEMMA FactorOrder ==
  ASSUME NEW x \in Int, NEW y \in Int, DirtyPageSize * x < DirtyPageSize * y
  PROVE  x < y
<1>1. DirtyPageSize \in Nat /\ DirtyPageSize >= 1
  BY MmuAssumption
<1>2. ASSUME NEW d \in Nat, x = y + d
      PROVE  FALSE
  <2>1. DirtyPageSize * d \in Nat
    BY <1>1
  <2>2. DirtyPageSize * x = DirtyPageSize * y + DirtyPageSize * d
    BY <1>1, <1>2
  <2> QED
    BY <1>1, <2>1, <2>2
<1>3. CASE x >= y
  <2>1. x - y \in Nat /\ x = y + (x - y)
    BY <1>3
  <2> QED
    BY <1>2, <2>1
<1> QED
  BY <1>3

(* mmu_write_from marks the page of every page end it writes.              *)
LEMMA PageEndMarked ==
  ASSUME NEW v \in Nat, NEW n \in Nat, Base <= v, NEW i \in Span(v, n),
         (i + 1) % DirtyPageSize = 0
  PROVE  i \in Nat /\ i \div DirtyPageSize \in MarkedPages(v, n)
<1> DEFINE P  == DirtyPageSize
           a  == v - Base
           q  == i \div P
           q1 == a \div P
           q2 == (a + n) \div P
           w  == (i + 1) \div P
<1>1. a \in Nat /\ i \in Nat /\ a <= i /\ i + 1 <= a + n /\ P \in Nat /\ P >= 1
  BY MmuAssumption DEF Span
<1>2. q \in 0 .. i /\ P * q <= i /\ i < P * q + P
  BY <1>1, PageBounds
<1>3. q1 \in 0 .. a /\ P * q1 <= a
  BY <1>1, PageBounds
<1>4. q2 \in 0 .. a + n /\ a + n < P * q2 + P
  BY <1>1, PageBounds
<1>5. w \in Int /\ i + 1 = P * w
  BY <1>1, MmuAssumption
<1> HIDE DEF q, q1, q2, w, a
<1>6. P * (q + 1) = P * q + P /\ P * (q2 + 1) = P * q2 + P
  BY <1>1, <1>2, <1>4
<1>7. /\ q \in Int /\ q1 \in Int /\ q2 \in Int /\ q + 1 \in Int /\ q2 + 1 \in Int
      /\ P * q \in Int /\ P * q1 \in Int /\ P * q2 \in Int /\ P * w \in Int
  BY <1>1, <1>2, <1>3, <1>4, <1>5
<1>8. q1 < q + 1
  <2>1. P * q1 < P * (q + 1)
    BY <1>1, <1>2, <1>3, <1>6, <1>7
  <2> QED
    BY <1>7, <2>1, FactorOrder
<1>9. q < w
  <2>1. P * q < P * w
    BY <1>1, <1>2, <1>5, <1>7
  <2> QED
    BY <1>5, <1>7, <2>1, FactorOrder
<1>10. w < q2 + 1
  <2>1. P * w < P * (q2 + 1)
    BY <1>1, <1>4, <1>5, <1>6, <1>7
  <2> QED
    BY <1>5, <1>7, <2>1, FactorOrder
<1>11. q \in q1 .. q2 - 1
  BY <1>5, <1>7, <1>8, <1>9, <1>10
<1> QED
  BY <1>1, <1>11 DEF MarkedPages, q, q1, q2, a

(* Calls that leave the flags and the size alone.                          *)
LEMMA PagesSame ==
  ASSUME NEW m, NEW s, NEW w, NEW x, PagesOK(m, w), s.dirty = m.dirty,
         s.size = m.size, x \subseteq w
  PROVE  PagesOK(s, x)
BY DEF PagesOK

(* mmu_setperm, mmu_add_memory inside the memory, mmu_allocate and         *)
(* mmu_read_into do.                                                       *)
LEMMA FlagsKept ==
  ASSUME NEW m, MmuOK(m), NEW v \in Nat, NEW n \in Nat, NEW p
  PROVE  /\ SetPerm(m, v, n, p).dirty = m.dirty /\ SetPerm(m, v, n, p).size = m.size
         /\ AddInside(m, v, n, p).dirty = m.dirty /\ AddInside(m, v, n, p).size = m.size
         /\ Allocated(m, n, p).dirty = m.dirty /\ Allocated(m, n, p).size = m.size
         /\ ReadInto(m, v, n).dirty = m.dirty /\ ReadInto(m, v, n).size = m.size
BY DEF MmuOK, SetPerm, AddInside, Allocated, ReadInto

(* mmu_write_from.                                                         *)
LEMMA PagesWritten ==
  ASSUME NEW m, MmuOK(m), NEW w, PagesOK(m, w), NEW v \in Nat, NEW n \in Nat, Base <= v
  PROVE  PagesOK(WriteFrom(m, v, n), w \cup (IF WriteOK(m, v, n) THEN Span(v, n) ELSE {}))
<1> DEFINE s == WriteFrom(m, v, n)
           np == [i \in DOMAIN m.perm |-> IF i \in Span(v, n)
                                          THEN AfterWrite(m.perm[i]) ELSE m.perm[i]]
           nd == [q \in DOMAIN m.dirty |-> m.dirty[q] \/ q \in MarkedPages(v, n)]
<1>1. CASE WriteOK(m, v, n)
  <2>1. s = [m EXCEPT !.state = "MMU_OK", !.perm = np, !.dirty = nd]
    BY <1>1 DEF WriteFrom, WriteOK
  <2>2. /\ DOMAIN nd = DOMAIN m.dirty
        /\ \A q \in DOMAIN m.dirty : m.dirty[q] \/ q \in MarkedPages(v, n) => nd[q]
    OBVIOUS
  <2> HIDE DEF np, nd, s
  <2>3. s.dirty = nd /\ s.size = m.size
    BY <2>1 DEF MmuOK
  <2>4. \A i \in Span(v, n) : i \in 0 .. m.size - 1
    BY <1>1, MmuAssumption DEF MmuOK, WriteOK, InRange, End, Span
  <2>5. ASSUME NEW i \in w \cup Span(v, n), (i + 1) % DirtyPageSize = 0
        PROVE  nd[i \div DirtyPageSize]
    <3> DEFINE q == i \div DirtyPageSize
    <3>1. q \in DOMAIN m.dirty
      BY <2>4 DEF PagesOK
    <3>2. m.dirty[q] \/ q \in MarkedPages(v, n)
      <4>1. CASE i \in w
        BY <2>5, <4>1 DEF PagesOK
      <4>2. CASE i \in Span(v, n)
        BY <2>5, <4>2, PageEndMarked
      <4> QED
        BY <4>1, <4>2
    <3> HIDE DEF q
    <3>3. nd[q]
      BY <2>2, <3>1, <3>2
    <3> QED
      BY <3>3 DEF q
  <2>6. PagesOK(s, w \cup Span(v, n))
    BY <2>2, <2>3, <2>4, <2>5 DEF PagesOK
  <2> QED
    BY <1>1, <2>6 DEF s
<1>2. CASE ~WriteOK(m, v, n)
  <2> DEFINE f == IF ~InRange(m, v, n) THEN "READ_PAGE_FAULT" ELSE "ACCESS_DENIED"
  <2>1. s = [m EXCEPT !.state = f]
    BY <1>2 DEF WriteFrom, WriteOK
  <2> HIDE DEF s, f
  <2>2. s.dirty = m.dirty /\ s.size = m.size
    BY <2>1 DEF MmuOK
  <2>3. PagesOK(s, w)
    BY <2>2, PagesSame
  <2>4. w \cup {} = w
    OBVIOUS
  <2> QED
    BY <1>2, <2>3, <2>4 DEF s
<1> QED
  BY <1>1, <1>2

(* mmu_add_memory past the end: the flags move to an array with one flag   *)
(* per byte.                                                               *)
LEMMA PagesExtended ==
  ASSUME NEW m, MmuOK(m), NEW w, PagesOK(m, w), NEW v \in Nat, NEW n \in Nat,
         NEW p, NEW junk, NEW jd \in BOOLEAN, Base <= v, Extends(m, v, n)
  PROVE  PagesOK(AddBeyond(m, v, n, p, junk, jd), w)
<1> DEFINE ns == v + n - Base
           kept(i) == i < PermRoom(m) /\ i < ns \div PermBytes
           np == [i \in 0 .. ns - 1 |-> IF kept(i) THEN m.perm[i] ELSE junk]
           nd == [q \in 0 .. ns - 1 |-> IF q \in DOMAIN m.dirty THEN m.dirty[q]
                                        ELSE jd]
           g == [m EXCEPT !.size = ns, !.perm = np, !.dirty = nd]
           s == AddBeyond(m, v, n, p, junk, jd)
<1>1. m.size \in Nat /\ ns \in Nat /\ m.size < ns
  BY MmuAssumption DEF MmuOK, Extends, End
<1>2. /\ DOMAIN nd = 0 .. ns - 1
      /\ \A q \in 0 .. ns - 1 : q \in DOMAIN m.dirty => nd[q] = m.dirty[q]
  OBVIOUS
<1>3. s = SetPerm(g, v, n, p)
  BY DEF AddBeyond
<1> HIDE DEF ns, np, nd, s
<1>4. g.size = ns /\ g.dirty = nd
  BY DEF MmuOK
<1>5. s.size = ns /\ s.dirty = nd
  <2>1. SetPerm(g, v, n, p).size = g.size /\ SetPerm(g, v, n, p).dirty = g.dirty
    BY DEF SetPerm, MmuOK
  <2> QED
    BY <1>3, <1>4, <2>1
<1>6. \A i \in 0 .. ns - 1 : i \div DirtyPageSize \in 0 .. ns - 1
  <2> SUFFICES ASSUME NEW i \in 0 .. ns - 1
               PROVE  i \div DirtyPageSize \in 0 .. ns - 1
    OBVIOUS
  <2> DEFINE q == i \div DirtyPageSize
  <2>1. i \in Nat
    BY <1>1
  <2>2. q \in 0 .. i
    BY <2>1, PageBounds
  <2> HIDE DEF q
  <2>3. q \in 0 .. ns - 1
    BY <1>1, <2>2
  <2> QED
    BY <2>3 DEF q
<1>7. w \subseteq 0 .. ns - 1
  BY <1>1 DEF PagesOK
<1>8. ASSUME NEW i \in w, (i + 1) % DirtyPageSize = 0
      PROVE  nd[i \div DirtyPageSize]
  <2> DEFINE q == i \div DirtyPageSize
  <2>1. q \in DOMAIN m.dirty /\ m.dirty[q]
    BY <1>8 DEF PagesOK
  <2>2. q \in 0 .. ns - 1
    BY <1>6, <1>7
  <2> HIDE DEF q
  <2>3. nd[q]
    BY <1>2, <2>1, <2>2
  <2> QED
    BY <2>3 DEF q
<1>9. PagesOK(s, w)
  BY <1>2, <1>5, <1>6, <1>7, <1>8 DEF PagesOK
<1> QED
  BY <1>9 DEF s

(* The flags cover the memory there is, and the pages of written bytes.    *)
PagesInv == PagesOK(mmu, written)

(* mmu_init makes one flag more than there are whole pages.                *)
LEMMA InitPages == Init => PagesInv
<1> SUFFICES ASSUME Init PROVE PagesInv
  OBVIOUS
<1>1. PICK st \in MmuStates : mmu = MmuInit(st)
  BY DEF Init
<1>2. mmu.size = RamSize /\ DOMAIN mmu.dirty = 0 .. RamSize \div DirtyPageSize
  BY <1>1 DEF MmuInit
<1>3. ASSUME NEW i \in 0 .. RamSize - 1
      PROVE  i \div DirtyPageSize \in 0 .. RamSize \div DirtyPageSize
  <2> DEFINE q == i \div DirtyPageSize
             d == RamSize \div DirtyPageSize
  <2>1. /\ RamSize \in Nat /\ i \in Nat /\ i < RamSize
        /\ DirtyPageSize \in Nat /\ DirtyPageSize >= 1
    BY MmuAssumption
  <2>2. q \in 0 .. i /\ DirtyPageSize * q <= i
    BY <2>1, PageBounds
  <2>3. d \in 0 .. RamSize /\ RamSize < DirtyPageSize * d + DirtyPageSize
    BY <2>1, PageBounds
  <2> HIDE DEF q, d
  <2>4. q \in Int /\ d + 1 \in Int /\ DirtyPageSize * (d + 1) = DirtyPageSize * d + DirtyPageSize
        /\ DirtyPageSize * q \in Int /\ DirtyPageSize * d \in Int
    BY <2>1, <2>2, <2>3
  <2>5. DirtyPageSize * q < DirtyPageSize * (d + 1)
    BY <2>1, <2>2, <2>3, <2>4
  <2>6. q < d + 1
    BY <2>4, <2>5, FactorOrder
  <2>7. q \in 0 .. d
    BY <2>2, <2>3, <2>6
  <2> QED
    BY <2>7 DEF q, d
<1>4. written = {}
  BY DEF Init
<1> QED
  BY <1>2, <1>3, <1>4 DEF PagesInv, PagesOK

(* An iteration of elf_load on the memory mmu_add_memory returned.         *)
LEMMA FillPages ==
  ASSUME NEW seg \in Segments, NEW m, MmuOK(m), PagesOK(m, written),
         Base <= seg.vaddr, FillSegment(m, seg)
  PROVE  PagesInv'
<1> DEFINE v == seg.vaddr
           fs == seg.filesz
           s == WriteFrom(m, v, fs)
           p == ElfPerm(seg.flags)
           w == written \ Span(v, seg.memsz)
           x == w \cup (IF WriteOK(m, v, fs) THEN Span(v, fs) ELSE {})
<1>1. v \in Nat /\ fs \in Nat
  BY AddressSpaceAssumption
<1>2. mmu' = SetPerm(s, v, fs, p) /\ written' = x
  BY DEF FillSegment
<1>3. Base <= v
  OBVIOUS
<1> HIDE DEF v, fs, p
<1>4. PagesOK(m, w)
  BY DEF PagesOK
<1> HIDE DEF w
<1>5. MmuOK(s) /\ PagesOK(s, x)
  BY <1>1, <1>3, <1>4, WriteFromOK, PagesWritten
<1> HIDE DEF s, x
<1>6. SetPerm(s, v, fs, p).dirty = s.dirty /\ SetPerm(s, v, fs, p).size = s.size
  <2>1. MmuOK(s)
    BY <1>5
  <2> HIDE DEF p
  <2> QED
    BY <2>1 DEF SetPerm, MmuOK
<1>7. mmu'.dirty = s.dirty /\ mmu'.size = s.size /\ x \subseteq x
  BY <1>2, <1>6
<1>8. PagesOK(mmu', x)
  BY <1>5, <1>7, PagesSame
<1> QED
  BY <1>2, <1>8 DEF PagesInv

(* Every step keeps the flags of page ends.                                *)
LEMMA NextPages == Safe /\ PagesInv /\ [Next]_vars => PagesInv'
<1> SUFFICES ASSUME Safe, PagesInv, [Next]_vars PROVE PagesInv'
  OBVIOUS
<1>0. MmuOK(mmu) /\ PagesOK(mmu, written) /\ FreshPerm \in SUBSET Flags
  BY PermFacts DEF Safe, TypeOK, PagesInv
<1>1. ASSUME NEW seg \in Segments, LoadInside(seg) PROVE PagesInv'
  <2> DEFINE v == seg.vaddr   n == seg.memsz   p == FreshPerm
             m == AddInside(mmu, v, n, p)
  <2>1. v \in Nat /\ n \in Nat /\ Base <= v /\ ~Extends(mmu, v, n) /\ p \in SUBSET Flags
    BY <1>0, <1>1, AddressSpaceAssumption, MmuAssumption DEF LoadInside
  <2>2. FillSegment(m, seg)
    BY <1>1 DEF LoadInside
  <2>3. Base <= seg.vaddr
    BY <2>1
  <2> HIDE DEF v, n, p
  <2>4. MmuOK(m) /\ m.dirty = mmu.dirty /\ m.size = mmu.size /\ written \subseteq written
    BY <1>0, <2>1, AddInsideOK, FlagsKept
  <2> HIDE DEF m
  <2>5. PagesOK(m, written)
    BY <1>0, <2>4, PagesSame
  <2> QED
    BY <2>2, <2>3, <2>4, <2>5, FillPages
<1>2. ASSUME NEW seg \in Segments, LoadBeyond(seg) PROVE PagesInv'
  <2>1. PICK junk \in Junk, jd \in BOOLEAN :
          FillSegment(AddBeyond(mmu, seg.vaddr, seg.memsz, FreshPerm, junk, jd), seg)
    BY <1>2 DEF LoadBeyond
  <2> DEFINE v == seg.vaddr   n == seg.memsz   p == FreshPerm
             m == AddBeyond(mmu, v, n, p, junk, jd)
  <2>2. /\ v \in Nat /\ n \in Nat /\ Base <= v /\ Extends(mmu, v, n)
        /\ p \in SUBSET Flags /\ junk \in SUBSET Flags
    BY <1>0, <1>2, AddressSpaceAssumption, MmuAssumption DEF LoadBeyond
  <2>3. FillSegment(m, seg) /\ Base <= seg.vaddr
    BY <2>1, <2>2
  <2> HIDE DEF v, n, p
  <2>4. MmuOK(m)
    BY <1>0, <2>2, AddBeyondOK
  <2>5. PagesOK(m, written)
    BY <1>0, <2>2, PagesExtended
  <2> HIDE DEF m
  <2> QED
    BY <2>3, <2>4, <2>5, FillPages
<1>3. ASSUME NEW n \in Nat, Grab(n) PROVE PagesInv'
  <2> DEFINE p == FreshPerm   a == Allocated(mmu, n, p)
  <2>1. CASE CanAllocate(mmu, n)
    <3>1. mmu' = a /\ written' \subseteq written
      BY <1>3, <2>1 DEF Grab
    <3>2. 0 \in Nat
      OBVIOUS
    <3> HIDE DEF p
    <3>3. a.dirty = mmu.dirty /\ a.size = mmu.size
      BY <1>0, <3>2, FlagsKept
    <3>4. mmu'.dirty = mmu.dirty /\ mmu'.size = mmu.size
      BY <3>1, <3>3
    <3>5. PagesOK(mmu', written')
      BY <1>0, <3>1, <3>4, PagesSame
    <3> QED
      BY <3>5 DEF PagesInv
  <2>2. CASE ~CanAllocate(mmu, n)
    BY <1>3, <2>2 DEF Grab, PagesInv
  <2> QED
    BY <2>1, <2>2
<1>4. ASSUME NEW v \in BusAddresses, NEW n \in AccessSizes, Write(v, n) PROVE PagesInv'
  <2>1. v \in Nat /\ n \in Nat /\ Base <= v
    BY AddressSpaceAssumption, MmuAssumption DEF BusAddresses
  <2>2. /\ mmu' = WriteFrom(mmu, v, n)
        /\ written' = written \cup (IF WriteOK(mmu, v, n) THEN Span(v, n) ELSE {})
    BY <1>4 DEF Write
  <2>3. PagesOK(WriteFrom(mmu, v, n),
                written \cup (IF WriteOK(mmu, v, n) THEN Span(v, n) ELSE {}))
    BY <1>0, <2>1, PagesWritten
  <2> QED
    BY <2>2, <2>3 DEF PagesInv
<1>5. ASSUME NEW v \in BusAddresses, NEW n \in AccessSizes, Read(v, n) PROVE PagesInv'
  <2>1. v \in Nat /\ n \in Nat
    BY AddressSpaceAssumption, MmuAssumption DEF BusAddresses
  <2>2. mmu' = ReadInto(mmu, v, n) /\ written' = written
    BY <1>5 DEF Read
  <2>3. ReadInto(mmu, v, n).dirty = mmu.dirty /\ ReadInto(mmu, v, n).size = mmu.size
    BY <1>0, <2>1, FlagsKept
  <2>4. mmu'.dirty = mmu.dirty /\ mmu'.size = mmu.size /\ written' \subseteq written
    BY <2>2, <2>3
  <2>5. PagesOK(mmu', written')
    BY <1>0, <2>4, PagesSame
  <2> QED
    BY <2>5 DEF PagesInv
<1>6. ASSUME UNCHANGED <<mmu, written>> PROVE PagesInv'
  BY <1>6 DEF PagesInv
<1> QED
  <2>1. AllocSizes \subseteq Nat /\ BrkStep \in Nat
    BY AddressSpaceAssumption
  <2> QED
    BY <1>1, <1>2, <1>3, <1>4, <1>5, <1>6, <2>1
       DEF Next, vars, LoadFails, Run, Allocate, BrkQuery, BrkRequest

(* The page of every page end that was written is dirty, and stays so when *)
(* the memory grows (mmu_write_from, mmu_add_memory).                      *)
THEOREM PagesMarked == Spec => []PageEndsAreDirty
<1>1. PagesInv => PageEndsAreDirty
  BY DEF PagesInv, PagesOK, PageEndsAreDirty
<1> QED
  BY <1>1, InitPages, NextPages, SafetyInvariant, PTL DEF Spec
=============================================================================
