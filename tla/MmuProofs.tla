----------------------------- MODULE MmuProofs -----------------------------
(***************************************************************************)
(* What the operators of Mmu preserve and return, for every base, size,    *)
(* alignment and page size.                                                *)
(***************************************************************************)
EXTENDS Mmu, TLAPS

(* Rounding up to the allocation unit never loses bytes (mmu_allocate:     *)
(* aligned_size is at least size).                                         *)
LEMMA AlignedCovers ==
  ASSUME NEW n \in Nat
  PROVE  Aligned(n) \in Nat /\ n <= Aligned(n)
<1> DEFINE x == n + AllocAlign - 1
           q == x \div AllocAlign
           r == x % AllocAlign
<1>1. AllocAlign \in Nat /\ AllocAlign > 0 /\ x \in Nat
  BY MmuAssumption
<1>2. q \in Nat /\ r \in 0 .. AllocAlign - 1 /\ x = AllocAlign * q + r
  BY <1>1
<1> HIDE DEF q, r
<1>3. q * AllocAlign \in Nat /\ q * AllocAlign = AllocAlign * q
  BY <1>1, <1>2
<1>4. q * AllocAlign >= n
  BY <1>1, <1>2, <1>3
<1> QED
  BY <1>3, <1>4 DEF Aligned, q

(* Integer division by a page size stays inside the page table             *)
(* (mmu_init: dirty_size counts one page more than size / DIRTY_PAGE_SIZE).*)
LEMMA InitOK ==
  ASSUME NEW st \in MmuStates
  PROVE  MmuOK(MmuInit(st))
<1> DEFINE d == RamSize \div DirtyPageSize
<1>1. d \in Nat
  BY MmuAssumption
<1> HIDE DEF d
<1>2. FreshPerm \in SUBSET Flags
  BY DEF FreshPerm, Flags
<1> QED
  BY <1>1, <1>2, MmuAssumption DEF MmuOK, MmuInit, End, d

(* mmu_setperm changes permissions only, and only inside its span.         *)
LEMMA SetPermOK ==
  ASSUME NEW m, MmuOK(m), NEW v \in Nat, NEW n \in Nat,
         NEW p \in SUBSET Flags
  PROVE  LET s == SetPerm(m, v, n, p)
         IN  /\ MmuOK(s)
             /\ s.size = m.size /\ s.curr_vaddr = m.curr_vaddr
             /\ \A i \in 0 .. m.size - 1 :
                  s.perm[i] = IF i \in Span(v, n) THEN p ELSE m.perm[i]
<1> DEFINE P == [0 .. m.size - 1 -> SUBSET Flags]
           D == [DOMAIN m.dirty -> BOOLEAN]
           new == [i \in DOMAIN m.perm |-> IF i \in Span(v, n) THEN p ELSE m.perm[i]]
           s == SetPerm(m, v, n, p)
<1>1. m \in [size : Nat, curr_vaddr : Nat, perm : P, dirty : D, state : MmuStates]
  BY DEF MmuOK
<1>2. new \in P
  BY <1>1
<1>4. s = [m EXCEPT !.perm = new]
  BY DEF SetPerm
<1> HIDE DEF P, D, new, s
<1>3. /\ s \in [size : Nat, curr_vaddr : Nat, perm : P, dirty : D, state : MmuStates]
      /\ s.size = m.size /\ s.curr_vaddr = m.curr_vaddr /\ s.dirty = m.dirty
      /\ s.perm = new
  BY <1>1, <1>2, <1>4
<1>5. MmuOK(s)
  BY <1>3 DEF MmuOK, P, D, End
<1> QED
  BY <1>1, <1>3, <1>5 DEF s, new, P

(* mmu_add_memory inside the memory: the pointer ends at the segment's end.*)
LEMMA AddInsideOK ==
  ASSUME NEW m, MmuOK(m), NEW addr \in Nat, NEW n \in Nat,
         NEW p \in SUBSET Flags, Base <= addr, ~Extends(m, addr, n)
  PROVE  LET s == AddInside(m, addr, n, p)
         IN  /\ MmuOK(s)
             /\ s.size = m.size /\ s.curr_vaddr = addr + n
             /\ \A i \in 0 .. m.size - 1 :
                  s.perm[i] = IF i \in Span(addr, n) THEN p ELSE m.perm[i]
<1> DEFINE P == [0 .. m.size - 1 -> SUBSET Flags]
           D == [DOMAIN m.dirty -> BOOLEAN]
           c == [m EXCEPT !.curr_vaddr = addr + n]
<1>1. m \in [size : Nat, curr_vaddr : Nat, perm : P, dirty : D, state : MmuStates]
  BY DEF MmuOK
<1>2. addr + n \in Nat
  OBVIOUS
<1> HIDE DEF P, D
<1>3. /\ c \in [size : Nat, curr_vaddr : Nat, perm : P, dirty : D, state : MmuStates]
      /\ c.size = m.size /\ c.curr_vaddr = addr + n /\ c.dirty = m.dirty
      /\ c.perm = m.perm
  BY <1>1, <1>2
<1> HIDE DEF c
<1>4. MmuOK(c)
  BY <1>3, MmuAssumption DEF MmuOK, P, D, End, Extends
<1>5. AddInside(m, addr, n, p) = SetPerm(c, addr, n, p)
  BY DEF AddInside, c
<1> QED
  BY <1>3, <1>4, <1>5, SetPermOK

(* mmu_allocate hands out a block of the memory, at the old pointer, and   *)
(* moves the pointer past it.                                              *)
LEMMA AllocatedOK ==
  ASSUME NEW m, MmuOK(m), NEW n \in Nat, NEW p \in SUBSET Flags,
         CanAllocate(m, n)
  PROVE  LET s == Allocated(m, n, p)
         IN  /\ MmuOK(s)
             /\ s.size = m.size /\ m.curr_vaddr + n <= s.curr_vaddr
             /\ \A i \in 0 .. m.size - 1 :
                  s.perm[i] = IF i \in Span(m.curr_vaddr, n) THEN p ELSE m.perm[i]
<1> DEFINE P == [0 .. m.size - 1 -> SUBSET Flags]
           D == [DOMAIN m.dirty -> BOOLEAN]
           a == Aligned(n)
           c == [m EXCEPT !.curr_vaddr = m.curr_vaddr + a]
<1>1. m \in [size : Nat, curr_vaddr : Nat, perm : P, dirty : D, state : MmuStates]
  BY DEF MmuOK
<1>2. a \in Nat /\ n <= a
  BY AlignedCovers
<1>3. m.curr_vaddr + a < End(m)
  BY DEF CanAllocate
<1>4. m.curr_vaddr \in Nat /\ Allocated(m, n, p) = SetPerm(c, m.curr_vaddr, n, p)
  BY <1>1 DEF Allocated
<1> HIDE DEF P, D, a
<1>5. m.curr_vaddr + a \in Nat
  BY <1>2, <1>4
<1>6. /\ c \in [size : Nat, curr_vaddr : Nat, perm : P, dirty : D, state : MmuStates]
      /\ c.size = m.size /\ c.curr_vaddr = m.curr_vaddr + a /\ c.dirty = m.dirty
      /\ c.perm = m.perm
  BY <1>1, <1>5
<1> HIDE DEF c
<1>7. MmuOK(c)
  BY <1>2, <1>3, <1>4, <1>6, MmuAssumption DEF MmuOK, P, D, End
<1>8. m.curr_vaddr + n <= c.curr_vaddr
  BY <1>2, <1>4, <1>6
<1> QED
  BY <1>4, <1>6, <1>7, <1>8, SetPermOK

(* mmu_read_into changes nothing but the state of the mmu.                 *)
LEMMA ReadIntoOK ==
  ASSUME NEW m, MmuOK(m), NEW v \in Nat, NEW n \in Nat
  PROVE  LET s == ReadInto(m, v, n)
         IN  /\ MmuOK(s)
             /\ s.size = m.size /\ s.curr_vaddr = m.curr_vaddr /\ s.perm = m.perm
<1> DEFINE P == [0 .. m.size - 1 -> SUBSET Flags]
           D == [DOMAIN m.dirty -> BOOLEAN]
           new == IF ~InRange(m, v, n) THEN "WRITE_PAGE_FAULT"
                  ELSE IF CheckAccess(m, v, n, "READ") THEN "MMU_OK"
                  ELSE "ACCESS_DENIED"
           s == ReadInto(m, v, n)
<1>1. m \in [size : Nat, curr_vaddr : Nat, perm : P, dirty : D, state : MmuStates]
  BY DEF MmuOK
<1>2. new \in MmuStates
  BY DEF MmuStates
<1>3. s = [m EXCEPT !.state = new]
  BY DEF ReadInto
<1> HIDE DEF P, D, new, s
<1>4. /\ s \in [size : Nat, curr_vaddr : Nat, perm : P, dirty : D, state : MmuStates]
      /\ s.size = m.size /\ s.curr_vaddr = m.curr_vaddr /\ s.dirty = m.dirty
      /\ s.perm = m.perm
  BY <1>1, <1>2, <1>3
<1>5. MmuOK(s)
  BY <1>4 DEF MmuOK, P, D, End
<1> QED
  BY <1>4, <1>5 DEF s

(* A quotient is not larger than what was divided.                         *)
LEMMA QuotientBound ==
  ASSUME NEW a \in Nat, NEW d \in Nat, d >= 1
  PROVE  a \div d \in Int /\ a \div d <= a
<1> DEFINE q == a \div d
           r == a % d
<1>1. q \in Int
  OBVIOUS
<1>2. r \in 0 .. d - 1
  OBVIOUS
<1>3. a = d * q + r
  OBVIOUS
<1> HIDE DEF q, r
<1>4. q <= a
  <2>1. CASE q <= 0
    BY <1>1, <2>1
  <2>2. CASE q > 0
    <3>1. q <= d * q
      BY <1>1, <2>2
    <3>2. d * q <= a
      BY <1>1, <1>2, <1>3
    <3> QED
      BY <1>1, <3>1, <3>2
  <2> QED
    BY <1>1, <2>1, <2>2
<1> QED
  BY <1>1, <1>4 DEF q

(* The permission array never has room for more than a word per byte.      *)
LEMMA PermRoomOK ==
  ASSUME NEW m, MmuOK(m)
  PROVE  PermRoom(m) \in Int /\ PermRoom(m) <= m.size
<1>1. m.size \in Nat /\ RamSize \in Nat
  BY MmuAssumption DEF MmuOK
<1>2. PermBytes \in Nat /\ PermBytes >= 1
  BY MmuAssumption
<1>3. m.size \div PermBytes \in Int /\ m.size \div PermBytes <= m.size
  BY <1>1, <1>2, QuotientBound
<1> QED
  BY <1>1, <1>3 DEF PermRoom

(* mmu_add_memory past the end: whatever the heap put in the lost words,   *)
(* the memory is well formed again, and longer.                            *)
LEMMA AddBeyondOK ==
  ASSUME NEW m, MmuOK(m), NEW addr \in Nat, NEW n \in Nat,
         NEW p \in SUBSET Flags, NEW junk \in SUBSET Flags, NEW jd \in BOOLEAN,
         Base <= addr, Extends(m, addr, n)
  PROVE  LET s == AddBeyond(m, addr, n, p, junk, jd)
         IN  MmuOK(s) /\ m.size < s.size /\ s.curr_vaddr = m.curr_vaddr
<1> DEFINE P == [0 .. m.size - 1 -> SUBSET Flags]
           D == [DOMAIN m.dirty -> BOOLEAN]
           ns == addr + n - Base
           kept(i) == i < PermRoom(m) /\ i < ns \div PermBytes
           np == [i \in 0 .. ns - 1 |-> IF kept(i) THEN m.perm[i] ELSE junk]
           nd == [q \in 0 .. ns - 1 |-> IF q \in DOMAIN m.dirty THEN m.dirty[q]
                                        ELSE jd]
           g == [m EXCEPT !.size = ns, !.perm = np, !.dirty = nd]
<1>1. m \in [size : Nat, curr_vaddr : Nat, perm : P, dirty : D, state : MmuStates]
  BY DEF MmuOK
<1>2. ns \in Nat /\ m.size < ns
  BY <1>1, MmuAssumption DEF Extends, End
<1>3. np \in [0 .. ns - 1 -> SUBSET Flags]
  <2> SUFFICES ASSUME NEW i \in 0 .. ns - 1, kept(i)
               PROVE  m.perm[i] \in SUBSET Flags
    OBVIOUS
  <2>1. i < PermRoom(m) /\ PermRoom(m) \in Int /\ PermRoom(m) <= m.size
    BY PermRoomOK
  <2>2. i \in 0 .. m.size - 1
    BY <1>1, <1>2, <2>1
  <2> QED
    BY <1>1, <2>2
<1>4. nd \in [0 .. ns - 1 -> BOOLEAN]
  BY <1>1
<1>5. AddBeyond(m, addr, n, p, junk, jd) = SetPerm(g, addr, n, p)
  BY DEF AddBeyond
<1>6. RamSize <= m.size /\ Base <= m.curr_vaddr /\ m.curr_vaddr <= Base + m.size
  BY DEF MmuOK, End
<1>7. RamSize \div DirtyPageSize \in 0 .. RamSize
  <2> DEFINE d == RamSize \div DirtyPageSize
             r == RamSize % DirtyPageSize
  <2>1. d \in Int /\ r \in 0 .. DirtyPageSize - 1 /\ RamSize = DirtyPageSize * d + r
        /\ DirtyPageSize \in Nat /\ DirtyPageSize >= 1 /\ RamSize \in Nat
    BY MmuAssumption
  <2>2. d >= 0
    BY MmuAssumption
  <2> HIDE DEF d, r
  <2>3. d <= DirtyPageSize * d
    BY <2>1, <2>2
  <2>4. d <= RamSize
    BY <2>1, <2>2, <2>3
  <2> QED
    BY <2>1, <2>2, <2>4 DEF d
<1> HIDE DEF P, D, ns, np, nd, g
<1>8. /\ g.size = ns /\ g.curr_vaddr = m.curr_vaddr /\ g.perm = np
      /\ g.dirty = nd /\ g.state = m.state
      /\ g \in [size : Nat, curr_vaddr : Nat, perm : {m.perm, np},
                dirty : {m.dirty, nd}, state : MmuStates]
  <2> DEFINE PP == {m.perm, np}
             DD == {m.dirty, nd}
  <2>1. m \in [size : Nat, curr_vaddr : Nat, perm : PP, dirty : DD, state : MmuStates]
    BY <1>1
  <2>2. np \in PP /\ nd \in DD
    OBVIOUS
  <2> HIDE DEF PP, DD
  <2>3. /\ g.size = ns /\ g.curr_vaddr = m.curr_vaddr /\ g.perm = np
        /\ g.dirty = nd /\ g.state = m.state
        /\ g \in [size : Nat, curr_vaddr : Nat, perm : PP, dirty : DD, state : MmuStates]
    BY <2>1, <2>2, <1>2 DEF g
  <2> QED
    BY <2>3 DEF PP, DD
<1>9. g \in [size : Nat, curr_vaddr : Nat, perm : {np}, dirty : {nd},
             state : MmuStates]
  BY <1>8
<1>10. g \in [size : Nat, curr_vaddr : Nat,
              perm : [0 .. g.size - 1 -> SUBSET Flags],
              dirty : [DOMAIN g.dirty -> BOOLEAN], state : MmuStates]
  <2>1. np \in [0 .. g.size - 1 -> SUBSET Flags]
    BY <1>3, <1>8
  <2>2. nd \in [DOMAIN g.dirty -> BOOLEAN]
    BY <1>4, <1>8
  <2> HIDE DEF np
  <2> QED
    BY <1>9, <2>1, <2>2
<1>11. DOMAIN g.dirty = 0 .. ns - 1
  BY <1>4, <1>8
<1>12. MmuOK(g)
  BY <1>2, <1>6, <1>7, <1>8, <1>10, <1>11, MmuAssumption DEF MmuOK, End
<1> QED
  BY <1>2, <1>5, <1>8, <1>12, SetPermOK

(* mmu_write_from keeps size and pointer; bytes it does not write keep     *)
(* their permissions, and so do all when it fails; a written byte has at   *)
(* most gained READ.                                                       *)
LEMMA WriteFromOK ==
  ASSUME NEW m, MmuOK(m), NEW v \in Nat, NEW n \in Nat
  PROVE  LET s == WriteFrom(m, v, n)
         IN  /\ MmuOK(s)
             /\ s.size = m.size /\ s.curr_vaddr = m.curr_vaddr
             /\ ~WriteOK(m, v, n) => s.perm = m.perm
             /\ \A i \in 0 .. m.size - 1 :
                  i \notin Span(v, n) => s.perm[i] = m.perm[i]
             /\ \A i \in 0 .. m.size - 1 :
                  "READ" \in m.perm[i] => "READ" \in s.perm[i]
<1> DEFINE P == [0 .. m.size - 1 -> SUBSET Flags]
           D == [DOMAIN m.dirty -> BOOLEAN]
           s == WriteFrom(m, v, n)
           T == [size : Nat, curr_vaddr : Nat, perm : P, dirty : D, state : MmuStates]
           np == [i \in DOMAIN m.perm |-> IF i \in Span(v, n)
                                          THEN AfterWrite(m.perm[i]) ELSE m.perm[i]]
           nd == [q \in DOMAIN m.dirty |-> m.dirty[q] \/ q \in MarkedPages(v, n)]
<1>1. m \in T
  BY DEF MmuOK
<1>2. ASSUME ~WriteOK(m, v, n)
      PROVE  /\ s \in T /\ s.perm = m.perm /\ s.dirty = m.dirty
             /\ s.size = m.size /\ s.curr_vaddr = m.curr_vaddr
  <2> DEFINE f == IF ~InRange(m, v, n) THEN "READ_PAGE_FAULT" ELSE "ACCESS_DENIED"
  <2>1. f \in MmuStates
    BY DEF MmuStates
  <2>2. s = [m EXCEPT !.state = f]
    BY <1>2 DEF WriteFrom, WriteOK
  <2> HIDE DEF P, D, s, f
  <2> QED
    BY <1>1, <2>1, <2>2
<1>3. ASSUME WriteOK(m, v, n)
      PROVE  /\ s \in T /\ s.perm = np /\ s.dirty = nd
             /\ s.size = m.size /\ s.curr_vaddr = m.curr_vaddr
  <2>1. np \in P
    BY <1>1 DEF AfterWrite, Flags
  <2>2. nd \in D
    BY <1>1
  <2>3. s = [m EXCEPT !.state = "MMU_OK", !.perm = np, !.dirty = nd]
    BY <1>3 DEF WriteFrom, WriteOK
  <2>4. "MMU_OK" \in MmuStates
    BY DEF MmuStates
  <2> HIDE DEF P, D, s, np, nd
  <2> QED
    BY <1>1, <2>1, <2>2, <2>3, <2>4
<1>4. m.perm \in P
  BY <1>1
<1>5. /\ \A i \in 0 .. m.size - 1 :
           i \notin Span(v, n) => np[i] = m.perm[i]
      /\ \A i \in 0 .. m.size - 1 :
           "READ" \in m.perm[i] => "READ" \in np[i]
  BY <1>4 DEF AfterWrite
<1>6. DOMAIN nd = DOMAIN m.dirty
  OBVIOUS
<1> HIDE DEF s, np, nd
<1>7. MmuOK(s)
  BY <1>1, <1>2, <1>3, <1>6 DEF MmuOK, End
<1> QED
  BY <1>2, <1>3, <1>5, <1>7 DEF s

(* Where it succeeds, every byte of its span was writable, and loses RAW.  *)
LEMMA WriteFromWrites ==
  ASSUME NEW m, MmuOK(m), NEW v \in Nat, NEW n \in Nat, WriteOK(m, v, n)
  PROVE  LET s == WriteFrom(m, v, n)
         IN  /\ s.state = "MMU_OK"
             /\ \A i \in Span(v, n) : /\ i \in 0 .. m.size - 1
                                      /\ s.perm[i] = AfterWrite(m.perm[i])
<1> DEFINE np == [i \in DOMAIN m.perm |-> IF i \in Span(v, n)
                                          THEN AfterWrite(m.perm[i]) ELSE m.perm[i]]
           nd == [q \in DOMAIN m.dirty |-> m.dirty[q] \/ q \in MarkedPages(v, n)]
           s == WriteFrom(m, v, n)
<1>1. m \in [size : Nat, curr_vaddr : Nat, perm : [0 .. m.size - 1 -> SUBSET Flags],
             dirty : [DOMAIN m.dirty -> BOOLEAN], state : MmuStates]
  BY DEF MmuOK
<1>2. s = [m EXCEPT !.state = "MMU_OK", !.perm = np, !.dirty = nd]
  BY DEF WriteFrom, WriteOK
<1>3. \A i \in Span(v, n) : i \in 0 .. m.size - 1
  BY <1>1, MmuAssumption DEF WriteOK, InRange, End, Span
<1>4. \A i \in Span(v, n) : np[i] = AfterWrite(m.perm[i])
  BY <1>1, <1>3
<1> HIDE DEF np, nd, s
<1>5. s.state = "MMU_OK" /\ s.perm = np
  BY <1>1, <1>2
<1> QED
  BY <1>3, <1>4, <1>5 DEF s
=============================================================================
