--------------------------- MODULE SyscallsProofs ---------------------------
(***************************************************************************)
(* The properties of the system calls, for every image, disk, buffer size  *)
(* and width, and for every sequence of calls with any arguments.          *)
(*                                                                         *)
(* None of them is inductive.  BusInv adds what they stand on in memory:   *)
(* memory that may be written is readable or RAW, so that a write always   *)
(* leaves it readable; what is readable was written since it was handed    *)
(* out; and what was handed out lies below the allocation pointer.         *)
(***************************************************************************)
EXTENDS Syscalls, MmuProofs, SequenceTheorems

(* Memory that may be written can be read afterwards; what can be read was *)
(* written.                                                                *)
BytesInv(m, data, wrote) ==
  \A i \in 0 .. RamSize - 1 :
    /\ "WRITE" \in m.perm[i] => "READ" \in m.perm[i] \/ "RAW" \in m.perm[i]
    /\ "READ" \in m.perm[i] => data[i] = wrote[i]

(* What was handed out lies below the allocation pointer.                  *)
GrantedInv(m, granted) == \A i \in granted : Base + i < m.curr_vaddr

(* The bus and what is behind it.                                          *)
BusInv(b) ==
  /\ b \in [mmu : {b.mmu}, data : [0 .. RamSize - 1 -> Bytes],
            wrote : [0 .. RamSize - 1 -> Bytes \cup {Unwritten}],
            granted : SUBSET (0 .. RamSize - 1), ram : {"READY", "ERROR"},
            status : {"BUS_OK", "BUS_ADDRESS_NOT_FOUND", "BUS_DEVICE_FAILURE"},
            free : BOOLEAN]
  /\ MmuOK(b.mmu) /\ b.mmu.size = RamSize
  /\ BytesInv(b.mmu, b.data, b.wrote)
  /\ GrantedInv(b.mmu, b.granted)

(* The descriptors and what their guest was told of them.                  *)
FilesInv ==
  /\ files \in [Fds -> [open : BOOLEAN, path : Seq(Bytes), pos : Nat]]
  /\ told \in [Fds -> Word]
  /\ StdStreamsOpen
  /\ PositionAsReported

(* The last call and its result.                                           *)
CallInv ==
  /\ call.ret \in Word
  /\ ReadDelivers
  /\ OutputIsGuests
  /\ PathIsGuests

(* The invariant of the calls, inductive as a whole.                       *)
SysInv ==
  /\ BusInv(bus)
  /\ FilesInv
  /\ CallInv
  /\ outcome \in {"running", "exited", "died", "overrun"}

----------------------------------------------------------------------------
(* The ranges of the constants.                                            *)
LEMMA Numbers ==
  /\ Base \in Nat /\ Base > 0 /\ RamSize \in Nat
  /\ WordMod \in Nat /\ WordMod > 0 /\ Base + RamSize < WordMod
  /\ MaxFd \in Nat /\ 2 <= MaxFd /\ MaxFd < WordMod
  /\ MaxTransfer \in Nat /\ MaxTransfer < WordMod - 1
  /\ StackSize \in Nat /\ BrkStep \in Nat /\ BufSize \in Nat /\ StatSize \in Nat
  /\ Addresses \subseteq Word /\ Sizes \subseteq Word /\ Offsets \subseteq Word
  /\ Descriptors \subseteq Fds
  /\ Error \in Word /\ 0 \in Word
BY MmuAssumption, SyscallsAssumption DEF Word, Fds, Error

(* A remainder is determined by the number.                                *)
LEMMA RemainderUnique ==
  ASSUME NEW m \in Nat, m > 0, NEW p \in Int, NEW q \in Int,
         NEW r \in 0 .. m - 1, NEW s \in 0 .. m - 1, m * p + r = m * q + s
  PROVE  r = s
<1>1. ASSUME NEW a \in Int, NEW b \in Int, NEW x \in 0 .. m - 1, NEW y \in 0 .. m - 1,
             m * a + x = m * b + y, a > b
      PROVE  FALSE
  <2> DEFINE e == a - b - 1
  <2>1. e \in Nat /\ a = b + 1 + e
    BY <1>1
  <2> HIDE DEF e
  <2>2. m * e \in Nat
    BY <2>1
  <2>3. m * a = m * b + m + m * e
    BY <2>1
  <2> QED
    BY <1>1, <2>2, <2>3
<1>2. CASE p > q
  BY <1>1, <1>2
<1>3. CASE q > p
  BY <1>1, <1>3
<1>4. CASE p = q
  BY <1>4
<1> QED
  BY <1>2, <1>3, <1>4

(* Division with remainder by the number of values of a register.          *)
LEMMA Division ==
  ASSUME NEW x \in Nat
  PROVE  /\ x % WordMod \in 0 .. WordMod - 1
         /\ \E q \in Int : x = WordMod * q + (x % WordMod)
<1> DEFINE q == x \div WordMod
<1>1. q \in Int /\ x % WordMod \in 0 .. WordMod - 1 /\ x = WordMod * q + (x % WordMod)
  BY Numbers
<1> QED
  BY <1>1

(* A file that was just opened reports position 0.                         *)
LEMMA ZeroReported == 0 % WordMod = 0
<1> DEFINE r == 0 % WordMod
<1>1. r \in 0 .. WordMod - 1 /\ \E q \in Int : 0 = WordMod * q + r
  BY Division
<1>2. PICK q \in Int : 0 = WordMod * q + r
  BY <1>1
<1> HIDE DEF r
<1>3. WordMod * q + r = WordMod * 0 + 0 /\ 0 \in 0 .. WordMod - 1
      /\ WordMod \in Nat /\ WordMod > 0
  BY <1>1, <1>2, Numbers
<1>4. r = 0
  BY <1>1, <1>3, RemainderUnique
<1> QED
  BY <1>4 DEF r

(* A register advances with the position it reports (sys_read after a seek *)
(* past the width of a register).                                          *)
LEMMA RemainderAdvances ==
  ASSUME NEW pos \in Nat, NEW k \in Nat
  PROVE  ((pos % WordMod) + k) % WordMod = (pos + k) % WordMod
<1> DEFINE r == pos % WordMod
<1>1. WordMod \in Nat /\ WordMod > 0
  BY Numbers
<1>2. r \in 0 .. WordMod - 1 /\ \E q \in Int : pos = WordMod * q + r
  BY Division
<1>3. PICK q \in Int : pos = WordMod * q + r
  BY <1>2
<1> HIDE DEF r
<1> DEFINE s == (r + k) % WordMod
           t == (pos + k) % WordMod
<1>4. s \in 0 .. WordMod - 1 /\ \E u \in Int : r + k = WordMod * u + s
  <2>1. r + k \in Nat
    BY <1>1, <1>2
  <2> QED
    BY <2>1, Division
<1>5. t \in 0 .. WordMod - 1 /\ \E w \in Int : pos + k = WordMod * w + t
  BY Division
<1> HIDE DEF s, t
<1>6. PICK u \in Int : r + k = WordMod * u + s
  BY <1>4
<1>7. PICK w \in Int : pos + k = WordMod * w + t
  BY <1>5
<1>8. q + u \in Int /\ WordMod * (q + u) + s = WordMod * w + t
  BY <1>1, <1>2, <1>3, <1>4, <1>5, <1>6, <1>7
<1>9. s = t
  BY <1>1, <1>4, <1>5, <1>8, RemainderUnique
<1> QED
  BY <1>9 DEF s, t, r

(* Strings of bytes are sequences of their length.                         *)
LEMMA Strings ==
  ASSUME NEW n \in Nat, NEW s \in [1 .. n -> Bytes]
  PROVE  s \in Seq(Bytes) /\ Len(s) = n
<1>1. s \in Seq(Bytes)
  BY SeqDef
<1>2. DOMAIN s = 1 .. Len(s) /\ Len(s) \in Nat
  BY <1>1, LenProperties
<1>3. DOMAIN s = 1 .. n
  OBVIOUS
<1> QED
  BY <1>1, <1>2, <1>3

(* The first bytes of a string.                                            *)
LEMMA Prefixes ==
  ASSUME NEW s \in Seq(Bytes), NEW k \in 0 .. Len(s)
  PROVE  LET t == SubSeq(s, 1, k)
         IN  /\ t \in Seq(Bytes) /\ Len(t) = k /\ DOMAIN t = 1 .. k
             /\ \A j \in 1 .. k : t[j] = s[j]
<1>1. Len(s) \in Nat /\ \A i \in 1 .. Len(s) : s[i] \in Bytes
  BY LenProperties
<1>2. k \in Int /\ \A i \in 1 .. k : s[i] \in Bytes
  BY <1>1
<1> DEFINE t == SubSeq(s, 1, k)
<1>3. /\ t \in Seq(Bytes)
      /\ Len(t) = IF 1 <= k THEN k - 1 + 1 ELSE 0
      /\ \A i \in 1 .. k - 1 + 1 : t[i] = s[1 + i - 1]
  BY <1>2, SubSeqProperties
<1> HIDE DEF t
<1>4. DOMAIN t = 1 .. Len(t)
  BY <1>3, LenProperties
<1>5. Len(t) = k
  BY <1>1, <1>3
<1>6. \A j \in 1 .. k : t[j] = s[j]
  <2> SUFFICES ASSUME NEW j \in 1 .. k
               PROVE  t[j] = s[j]
    OBVIOUS
  <2>1. j \in 1 .. k - 1 + 1 /\ 1 + j - 1 = j
    BY <1>2
  <2> QED
    BY <1>3, <2>1
<1> QED
  BY <1>3, <1>4, <1>5, <1>6 DEF t

----------------------------------------------------------------------------
(* The fields of the bus, one by one.                                      *)
LEMMA BusFields ==
  ASSUME NEW b, BusInv(b)
  PROVE  /\ MmuOK(b.mmu) /\ b.mmu.size = RamSize
         /\ b.mmu.perm \in [0 .. RamSize - 1 -> SUBSET Flags]
         /\ b.mmu.curr_vaddr \in Nat
         /\ Base <= b.mmu.curr_vaddr /\ b.mmu.curr_vaddr <= Base + RamSize
         /\ b.data \in [0 .. RamSize - 1 -> Bytes]
         /\ b.wrote \in [0 .. RamSize - 1 -> Bytes \cup {Unwritten}]
         /\ b.granted \subseteq 0 .. RamSize - 1
         /\ b.ram \in {"READY", "ERROR"} /\ b.free \in BOOLEAN
         /\ b.status \in {"BUS_OK", "BUS_ADDRESS_NOT_FOUND", "BUS_DEVICE_FAILURE"}
BY DEF BusInv, MmuOK, End

(* The bus with other contents.                                            *)
BusWith(m, data, wrote, granted, ram, status, free) ==
  [bus EXCEPT !.mmu = m, !.data = data, !.wrote = wrote, !.granted = granted,
              !.ram = ram, !.status = status, !.free = free]

(* It is well formed if the contents are.                                  *)
LEMMA BusChanged ==
  ASSUME BusInv(bus),
         NEW m, MmuOK(m), m.size = RamSize,
         NEW d \in [0 .. RamSize - 1 -> Bytes],
         NEW w \in [0 .. RamSize - 1 -> Bytes \cup {Unwritten}],
         NEW g \in SUBSET (0 .. RamSize - 1),
         NEW r \in {"READY", "ERROR"},
         NEW st \in {"BUS_OK", "BUS_ADDRESS_NOT_FOUND", "BUS_DEVICE_FAILURE"},
         NEW f \in BOOLEAN,
         BytesInv(m, d, w), GrantedInv(m, g)
  PROVE  LET c == BusWith(m, d, w, g, r, st, f)
         IN  /\ BusInv(c)
             /\ c.mmu = m /\ c.data = d /\ c.wrote = w /\ c.granted = g
             /\ c.ram = r /\ c.status = st /\ c.free = f
<1> DEFINE A == [0 .. RamSize - 1 -> Bytes]
           B == [0 .. RamSize - 1 -> Bytes \cup {Unwritten}]
           G == SUBSET (0 .. RamSize - 1)
           R == {"READY", "ERROR"}
           S == {"BUS_OK", "BUS_ADDRESS_NOT_FOUND", "BUS_DEVICE_FAILURE"}
           M == {bus.mmu, m}
           c == BusWith(m, d, w, g, r, st, f)
<1>1. bus \in [mmu : {bus.mmu}, data : A, wrote : B, granted : G, ram : R,
               status : S, free : BOOLEAN]
  BY DEF BusInv
<1>2. bus \in [mmu : M, data : A, wrote : B, granted : G, ram : R,
               status : S, free : BOOLEAN]
  BY <1>1
<1>3. d \in A /\ w \in B /\ g \in G /\ r \in R /\ st \in S /\ m \in M
  OBVIOUS
<1>0. c = [bus EXCEPT !.mmu = m, !.data = d, !.wrote = w, !.granted = g,
                      !.ram = r, !.status = st, !.free = f]
  BY DEF BusWith
<1> HIDE DEF A, B, G, R, S, M, c
<1>4. /\ c \in [mmu : M, data : A, wrote : B, granted : G, ram : R,
                status : S, free : BOOLEAN]
      /\ c.mmu = m /\ c.data = d /\ c.wrote = w /\ c.granted = g
      /\ c.ram = r /\ c.status = st /\ c.free = f
  BY <1>0, <1>2, <1>3
<1>5. c \in [mmu : {c.mmu}, data : A, wrote : B, granted : G, ram : R,
             status : S, free : BOOLEAN]
  BY <1>4
<1> USE DEF A, B, G, R, S
<1>6. BusInv(c)
  BY <1>4, <1>5 DEF BusInv
<1> QED
  BY <1>4, <1>6 DEF c

(* The bus with other marks: states of the device and of the mutex.        *)
Marked(ram, status, free) ==
  [bus EXCEPT !.ram = ram, !.status = status, !.free = free]

(* Its memory is the same.                                                 *)
LEMMA MarksChanged ==
  ASSUME BusInv(bus),
         NEW r \in {"READY", "ERROR"},
         NEW st \in {"BUS_OK", "BUS_ADDRESS_NOT_FOUND", "BUS_DEVICE_FAILURE"},
         NEW f \in BOOLEAN
  PROVE  LET c == Marked(r, st, f)
         IN  /\ BusInv(c)
             /\ c.mmu = bus.mmu /\ c.data = bus.data /\ c.wrote = bus.wrote
             /\ c.granted = bus.granted
             /\ c.ram = r /\ c.status = st /\ c.free = f
<1> DEFINE c == Marked(r, st, f)
           m == bus.mmu   d == bus.data   w == bus.wrote   g == bus.granted
<1>1. c = BusWith(m, d, w, g, r, st, f)
  BY DEF BusInv, BusWith, Marked
<1>2. /\ MmuOK(m) /\ m.size = RamSize
      /\ d \in [0 .. RamSize - 1 -> Bytes]
      /\ w \in [0 .. RamSize - 1 -> Bytes \cup {Unwritten}]
      /\ g \in SUBSET (0 .. RamSize - 1)
      /\ BytesInv(m, d, w) /\ GrantedInv(m, g)
  BY BusFields DEF BusInv
<1> HIDE DEF c, m, d, w, g
<1>3. /\ BusInv(c)
      /\ c.mmu = m /\ c.data = d /\ c.wrote = w /\ c.granted = g
      /\ c.ram = r /\ c.status = st /\ c.free = f
  BY <1>1, <1>2, BusChanged
<1> QED
  BY <1>3 DEF c, m, d, w, g

----------------------------------------------------------------------------
(* What a transfer to address v leaves of the memory the guest could read. *)
KeptBut(b, c, v, n) ==
  \A i \in 0 .. RamSize - 1 :
    "READ" \in b.mmu.perm[i] =>
      "READ" \in c.mmu.perm[i] /\ (c.data[i] = b.data[i] \/ i \in Span(v, n))

(* The bytes s are in memory at v, and the guest may read them.            *)
HeldAt(c, v, s, n) ==
  \A j \in 1 .. n :
    LET i == v - Base + j - 1 IN
    i \in 0 .. RamSize - 1 /\ "READ" \in c.mmu.perm[i] /\ c.data[i] = s[j]

(* Two buses with the same memory.                                         *)
SameMemory(b, c) ==
  /\ c.mmu.perm = b.mmu.perm /\ c.mmu.size = b.mmu.size
  /\ c.mmu.curr_vaddr = b.mmu.curr_vaddr
  /\ c.data = b.data /\ c.wrote = b.wrote /\ c.granted = b.granted

(* An array of S after the n bytes s were stored at v.                     *)
StoredIn(S, f, v, s, n) ==
  /\ Stored(f, v, s) \in [0 .. RamSize - 1 -> S]
  /\ \A i \in 0 .. RamSize - 1 :
       Stored(f, v, s)[i] = IF i \in Span(v, n) THEN s[i - (v - Base) + 1] ELSE f[i]

(* What a successful write leaves in an array.                             *)
LEMMA StoredOK ==
  ASSUME NEW S, NEW f \in [0 .. RamSize - 1 -> S],
         NEW v \in BusAddresses, NEW n \in Nat, NEW s \in [1 .. n -> Bytes],
         Bytes \subseteq S
  PROVE  StoredIn(S, f, v, s, n)
<1>1. Len(s) = n
  BY Strings
<1>2. Stored(f, v, s) =
        [i \in 0 .. RamSize - 1 |-> IF i \in Span(v, n) THEN s[i - (v - Base) + 1] ELSE f[i]]
  BY <1>1 DEF Stored
<1>3. \A i \in Span(v, n) : s[i - (v - Base) + 1] \in Bytes
  <2> SUFFICES ASSUME NEW i \in Span(v, n)
               PROVE  s[i - (v - Base) + 1] \in Bytes
    OBVIOUS
  <2>1. i - (v - Base) + 1 \in 1 .. n
    BY Numbers DEF Span, BusAddresses
  <2> QED
    BY <2>1
<1> QED
  BY <1>2, <1>3 DEF StoredIn

(* bus_write_multiple: all of the bytes arrive and can be read, or none do *)
(* and the mutex stays taken.                                              *)
LEMMA BlockWrittenOK ==
  ASSUME BusInv(bus), NEW v \in Nat, NEW n \in Nat, NEW s \in [1 .. n -> Bytes]
  PROVE  LET c == BlockWritten(v, s)
         IN  /\ BusInv(c)
             /\ KeptBut(bus, c, v, n)
             /\ c.free /\ v \in BusAddresses => HeldAt(c, v, s, n)
<1> DEFINE c == BlockWritten(v, s)
<1>1. Len(s) = n
  BY Strings
<1>2. CASE v \notin BusAddresses
  <2>1. c = [bus EXCEPT !.status = "BUS_ADDRESS_NOT_FOUND"]
    BY <1>2 DEF BlockWritten
  <2> DEFINE r == bus.ram   f == bus.free
  <2>2. c = Marked(r, "BUS_ADDRESS_NOT_FOUND", f)
    BY <2>1 DEF BusInv, Marked
  <2>3. r \in {"READY", "ERROR"} /\ f \in BOOLEAN
    BY BusFields
  <2> HIDE DEF r, f
  <2>4. BusInv(c) /\ c.mmu = bus.mmu /\ c.data = bus.data
    BY <2>2, <2>3, MarksChanged
  <2> QED
    BY <1>2, <2>4 DEF KeptBut
<1>3. CASE v \in BusAddresses
  <2> DEFINE m == WriteFrom(bus.mmu, v, n)
             d == Stored(bus.data, v, s)
             w == Stored(bus.wrote, v, s)
             g == bus.granted
  <2>1. /\ MmuOK(bus.mmu) /\ bus.mmu.size = RamSize
        /\ bus.mmu.perm \in [0 .. RamSize - 1 -> SUBSET Flags]
        /\ bus.data \in [0 .. RamSize - 1 -> Bytes]
        /\ bus.wrote \in [0 .. RamSize - 1 -> Bytes \cup {Unwritten}]
        /\ bus.granted \in SUBSET (0 .. RamSize - 1)
        /\ BytesInv(bus.mmu, bus.data, bus.wrote) /\ GrantedInv(bus.mmu, bus.granted)
    BY BusFields DEF BusInv
  <2>2. /\ MmuOK(m) /\ m.size = RamSize /\ m.curr_vaddr = bus.mmu.curr_vaddr
        /\ ~WriteOK(bus.mmu, v, n) => m.perm = bus.mmu.perm
        /\ \A i \in 0 .. RamSize - 1 : i \notin Span(v, n) => m.perm[i] = bus.mmu.perm[i]
        /\ \A i \in 0 .. RamSize - 1 : "READ" \in bus.mmu.perm[i] => "READ" \in m.perm[i]
    <3>1. MmuOK(bus.mmu) /\ bus.mmu.size = RamSize
      BY <2>1
    <3>2. /\ MmuOK(m) /\ m.size = bus.mmu.size /\ m.curr_vaddr = bus.mmu.curr_vaddr
          /\ ~WriteOK(bus.mmu, v, n) => m.perm = bus.mmu.perm
          /\ \A i \in 0 .. bus.mmu.size - 1 :
               i \notin Span(v, n) => m.perm[i] = bus.mmu.perm[i]
          /\ \A i \in 0 .. bus.mmu.size - 1 :
               "READ" \in bus.mmu.perm[i] => "READ" \in m.perm[i]
      BY <3>1, WriteFromOK
    <3> HIDE DEF m
    <3> QED
      BY <3>1, <3>2
  <2>3. GrantedInv(m, g)
    BY <2>1, <2>2 DEF GrantedInv
  <2>4. CASE WriteOK(bus.mmu, v, n)
    <3>1. /\ m.state = "MMU_OK"
          /\ \A i \in Span(v, n) : /\ i \in 0 .. RamSize - 1
                                   /\ m.perm[i] = AfterWrite(bus.mmu.perm[i])
      BY <2>1, <2>4, WriteFromWrites
    <3>2. /\ d \in [0 .. RamSize - 1 -> Bytes]
          /\ \A i \in 0 .. RamSize - 1 :
               d[i] = IF i \in Span(v, n) THEN s[i - (v - Base) + 1] ELSE bus.data[i]
      <4> DEFINE f == bus.data   S == Bytes
      <4>1. f \in [0 .. RamSize - 1 -> S] /\ Bytes \subseteq S
        BY <2>1
      <4> HIDE DEF f, S
      <4>2. StoredIn(S, f, v, s, n)
        BY <1>3, <4>1, StoredOK
      <4> QED
        BY <4>2 DEF f, S, StoredIn
    <3>3. /\ w \in [0 .. RamSize - 1 -> Bytes \cup {Unwritten}]
          /\ \A i \in 0 .. RamSize - 1 :
               w[i] = IF i \in Span(v, n) THEN s[i - (v - Base) + 1] ELSE bus.wrote[i]
      <4> DEFINE f == bus.wrote   S == Bytes \cup {Unwritten}
      <4>1. f \in [0 .. RamSize - 1 -> S] /\ Bytes \subseteq S
        BY <2>1
      <4> HIDE DEF f, S
      <4>2. StoredIn(S, f, v, s, n)
        BY <1>3, <4>1, StoredOK
      <4> QED
        BY <4>2 DEF f, S, StoredIn
    <3>4. \A i \in Span(v, n) : "READ" \in m.perm[i]
      <4> SUFFICES ASSUME NEW i \in Span(v, n)
                   PROVE  "READ" \in m.perm[i]
        OBVIOUS
      <4>1. i \in 0 .. RamSize - 1 /\ m.perm[i] = AfterWrite(bus.mmu.perm[i])
        BY <3>1
      <4>2. "WRITE" \in bus.mmu.perm[i] \/ "RAW" \in bus.mmu.perm[i]
        BY <2>4 DEF WriteOK, CheckAccess
      <4>3. "READ" \in bus.mmu.perm[i] \/ "RAW" \in bus.mmu.perm[i]
        BY <2>1, <4>1, <4>2 DEF BytesInv
      <4> QED
        BY <4>1, <4>3 DEF AfterWrite
    <3>5. c = BusWith(m, d, w, g, "READY", "BUS_OK", bus.free)
      <4>1. c = [bus EXCEPT !.mmu = m, !.data = d, !.wrote = w, !.ram = "READY",
                            !.status = "BUS_OK"]
        BY <1>1, <1>3, <3>1 DEF BlockWritten
      <4> HIDE DEF m, d, w, c
      <4> QED
        BY <4>1 DEF BusInv, BusWith
    <3>6. bus.free \in BOOLEAN /\ g \in SUBSET (0 .. RamSize - 1)
      BY BusFields
    <3> HIDE DEF m, d, w, g, c
    <3>7. BytesInv(m, d, w)
      BY <2>1, <2>2, <3>2, <3>3, <3>4 DEF BytesInv
    <3>8. BusInv(c) /\ c.mmu = m /\ c.data = d
      BY <2>2, <2>3, <3>2, <3>3, <3>5, <3>6, <3>7, BusChanged
    <3>9. KeptBut(bus, c, v, n)
      BY <2>2, <3>2, <3>8 DEF KeptBut
    <3>10. HeldAt(c, v, s, n)
      <4> SUFFICES ASSUME NEW j \in 1 .. n, NEW i, i = v - Base + j - 1
                   PROVE  i \in 0 .. RamSize - 1 /\ "READ" \in c.mmu.perm[i]
                          /\ c.data[i] = s[j]
        BY DEF HeldAt
      <4>1. i \in Span(v, n) /\ i - (v - Base) + 1 = j
        BY Numbers DEF Span
      <4>2. d[i] = s[i - (v - Base) + 1]
        BY <3>1, <3>2, <4>1
      <4> QED
        BY <3>1, <3>4, <3>8, <4>1, <4>2
    <3> QED
      BY <3>8, <3>9, <3>10 DEF c
  <2>5. CASE ~WriteOK(bus.mmu, v, n)
    <3>1. m.state # "MMU_OK" /\ m.perm = bus.mmu.perm
      <4> DEFINE f == IF ~InRange(bus.mmu, v, n) THEN "READ_PAGE_FAULT" ELSE "ACCESS_DENIED"
                 o == bus.mmu
      <4>1. m = [o EXCEPT !.state = f]
        BY <2>5 DEF WriteFrom, WriteOK
      <4>2. f # "MMU_OK"
        OBVIOUS
      <4>3. o \in [size : Nat, curr_vaddr : Nat, perm : [0 .. o.size - 1 -> SUBSET Flags],
                   dirty : [DOMAIN o.dirty -> BOOLEAN], state : MmuStates]
        BY <2>1 DEF MmuOK
      <4> HIDE DEF m, f
      <4> QED
        BY <2>2, <2>5, <4>1, <4>2, <4>3
    <3>2. c = BusWith(m, bus.data, bus.wrote, g, "ERROR", "BUS_DEVICE_FAILURE", FALSE)
      <4>1. c = [bus EXCEPT !.mmu = m, !.ram = "ERROR", !.status = "BUS_DEVICE_FAILURE",
                            !.free = FALSE]
        BY <1>1, <1>3, <3>1 DEF BlockWritten
      <4> HIDE DEF m, c
      <4> QED
        BY <4>1 DEF BusInv, BusWith
    <3>3. BytesInv(m, bus.data, bus.wrote)
      BY <2>1, <3>1 DEF BytesInv
    <3>4. g \in SUBSET (0 .. RamSize - 1)
      BY BusFields
    <3> DEFINE d1 == bus.data   w1 == bus.wrote   f1 == FALSE
    <3>5. d1 \in [0 .. RamSize - 1 -> Bytes]
          /\ w1 \in [0 .. RamSize - 1 -> Bytes \cup {Unwritten}]
          /\ c = BusWith(m, d1, w1, g, "ERROR", "BUS_DEVICE_FAILURE", f1)
          /\ BytesInv(m, d1, w1) /\ f1 \in BOOLEAN
      BY <2>1, <3>2, <3>3
    <3> HIDE DEF m, g, c, d1, w1, f1
    <3>8. MmuOK(m) /\ m.size = RamSize
      BY <2>2
    <3>6. BusInv(c) /\ c.mmu = m /\ c.data = d1 /\ c.free = f1
      BY <2>3, <3>4, <3>5, <3>8, BusChanged
    <3>7. KeptBut(bus, c, v, n)
      BY <3>1, <3>6 DEF KeptBut, d1
    <3> QED
      BY <3>6, <3>7 DEF c, f1
  <2> QED
    BY <2>4, <2>5
<1> QED
  BY <1>2, <1>3

(* bus_read_multiple changes nothing in memory.                            *)
LEMMA BlockReadOK ==
  ASSUME BusInv(bus), NEW v \in Nat, NEW n \in Nat
  PROVE  LET c == BlockRead(v, n)
         IN  BusInv(c) /\ SameMemory(bus, c)
<1> DEFINE c == BlockRead(v, n)
           d == bus.data   w == bus.wrote   g == bus.granted   f == bus.free
<1>1. /\ MmuOK(bus.mmu) /\ bus.mmu.size = RamSize
      /\ d \in [0 .. RamSize - 1 -> Bytes]
      /\ w \in [0 .. RamSize - 1 -> Bytes \cup {Unwritten}]
      /\ g \in SUBSET (0 .. RamSize - 1) /\ f \in BOOLEAN
      /\ bus.ram \in {"READY", "ERROR"}
      /\ BytesInv(bus.mmu, d, w) /\ GrantedInv(bus.mmu, g)
  BY BusFields DEF BusInv
<1>2. CASE v \notin BusAddresses
  <2> DEFINE r == bus.ram   m == bus.mmu
  <2>1. c = Marked(r, "BUS_ADDRESS_NOT_FOUND", f)
    BY <1>2 DEF BusInv, BlockRead, Marked
  <2>2. r \in {"READY", "ERROR"} /\ f \in BOOLEAN
    BY <1>1
  <2> HIDE DEF r, f, c
  <2>3. BusInv(c) /\ c.mmu = bus.mmu /\ c.data = bus.data /\ c.wrote = bus.wrote
        /\ c.granted = bus.granted
    BY <2>1, <2>2, MarksChanged
  <2> QED
    BY <2>3 DEF SameMemory, c
<1>3. CASE v \in BusAddresses
  <2> DEFINE m == ReadInto(bus.mmu, v, n)
             r == IF m.state = "MMU_OK" THEN "READY" ELSE "ERROR"
             st == IF m.state = "MMU_OK" THEN "BUS_OK" ELSE "BUS_DEVICE_FAILURE"
  <2>1. /\ MmuOK(m) /\ m.size = bus.mmu.size /\ m.size = RamSize
        /\ m.curr_vaddr = bus.mmu.curr_vaddr /\ m.perm = bus.mmu.perm
    BY <1>1, ReadIntoOK
  <2>2. /\ r \in {"READY", "ERROR"}
        /\ st \in {"BUS_OK", "BUS_ADDRESS_NOT_FOUND", "BUS_DEVICE_FAILURE"}
    OBVIOUS
  <2>3. BytesInv(m, d, w) /\ GrantedInv(m, g)
    BY <1>1, <2>1 DEF BytesInv, GrantedInv
  <2>4. c = [bus EXCEPT !.mmu = m, !.ram = r, !.status = st]
    BY <1>3 DEF BlockRead
  <2>5. c = BusWith(m, d, w, g, r, st, f)
    <3> HIDE DEF m, r, st, c
    <3> QED
      BY <2>4 DEF BusInv, BusWith
  <2> HIDE DEF m, r, st, c, d, w, g, f
  <2>6. BusInv(c) /\ c.mmu = m /\ c.data = d /\ c.wrote = w /\ c.granted = g
    BY <1>1, <2>1, <2>2, <2>3, <2>5, BusChanged
  <2> QED
    BY <2>1, <2>6 DEF SameMemory, c, d, w, g
<1> QED
  BY <1>2, <1>3

(* A change of the marks of a well-formed bus.                             *)
LEMMA Remarked ==
  ASSUME NEW b, BusInv(b), NEW f \in BOOLEAN,
         NEW st \in {"BUS_OK", "BUS_ADDRESS_NOT_FOUND", "BUS_DEVICE_FAILURE"}
  PROVE  /\ BusInv([b EXCEPT !.status = st])
         /\ BusInv([b EXCEPT !.status = st, !.free = f])
         /\ SameMemory(b, [b EXCEPT !.status = st])
         /\ SameMemory(b, [b EXCEPT !.status = st, !.free = f])
         /\ [b EXCEPT !.status = st].status = st
<1> DEFINE A == [0 .. RamSize - 1 -> Bytes]
           B == [0 .. RamSize - 1 -> Bytes \cup {Unwritten}]
           G == SUBSET (0 .. RamSize - 1)
           R == {"READY", "ERROR"}
           S == {"BUS_OK", "BUS_ADDRESS_NOT_FOUND", "BUS_DEVICE_FAILURE"}
           M == {b.mmu}
           c == [b EXCEPT !.status = st]
           d == [b EXCEPT !.status = st, !.free = f]
           T == [mmu : M, data : A, wrote : B, granted : G, ram : R, status : S,
                 free : BOOLEAN]
<1>1. b \in T /\ st \in S
  BY DEF BusInv
<1> HIDE DEF A, B, G, R, S, M
<1>2. /\ c \in T /\ c.mmu = b.mmu /\ c.data = b.data /\ c.wrote = b.wrote
      /\ c.granted = b.granted /\ c.status = st
  BY <1>1
<1>3. /\ d \in T /\ d.mmu = b.mmu /\ d.data = b.data /\ d.wrote = b.wrote
      /\ d.granted = b.granted
  BY <1>1
<1> HIDE DEF c, d
<1> USE DEF A, B, G, R, S, M
<1>4. BusInv(c)
  BY <1>2 DEF BusInv
<1>5. BusInv(d)
  BY <1>3 DEF BusInv
<1>6. SameMemory(b, c) /\ SameMemory(b, d)
  BY <1>2, <1>3 DEF SameMemory
<1> QED
  BY <1>2, <1>4, <1>5, <1>6 DEF c, d

(* bus_read_single and bus_write_single.                                   *)
LEMMA SingleOK ==
  ASSUME BusInv(bus), NEW v \in Nat, NEW b \in Bytes
  PROVE  /\ BusInv(SingleRead(v)) /\ SameMemory(bus, SingleRead(v))
         /\ BusInv(SingleWritten(v, b))
<1> DEFINE c == BlockRead(v, 1)
           s == <<b>>
           d == BlockWritten(v, s)
           f == TRUE
           st == "BUS_OK"
<1>1. BusInv(c) /\ SameMemory(bus, c)
  BY BlockReadOK
<1>2. s \in [1 .. 1 -> Bytes]
  OBVIOUS
<1> HIDE DEF s
<1>3. BusInv(d)
  BY <1>2, BlockWrittenOK
<1>4. f \in BOOLEAN /\ st \in {"BUS_OK", "BUS_ADDRESS_NOT_FOUND", "BUS_DEVICE_FAILURE"}
  OBVIOUS
<1> HIDE DEF c, d, f, st
<1>5. BusInv([c EXCEPT !.status = st]) /\ SameMemory(c, [c EXCEPT !.status = st])
  BY <1>1, <1>4, Remarked
<1>6. BusInv([d EXCEPT !.status = st, !.free = f])
  BY <1>3, <1>4, Remarked
<1>7. SameMemory(bus, [c EXCEPT !.status = st])
  BY <1>1, <1>5 DEF SameMemory
<1> QED
  BY <1>5, <1>6, <1>7 DEF SingleRead, SingleWritten, c, d, s, f, st

(* bus_read_string.                                                        *)
LEMMA StringReadOK ==
  ASSUME BusInv(bus), NEW v \in Nat, NEW k \in Nat \ {0}
  PROVE  BusInv(StringRead(v, k)) /\ SameMemory(bus, StringRead(v, k))
<1> DEFINE e == v + k - 1
           b == IF e \in BusAddresses THEN SingleRead(e)
                ELSE IF k > 1 THEN SingleRead(e - 1) ELSE bus
           st == IF e \in BusAddresses \cup CsrAddresses THEN "BUS_OK"
                 ELSE "BUS_ADDRESS_NOT_FOUND"
<1>1. e \in Nat /\ (k > 1 => e - 1 \in Nat)
  OBVIOUS
<1>2. PICK z \in Bytes : TRUE
  BY SyscallsAssumption
<1>3. SameMemory(bus, bus)
  BY DEF SameMemory
<1>4. BusInv(b) /\ SameMemory(bus, b)
  <2> HIDE DEF e
  <2>1. BusInv(SingleRead(e)) /\ SameMemory(bus, SingleRead(e))
    BY <1>1, <1>2, SingleOK
  <2>2. k > 1 => BusInv(SingleRead(e - 1)) /\ SameMemory(bus, SingleRead(e - 1))
    BY <1>1, <1>2, SingleOK
  <2> QED
    BY <1>3, <2>1, <2>2
<1>5. st \in {"BUS_OK", "BUS_ADDRESS_NOT_FOUND", "BUS_DEVICE_FAILURE"}
  OBVIOUS
<1>6. StringRead(v, k) = [b EXCEPT !.status = st]
  BY DEF StringRead
<1> HIDE DEF b, st
<1>7. TRUE \in BOOLEAN
  OBVIOUS
<1>8. BusInv([b EXCEPT !.status = st]) /\ SameMemory(b, [b EXCEPT !.status = st])
  BY <1>4, <1>5, <1>7, Remarked
<1> QED
  BY <1>4, <1>6, <1>8 DEF SameMemory

----------------------------------------------------------------------------
(* The bus after sys_brk handed out a block.                               *)
BusAfterBrk ==
  [bus EXCEPT
     !.mmu = Allocated(bus.mmu, BrkStep, FreshPerm),
     !.granted = @ \cup Span(bus.mmu.curr_vaddr, BrkStep),
     !.wrote = [i \in DOMAIN bus.wrote |->
                  IF i \in Span(bus.mmu.curr_vaddr, BrkStep)
                  THEN Unwritten ELSE bus.wrote[i]]]

(* The block is fresh memory above all that was handed out.                *)
LEMMA BrkOK ==
  ASSUME BusInv(bus), CanAllocate(bus.mmu, BrkStep)
  PROVE  /\ BusInv(BusAfterBrk)
         /\ BusAfterBrk.data = bus.data
         /\ \A i \in bus.granted : BusAfterBrk.mmu.perm[i] = bus.mmu.perm[i]
<1> DEFINE v == bus.mmu.curr_vaddr
           m == Allocated(bus.mmu, BrkStep, FreshPerm)
           d == bus.data
           w == [i \in DOMAIN bus.wrote |->
                   IF i \in Span(v, BrkStep) THEN Unwritten ELSE bus.wrote[i]]
           g == bus.granted \cup Span(v, BrkStep)
           r == bus.ram   st == bus.status   f == bus.free
           c == BusAfterBrk
<1>1. /\ MmuOK(bus.mmu) /\ bus.mmu.size = RamSize
      /\ v \in Nat /\ Base <= v
      /\ d \in [0 .. RamSize - 1 -> Bytes]
      /\ bus.wrote \in [0 .. RamSize - 1 -> Bytes \cup {Unwritten}]
      /\ bus.granted \subseteq 0 .. RamSize - 1
      /\ r \in {"READY", "ERROR"} /\ f \in BOOLEAN
      /\ st \in {"BUS_OK", "BUS_ADDRESS_NOT_FOUND", "BUS_DEVICE_FAILURE"}
      /\ BytesInv(bus.mmu, d, bus.wrote) /\ GrantedInv(bus.mmu, bus.granted)
  BY BusFields DEF BusInv
<1>2. FreshPerm \in SUBSET Flags
  BY DEF FreshPerm, Flags
<1>3. /\ MmuOK(m) /\ m.size = RamSize /\ v + BrkStep <= m.curr_vaddr
      /\ \A i \in 0 .. RamSize - 1 :
           m.perm[i] = IF i \in Span(v, BrkStep) THEN FreshPerm ELSE bus.mmu.perm[i]
  <2> DEFINE o == bus.mmu   n == BrkStep   p == FreshPerm   a == Allocated(o, n, p)
  <2>1. MmuOK(o) /\ o.size = RamSize /\ n \in Nat /\ p \in SUBSET Flags
        /\ CanAllocate(o, n)
    BY <1>1, <1>2, Numbers
  <2> HIDE DEF o, n, p
  <2>2. /\ MmuOK(a) /\ a.size = o.size /\ o.curr_vaddr + n <= a.curr_vaddr
        /\ \A i \in 0 .. o.size - 1 :
             a.perm[i] = IF i \in Span(o.curr_vaddr, n) THEN p ELSE o.perm[i]
    BY <2>1, AllocatedOK
  <2> QED
    BY <2>1, <2>2 DEF o, n, p
<1>4. c = [bus EXCEPT !.mmu = m, !.granted = g, !.wrote = w]
  BY DEF BusInv, BusAfterBrk
<1>5. w \in [0 .. RamSize - 1 -> Bytes \cup {Unwritten}]
      /\ \A i \in 0 .. RamSize - 1 : i \notin Span(v, BrkStep) => w[i] = bus.wrote[i]
  BY <1>1
<1> HIDE DEF v, m, d, w, r, st, f, c
<1>6. m.curr_vaddr \in Nat /\ m.curr_vaddr <= Base + RamSize
  BY <1>3 DEF MmuOK, End
<1>7. \A i \in Span(v, BrkStep) :
        i \in 0 .. RamSize - 1 /\ Base + i < m.curr_vaddr
  <2> SUFFICES ASSUME NEW i \in Span(v, BrkStep)
               PROVE  i \in 0 .. RamSize - 1 /\ Base + i < m.curr_vaddr
    OBVIOUS
  <2>1. /\ v \in Nat /\ Base <= v /\ v + BrkStep <= m.curr_vaddr
        /\ Base \in Nat /\ RamSize \in Nat /\ BrkStep \in Nat
    BY <1>1, <1>3, Numbers
  <2>2. i \in Int /\ v - Base <= i /\ i <= v - Base + BrkStep - 1
    BY <2>1 DEF Span
  <2> QED
    BY <1>6, <2>1, <2>2
<1>8. \A i \in bus.granted : Base + i < v
  BY <1>1 DEF GrantedInv, v
<1>9. GrantedInv(m, g) /\ g \in SUBSET (0 .. RamSize - 1)
  <2>1. \A i \in bus.granted : i \in 0 .. RamSize - 1 /\ Base + i < m.curr_vaddr
    BY <1>1, <1>3, <1>6, <1>8, Numbers
  <2> QED
    BY <1>7, <2>1 DEF GrantedInv
<1>10. BytesInv(m, d, w)
  BY <1>1, <1>3, <1>5 DEF BytesInv, FreshPerm
<1>11. c = BusWith(m, d, w, g, r, st, f)
  BY <1>4 DEF BusInv, BusWith, d, r, st, f
<1>12. \A i \in bus.granted : m.perm[i] = bus.mmu.perm[i]
  <2> SUFFICES ASSUME NEW i \in bus.granted
               PROVE  m.perm[i] = bus.mmu.perm[i]
    OBVIOUS
  <2>1. i \in 0 .. RamSize - 1 /\ i \notin Span(v, BrkStep)
    BY <1>1, <1>8, Numbers DEF Span
  <2> QED
    BY <1>3, <2>1
<1>13. BusInv(c) /\ c.mmu = m /\ c.data = d
  <2>1. /\ MmuOK(m) /\ m.size = RamSize
        /\ d \in [0 .. RamSize - 1 -> Bytes]
        /\ w \in [0 .. RamSize - 1 -> Bytes \cup {Unwritten}]
        /\ g \in SUBSET (0 .. RamSize - 1)
        /\ r \in {"READY", "ERROR"} /\ f \in BOOLEAN
        /\ st \in {"BUS_OK", "BUS_ADDRESS_NOT_FOUND", "BUS_DEVICE_FAILURE"}
        /\ BytesInv(m, d, w) /\ GrantedInv(m, g)
        /\ c = BusWith(m, d, w, g, r, st, f)
    BY <1>1, <1>3, <1>5, <1>9, <1>10, <1>11
  <2> HIDE DEF g
  <2> QED
    BY <2>1, BusChanged
<1> QED
  BY <1>12, <1>13 DEF c, d

(* What a read() of the host may deliver.                                  *)
LEMMA HostReadOK ==
  ASSUME files \in [Fds -> [open : BOOLEAN, path : Seq(Bytes), pos : Nat]],
         NEW fd \in Fds, NEW n \in Nat, NEW r \in HostRead(fd, n)
  PROVE  /\ r[1] \in Word
         /\ \/ r[1] = Error /\ r[2] = << >>
            \/ /\ r[1] # Error /\ r[1] = Len(r[2]) /\ r[1] \in 0 .. n
               /\ r[2] \in Seq(Bytes) /\ DOMAIN r[2] = 1 .. r[1]
<1> DEFINE all  == Contents(fd)
           p    == files[fd].pos
           most == IF n < MaxTransfer THEN n ELSE MaxTransfer
           rest == IF p >= Len(all) THEN << >> ELSE SubSeq(all, p + 1, Len(all))
           upto == IF Len(rest) < most THEN Len(rest) ELSE most
           some == IF ~files[fd].open THEN {}
                   ELSE IF Std(fd) THEN UNION {[1 .. k -> Bytes] : k \in 0 .. most}
                   ELSE {SubSeq(rest, 1, k) : k \in 0 .. upto}
<1>1. p \in Nat
  OBVIOUS
<1>2. most \in Nat /\ most <= n /\ most <= MaxTransfer /\ MaxTransfer < Error
      /\ MaxTransfer \in Nat /\ Error \in Word /\ WordMod \in Nat
  BY Numbers DEF Error
<1>3. all \in Seq(Bytes)
  <2>1. << >> \in Seq(Bytes)
    BY EmptySeq
  <2> QED
    BY <2>1, SyscallsAssumption DEF Contents
<1> HIDE DEF all, p, most
<1>4. rest \in Seq(Bytes)
  <2>1. CASE p >= Len(all)
    <3>1. << >> \in Seq(Bytes)
      BY EmptySeq
    <3> QED
      BY <2>1, <3>1
  <2>2. CASE ~(p >= Len(all))
    <3>1. Len(all) \in Nat /\ \A i \in 1 .. Len(all) : all[i] \in Bytes
      BY <1>3, LenProperties
    <3>2. p + 1 \in Int /\ Len(all) \in Int /\ \A i \in p + 1 .. Len(all) : all[i] \in Bytes
      BY <1>1, <3>1
    <3>3. SubSeq(all, p + 1, Len(all)) \in Seq(Bytes)
      BY <3>2, SubSeqProperties
    <3> QED
      BY <2>2, <3>3
  <2> QED
    BY <2>1, <2>2
<1> HIDE DEF rest
<1>5. \A bytes \in some :
        /\ bytes \in Seq(Bytes) /\ DOMAIN bytes = 1 .. Len(bytes)
        /\ Len(bytes) \in 0 .. most
  <2>1. ASSUME NEW k \in 0 .. most, NEW bytes \in [1 .. k -> Bytes]
        PROVE  bytes \in Seq(Bytes) /\ DOMAIN bytes = 1 .. Len(bytes)
               /\ Len(bytes) \in 0 .. most
    <3>1. k \in Nat
      BY <1>2
    <3>2. bytes \in Seq(Bytes) /\ Len(bytes) = k
      BY <3>1, Strings
    <3> QED
      BY <3>2
  <2>2. ASSUME NEW k \in 0 .. upto
        PROVE  LET bytes == SubSeq(rest, 1, k)
               IN  bytes \in Seq(Bytes) /\ DOMAIN bytes = 1 .. Len(bytes)
                   /\ Len(bytes) \in 0 .. most
    <3>1. Len(rest) \in Nat
      BY <1>4, LenProperties
    <3>2. k \in 0 .. Len(rest) /\ k \in 0 .. most
      BY <1>2, <3>1
    <3> HIDE DEF upto
    <3> QED
      BY <1>4, <3>2, Prefixes
  <2> HIDE DEF upto
  <2> QED
    BY <2>1, <2>2
<1>6. HostRead(fd, n) = {<<Len(bytes), bytes>> : bytes \in some} \cup {<<Error, << >>>>}
  BY DEF HostRead, all, p, most, rest
<1> HIDE DEF some
<1>7. CASE r = <<Error, << >>>>
  BY <1>2, <1>7
<1>8. ASSUME NEW bytes \in some, r = <<Len(bytes), bytes>>
      PROVE  /\ r[1] \in Word /\ r[1] # Error /\ r[1] = Len(r[2]) /\ r[1] \in 0 .. n
             /\ r[2] \in Seq(Bytes) /\ DOMAIN r[2] = 1 .. r[1]
  <2>1. r[1] = Len(bytes) /\ r[2] = bytes
    BY <1>8
  <2>2. /\ bytes \in Seq(Bytes) /\ DOMAIN bytes = 1 .. Len(bytes)
        /\ Len(bytes) \in 0 .. most
    BY <1>5
  <2> DEFINE k == Len(bytes)
  <2>3. k \in 0 .. n /\ k # Error /\ k \in Word
    <3>1. k \in 0 .. most
      BY <2>2
    <3>2. Error \in 0 .. WordMod - 1
      BY <1>2 DEF Word
    <3> HIDE DEF k
    <3> QED
      BY <1>2, <3>1, <3>2 DEF Word
  <2> QED
    BY <2>1, <2>2, <2>3
<1> QED
  BY <1>6, <1>7, <1>8

----------------------------------------------------------------------------
(* After elf_load the image can be read and ends at the pointer; nothing   *)
(* else can.                                                               *)
LEMMA LoadedOK ==
  LET n == Len(Image)
  IN  /\ n \in Nat /\ n <= RamSize
      /\ MmuOK(Loaded) /\ Loaded.size = RamSize /\ Loaded.curr_vaddr = Base + n
      /\ \A i \in 0 .. RamSize - 1 :
           Loaded.perm[i] = IF i < n THEN {"READ", "WRITE", "EXEC"} ELSE FreshPerm
<1> DEFINE n == Len(Image)
           p == {"READ", "WRITE", "EXEC"}
           m0 == MmuInit("MMU_OK")
           m1 == AddInside(m0, Base, n, FreshPerm)
           m2 == WriteFrom(m1, Base, n)
           m3 == SetPerm(m2, Base, n, p)
<1>1. n \in Nat /\ n <= RamSize
  <2>1. Image \in Seq(Bytes) /\ n <= RamSize
    BY SyscallsAssumption
  <2>2. n \in Nat
    BY <2>1, LenProperties
  <2> QED
    BY <2>1, <2>2
<1>2. /\ MmuOK(m0) /\ m0.size = RamSize
      /\ \A i \in 0 .. RamSize - 1 : m0.perm[i] = FreshPerm
  <2>1. "MMU_OK" \in MmuStates
    BY DEF MmuStates
  <2>2. MmuOK(m0)
    BY <2>1, InitOK
  <2> QED
    BY <2>2 DEF MmuInit
<1>3. FreshPerm \in SUBSET Flags /\ p \in SUBSET Flags
  BY DEF FreshPerm, Flags
<1>4. Base \in Nat /\ Base <= Base /\ RamSize \in Nat
  BY Numbers
<1>5. \A i \in 0 .. RamSize - 1 : i \in Span(Base, n) <=> i < n
  BY <1>1, <1>4 DEF Span
<1>6. Loaded = m3
  BY DEF Loaded
<1> HIDE DEF n, p, m0
<1>7. ~Extends(m0, Base, n)
  BY <1>1, <1>2, <1>4 DEF Extends, End
<1>8. /\ MmuOK(m1) /\ m1.size = m0.size /\ m1.curr_vaddr = Base + n
      /\ \A i \in 0 .. m0.size - 1 :
           m1.perm[i] = IF i \in Span(Base, n) THEN FreshPerm ELSE m0.perm[i]
  BY <1>1, <1>2, <1>3, <1>4, <1>7, AddInsideOK
<1> HIDE DEF m1
<1>9. /\ MmuOK(m2) /\ m2.size = m1.size /\ m2.curr_vaddr = m1.curr_vaddr
      /\ \A i \in 0 .. m1.size - 1 :
           i \notin Span(Base, n) => m2.perm[i] = m1.perm[i]
  BY <1>1, <1>4, <1>8, WriteFromOK
<1> HIDE DEF m2
<1>10. /\ MmuOK(m3) /\ m3.size = m2.size /\ m3.curr_vaddr = m2.curr_vaddr
       /\ \A i \in 0 .. m2.size - 1 :
            m3.perm[i] = IF i \in Span(Base, n) THEN p ELSE m2.perm[i]
  <2>1. MmuOK(m2) /\ Base \in Nat /\ n \in Nat /\ p \in SUBSET Flags
    BY <1>1, <1>3, <1>4, <1>9
  <2> QED
    BY <2>1, SetPermOK
<1> HIDE DEF m3
<1>11. \A i \in 0 .. RamSize - 1 : Loaded.perm[i] = IF i < n THEN p ELSE FreshPerm
  BY <1>2, <1>5, <1>6, <1>8, <1>9, <1>10
<1>12. MmuOK(Loaded) /\ Loaded.size = RamSize /\ Loaded.curr_vaddr = Base + n
  BY <1>2, <1>6, <1>8, <1>9, <1>10
<1> QED
  BY <1>1, <1>11, <1>12 DEF n, p

(* The system calls start from a well-formed bus, with a stack if there is *)
(* room for one.                                                           *)
LEMMA InitBus == ASSUME Init PROVE BusInv(bus)
<1> DEFINE n == Len(Image)
           can == CanAllocate(Loaded, StackSize)
           m == IF can THEN Allocated(Loaded, StackSize, FreshPerm) ELSE Loaded
           d == [i \in 0 .. RamSize - 1 |-> IF i < n THEN Image[i + 1] ELSE 0]
           w == [i \in 0 .. RamSize - 1 |-> IF i < n THEN Image[i + 1] ELSE Unwritten]
           g == (0 .. n - 1) \cup (IF can THEN Span(Loaded.curr_vaddr, StackSize) ELSE {})
<1>1. bus = [mmu |-> m, data |-> d, wrote |-> w, granted |-> g, ram |-> "READY",
             status |-> "BUS_OK", free |-> TRUE]
  BY DEF Init
<1>2. /\ n \in Nat /\ n <= RamSize
      /\ MmuOK(Loaded) /\ Loaded.size = RamSize /\ Loaded.curr_vaddr = Base + n
      /\ \A i \in 0 .. RamSize - 1 :
           Loaded.perm[i] = IF i < n THEN {"READ", "WRITE", "EXEC"} ELSE FreshPerm
  BY LoadedOK
<1>3. \A i \in 0 .. n - 1 : Image[i + 1] \in Bytes
  <2>1. Image \in Seq(Bytes)
    BY SyscallsAssumption
  <2>2. \A j \in 1 .. n : Image[j] \in Bytes
    BY <2>1, LenProperties
  <2> QED
    BY <1>2, <2>2
<1>4. d \in [0 .. RamSize - 1 -> Bytes]
  BY <1>2, <1>3, SyscallsAssumption
<1>5. w \in [0 .. RamSize - 1 -> Bytes \cup {Unwritten}]
  BY <1>2, <1>3
<1>6. \A i \in 0 .. RamSize - 1 : i < n => d[i] = w[i]
  OBVIOUS
<1>7. StackSize \in Nat /\ Base \in Nat /\ RamSize \in Nat
  BY Numbers
<1>8. /\ MmuOK(m) /\ m.size = RamSize
      /\ \A i \in 0 .. RamSize - 1 :
           m.perm[i] = Loaded.perm[i] \/ m.perm[i] = FreshPerm
      /\ Base + n <= m.curr_vaddr
      /\ can => Base + n + StackSize <= m.curr_vaddr
  <2>1. FreshPerm \in SUBSET Flags
    BY DEF FreshPerm, Flags
  <2> DEFINE o == Loaded
             a == Allocated(o, StackSize, FreshPerm)
  <2>2. ASSUME can
        PROVE  /\ MmuOK(a) /\ a.size = o.size /\ o.curr_vaddr + StackSize <= a.curr_vaddr
               /\ \A i \in 0 .. o.size - 1 :
                    a.perm[i] = IF i \in Span(o.curr_vaddr, StackSize) THEN FreshPerm
                                ELSE o.perm[i]
    <3>1. MmuOK(o) /\ CanAllocate(o, StackSize)
      BY <1>2, <2>2
    <3> HIDE DEF o
    <3> QED
      BY <1>7, <2>1, <3>1, AllocatedOK
  <2>3. CASE can
    <3>1. m = a
      BY <2>3
    <3>2. a.curr_vaddr \in Nat
      BY <2>2, <2>3 DEF MmuOK
    <3> HIDE DEF m, a, can
    <3> QED
      BY <1>2, <1>7, <2>2, <2>3, <3>1, <3>2
  <2>4. CASE ~can
    BY <1>2, <1>7, <2>4
  <2> QED
    BY <2>3, <2>4
<1>9. m.curr_vaddr \in Nat /\ m.curr_vaddr <= Base + RamSize
  <2> HIDE DEF m
  <2> QED
    BY <1>8 DEF MmuOK, End
<1> HIDE DEF m, d, w, can
<1>10. \A i \in g : i \in 0 .. RamSize - 1 /\ Base + i < m.curr_vaddr
  <2> SUFFICES ASSUME NEW i \in g
               PROVE  i \in 0 .. RamSize - 1 /\ Base + i < m.curr_vaddr
    OBVIOUS
  <2>1. CASE i \in 0 .. n - 1
    BY <1>2, <1>7, <1>8, <1>9, <2>1
  <2>2. CASE can /\ i \in Span(Loaded.curr_vaddr, StackSize)
    <3>1. i \in n .. n + StackSize - 1
      BY <1>2, <1>7, <2>2 DEF Span
    <3> QED
      BY <1>2, <1>7, <1>8, <1>9, <2>2, <3>1
  <2> QED
    BY <2>1, <2>2
<1>11. GrantedInv(m, g) /\ g \in SUBSET (0 .. RamSize - 1)
  BY <1>10 DEF GrantedInv
<1>12. BytesInv(m, d, w)
  <2> SUFFICES ASSUME NEW i \in 0 .. RamSize - 1
               PROVE  /\ "WRITE" \in m.perm[i] =>
                           "READ" \in m.perm[i] \/ "RAW" \in m.perm[i]
                      /\ "READ" \in m.perm[i] => d[i] = w[i]
    BY DEF BytesInv
  <2>1. CASE m.perm[i] = FreshPerm
    BY <2>1 DEF FreshPerm
  <2>2. CASE i < n /\ m.perm[i] = {"READ", "WRITE", "EXEC"}
    BY <1>6, <2>2
  <2> QED
    BY <1>2, <1>8, <2>1, <2>2
<1> HIDE DEF g
<1>13. /\ bus \in [mmu : {m}, data : [0 .. RamSize - 1 -> Bytes],
                   wrote : [0 .. RamSize - 1 -> Bytes \cup {Unwritten}],
                   granted : SUBSET (0 .. RamSize - 1), ram : {"READY", "ERROR"},
                   status : {"BUS_OK", "BUS_ADDRESS_NOT_FOUND", "BUS_DEVICE_FAILURE"},
                   free : BOOLEAN]
       /\ bus.mmu = m /\ bus.data = d /\ bus.wrote = w /\ bus.granted = g
  BY <1>1, <1>4, <1>5, <1>11
<1> QED
  BY <1>8, <1>11, <1>12, <1>13 DEF BusInv

(* emulator_init leaves the standard streams open and nothing else.        *)
LEMMA InitOthers == ASSUME Init PROVE FilesInv /\ CallInv /\ outcome = "running"
<1>1. << >> \in Seq(Bytes)
  BY EmptySeq
<1>2. 0 % WordMod = 0 /\ 0 \in Word
  BY ZeroReported, Numbers
<1>3. \A fd \in Fds : files[fd] = [open |-> Std(fd), path |-> << >>, pos |-> 0]
  BY DEF Init, Closed
<1>4. \A fd \in Fds : Std(fd) \in BOOLEAN
  BY DEF Std
<1>5. files \in [Fds -> [open : BOOLEAN, path : Seq(Bytes), pos : Nat]]
  <2> DEFINE F == [open : BOOLEAN, path : Seq(Bytes), pos : Nat]
  <2>1. \A fd \in Fds : [open |-> Std(fd), path |-> << >>, pos |-> 0] \in F
    BY <1>1, <1>4
  <2>2. files = [fd \in Fds |-> files[fd]]
    BY DEF Init
  <2>3. \A fd \in Fds : files[fd] \in F
    BY <1>3, <2>1
  <2> HIDE DEF F
  <2>4. files \in [Fds -> F]
    BY <2>2, <2>3
  <2> QED
    BY <2>4 DEF F
<1>6. told \in [Fds -> Word] /\ \A fd \in Fds : told[fd] = 0
  BY <1>2 DEF Init
<1>7. StdStreamsOpen
  <2> SUFFICES ASSUME NEW fd \in Fds, Std(fd)
               PROVE  files[fd] = [Closed EXCEPT !.open = TRUE]
    BY DEF StdStreamsOpen
  <2>1. Std(fd) = TRUE
    BY <1>4
  <2>2. files[fd] = [Closed EXCEPT !.open = Std(fd)]
    BY DEF Init
  <2> QED
    BY <2>1, <2>2, Zenon
<1>11. \A fd \in Fds : files[fd].pos = 0
  <2>1. \A b \in BOOLEAN : [open |-> b, path |-> << >>, pos |-> 0].pos = 0
    OBVIOUS
  <2> QED
    BY <1>3, <1>4, <2>1, Zenon
<1>8. PositionAsReported
  BY <1>11, <1>2, <1>3, <1>6 DEF PositionAsReported
<1>9. call.ret = 0 /\ call.name = "none" /\ outcome = "running"
  BY DEF Init, NoCall
<1>10. CallInv
  BY <1>2, <1>9 DEF CallInv, ReadDelivers, OutputIsGuests, PathIsGuests
<1> QED
  BY <1>5, <1>6, <1>7, <1>8, <1>9, <1>10 DEF FilesInv

----------------------------------------------------------------------------
(* Every argument of the guest fits a register; descriptors exist.         *)
LEMMA NextCases ==
  ASSUME Next
  PROVE  \/ \E v \in Nat, b \in Bytes : Load(v) \/ Store(v, b)
         \/ \E fd \in Fds, v \in Word, n \in Word : sys_read(fd, v, n) \/ sys_write(fd, v, n)
         \/ \E fd \in Fds, v \in Word : sys_fstat(fd, v)
         \/ \E fd \in Fds : sys_close(fd)
         \/ \E v \in Word : sys_open(v)
         \/ \E fd \in Fds, offset \in Nat, whence \in 0 .. 2 : sys_lseek(fd, offset, whence)
         \/ \E arg0 \in Word : sys_brk(arg0)
         \/ \E how \in {"died", "exited", "overrun"} : Running /\ Ends(how)
         \/ Resume
<1>1. /\ Addresses \subseteq Word /\ Sizes \subseteq Word /\ Offsets \subseteq Word
      /\ Descriptors \subseteq Fds /\ Word \subseteq Nat /\ 0 \in Word /\ 0 \in Bytes
  BY Numbers, SyscallsAssumption DEF Word
<1>2. CASE \E v \in Addresses \cap BusAddresses : Load(v) \/ \E b \in Bytes : Store(v, b)
  BY <1>1, <1>2
<1>3. CASE Resume
  BY <1>3
<1>4. CASE handle_syscall
  <2>1. ASSUME NEW fd \in Descriptors, NEW v \in Addresses,
               (\E n \in Sizes : sys_read(fd, v, n) \/ sys_write(fd, v, n))
                 \/ sys_fstat(fd, v)
        PROVE  \/ \E g \in Fds, x \in Word, n \in Word : sys_read(g, x, n) \/ sys_write(g, x, n)
               \/ \E g \in Fds, x \in Word : sys_fstat(g, x)
    BY <1>1, <2>1
  <2>2. ASSUME NEW fd \in Descriptors, NEW n \in Sizes, WriteAsserts(fd, n)
        PROVE  \E how \in {"died", "exited", "overrun"} : Running /\ Ends(how)
    BY <2>2 DEF WriteAsserts
  <2>3. ASSUME NEW v \in Addresses, NEW n \in Sizes, ReadWithoutBuffer(v, n)
        PROVE  \E how \in {"died", "exited", "overrun"} : Running /\ Ends(how)
    BY <2>3 DEF ReadWithoutBuffer
  <2>4. ASSUME NEW v \in Addresses, TransferDies(v) \/ OpenOverruns(v)
        PROVE  \E how \in {"died", "exited", "overrun"} : Running /\ Ends(how)
    BY <2>4 DEF TransferDies, OpenOverruns
  <2>5. ASSUME Exits
        PROVE  \E how \in {"died", "exited", "overrun"} : Running /\ Ends(how)
    BY <2>5 DEF Exits
  <2>6. ASSUME NEW fd \in Descriptors, NEW offset \in Offsets, NEW whence \in 0 .. 2,
               sys_lseek(fd, offset, whence)
        PROVE  \E g \in Fds, o \in Nat, w \in 0 .. 2 : sys_lseek(g, o, w)
    <3>1. fd \in Fds /\ offset \in Nat
      BY <1>1
    <3> QED
      BY <2>6, <3>1
  <2>7. ASSUME NEW fd \in Descriptors, sys_close(fd)
        PROVE  \E g \in Fds : sys_close(g)
    BY <1>1, <2>7
  <2>8. ASSUME NEW v \in Addresses, sys_open(v) \/ sys_brk(v)
        PROVE  (\E x \in Word : sys_open(x)) \/ (\E arg0 \in Word : sys_brk(arg0))
    BY <1>1, <2>8
  <2>9. ASSUME sys_brk(0)
        PROVE  \E arg0 \in Word : sys_brk(arg0)
    BY <1>1, <2>9
  <2> QED
    BY <1>4, <2>1, <2>2, <2>3, <2>4, <2>5, <2>6, <2>7, <2>8, <2>9 DEF handle_syscall
<1> QED
  BY <1>2, <1>3, <1>4 DEF Next

(* What a step that makes a call keeps of the guest's memory.              *)
GuestStep ==
  \A i \in bus.granted :
    "READ" \in bus.mmu.perm[i] =>
      /\ "READ" \in bus'.mmu.perm[i]
      /\ \/ bus'.data[i] = bus.data[i]
         \/ /\ call'.name \in {"read", "fstat"}
            /\ i \in Span(call'.buf, call'.size)

(* A call whose result is a register, and which neither reads, writes nor  *)
(* opens, keeps what is said of calls.                                     *)
LEMMA PlainCall ==
  ASSUME call'.ret \in Word, call'.name \notin {"read", "write", "open"}
  PROVE  CallInv'
BY DEF CallInv, ReadDelivers, OutputIsGuests, PathIsGuests

(* What Returns says, field by field.                                      *)
LEMMA ReturnsFields ==
  ASSUME NEW name, NEW ret, NEW buf, NEW size, NEW bytes,
         Returns(name, ret, buf, size, bytes)
  PROVE  /\ call'.name = name /\ call'.ret = ret /\ call'.buf = buf
         /\ call'.size = size /\ call'.bytes = bytes
         /\ outcome' = outcome
BY DEF Returns

(* Descriptors no call touched.                                            *)
LEMMA FilesKept ==
  ASSUME FilesInv, UNCHANGED <<files, told>>
  PROVE  FilesInv'
BY DEF FilesInv, StdStreamsOpen, PositionAsReported

(* The same memory in the bus.                                             *)
LEMMA MemoryKept ==
  ASSUME BusInv(bus), SameMemory(bus, bus')
  PROVE  GuestStep
BY BusFields DEF SameMemory, GuestStep

(* A transfer to the buffer a call names.                                  *)
LEMMA BufferWritten ==
  ASSUME BusInv(bus), NEW v \in Nat, NEW n \in Nat, KeptBut(bus, bus', v, n),
         call'.name \in {"read", "fstat"}, call'.buf = v, call'.size = n
  PROVE  GuestStep
BY BusFields DEF KeptBut, GuestStep

----------------------------------------------------------------------------
(* The guest's own loads and stores, and the end of a trap.                *)
LEMMA GuestSafe ==
  ASSUME SysInv, NEW v \in Nat, NEW b \in Bytes, Load(v) \/ Store(v, b) \/ Resume
  PROVE  SysInv' /\ call'.name = "none"
<1>1. BusInv(bus')
  <2>1. BusInv(bus)
    BY DEF SysInv
  <2>2. BusInv(SingleRead(v)) /\ BusInv(SingleWritten(v, b))
    BY <2>1, SingleOK
  <2>3. bus' = SingleRead(v) \/ bus' = SingleWritten(v, b) \/ bus' = bus
    BY DEF Load, Store, Resume
  <2> QED
    BY <2>1, <2>2, <2>3
<1>2. call' = NoCall /\ UNCHANGED <<files, told, outcome>>
  BY DEF Load, Store, Resume, Running
<1>3. call'.name = "none" /\ call'.ret = 0
  BY <1>2 DEF NoCall
<1>4. CallInv'
  BY <1>3, PlainCall, Numbers
<1>5. FilesInv'
  BY <1>2, FilesKept DEF SysInv
<1> QED
  BY <1>1, <1>2, <1>3, <1>4, <1>5 DEF SysInv

(* The ends of the run.                                                    *)
LEMMA EndsSafe ==
  ASSUME SysInv, NEW how \in {"died", "exited", "overrun"}, Running, Ends(how)
  PROVE  SysInv' /\ call'.name = "none"
<1>1. bus' = bus /\ UNCHANGED <<files, told>> /\ call' = NoCall /\ outcome' = how
  BY DEF Ends, Running
<1>2. call'.name = "none" /\ call'.ret = 0
  BY <1>1 DEF NoCall
<1>3. CallInv'
  BY <1>2, PlainCall, Numbers
<1>4. FilesInv'
  BY <1>1, FilesKept DEF SysInv
<1> QED
  BY <1>1, <1>2, <1>3, <1>4 DEF SysInv

(* A descriptor that is not a standard stream takes a new position, which  *)
(* its guest is told.                                                      *)
LEMMA PositionMoves ==
  ASSUME FilesInv, NEW fd \in Fds, ~Std(fd), NEW pos \in Nat,
         files' = [files EXCEPT ![fd].pos = pos],
         told' = [told EXCEPT ![fd] = pos % WordMod]
  PROVE  FilesInv'
<1> DEFINE F == [open : BOOLEAN, path : Seq(Bytes), pos : Nat]
           f == files[fd]
           g == [f EXCEPT !.pos = pos]
<1>1. files \in [Fds -> F] /\ told \in [Fds -> Word]
  BY DEF FilesInv
<1>2. f \in F /\ g \in F /\ g.pos = pos
  BY <1>1
<1>3. files' = [files EXCEPT ![fd] = g]
  OBVIOUS
<1>4. pos % WordMod \in Word
  BY Division DEF Word
<1> HIDE DEF F, g, f
<1>5. files' \in [Fds -> F] /\ files'[fd] = g
      /\ \A h \in Fds : h # fd => files'[h] = files[h]
  BY <1>1, <1>2, <1>3
<1>6. told' \in [Fds -> Word] /\ told'[fd] = pos % WordMod
      /\ \A h \in Fds : h # fd => told'[h] = told[h]
  BY <1>1, <1>4
<1>7. StdStreamsOpen'
  BY <1>5 DEF FilesInv, StdStreamsOpen, Std
<1>8. PositionAsReported'
  BY <1>2, <1>5, <1>6 DEF FilesInv, PositionAsReported
<1> QED
  BY <1>5, <1>6, <1>7, <1>8 DEF FilesInv, F

(* A descriptor that is not a standard stream is opened or closed.         *)
LEMMA DescriptorReplaced ==
  ASSUME FilesInv, NEW fd \in Fds, ~Std(fd),
         NEW f \in [open : BOOLEAN, path : Seq(Bytes), pos : Nat], f.pos = 0,
         files' = [files EXCEPT ![fd] = f], told' = [told EXCEPT ![fd] = 0]
  PROVE  FilesInv'
<1> DEFINE F == [open : BOOLEAN, path : Seq(Bytes), pos : Nat]
<1>1. files \in [Fds -> F] /\ told \in [Fds -> Word] /\ f \in F /\ 0 \in Word
  BY Numbers DEF FilesInv
<1>2. 0 % WordMod = 0
  BY ZeroReported
<1> HIDE DEF F
<1>3. files' \in [Fds -> F] /\ files'[fd] = f
      /\ \A h \in Fds : h # fd => files'[h] = files[h]
  BY <1>1
<1>4. told' \in [Fds -> Word] /\ told'[fd] = 0
      /\ \A h \in Fds : h # fd => told'[h] = told[h]
  BY <1>1
<1>5. StdStreamsOpen'
  BY <1>3 DEF FilesInv, StdStreamsOpen, Std
<1>6. PositionAsReported'
  BY <1>2, <1>3, <1>4 DEF FilesInv, PositionAsReported
<1> QED
  BY <1>3, <1>4, <1>5, <1>6 DEF FilesInv, F

(* sys_read: what arrives is what is reported.                             *)
LEMMA ReadSafe ==
  ASSUME SysInv, NEW fd \in Fds, NEW v \in Word, NEW n \in Word, sys_read(fd, v, n)
  PROVE  SysInv' /\ GuestStep
<1>1. v \in Nat /\ n \in Nat
  BY Numbers DEF Word
<1>2. PICK r \in HostRead(fd, n) :
        /\ \E mem \in Filled(r[2], n) : bus' = BlockWritten(v, mem)
        /\ Returns("read", ReadResult(r, n), v, n, r[2])
        /\ IF Std(fd) THEN UNCHANGED <<files, told>>
           ELSE /\ files' = [files EXCEPT ![fd].pos = @ + Len(r[2])]
                /\ told' = [told EXCEPT ![fd] =
                              IF call'.ret = Error THEN @ ELSE (@ + call'.ret) % WordMod]
  BY DEF sys_read
<1>3. PICK mem \in Filled(r[2], n) : bus' = BlockWritten(v, mem)
  BY <1>2
<1>4. mem \in [1 .. n -> Bytes] /\ \A j \in DOMAIN r[2] : mem[j] = r[2][j]
  BY DEF Filled
<1>5. /\ files \in [Fds -> [open : BOOLEAN, path : Seq(Bytes), pos : Nat]]
      /\ FilesInv /\ BusInv(bus)
  BY DEF SysInv, FilesInv
<1>6. /\ r[1] \in Word
      /\ \/ r[1] = Error /\ r[2] = << >>
         \/ /\ r[1] # Error /\ r[1] = Len(r[2]) /\ r[1] \in 0 .. n
            /\ r[2] \in Seq(Bytes) /\ DOMAIN r[2] = 1 .. r[1]
  BY <1>1, <1>5, HostReadOK
<1>7. /\ call'.name = "read" /\ call'.ret = r[1] /\ call'.buf = v /\ call'.size = n
      /\ call'.bytes = r[2] /\ outcome' = outcome
  <2>1. Returns("read", r[1], v, n, r[2])
    BY <1>2 DEF ReadResult
  <2> QED
    BY <2>1, ReturnsFields
<1>8. /\ BusInv(bus') /\ KeptBut(bus, bus', v, n)
      /\ bus'.free /\ v \in BusAddresses => HeldAt(bus', v, mem, n)
  BY <1>1, <1>3, <1>4, <1>5, BlockWrittenOK
<1>9. FilesInv'
  <2>1. CASE Std(fd)
    BY <1>2, <1>5, <2>1, FilesKept
  <2>2. CASE ~Std(fd)
    <3> DEFINE k == Len(r[2])   p == files[fd].pos   q == p + k
    <3>1. k \in Nat /\ p \in Nat /\ (r[1] # Error => r[1] = k) /\ (r[1] = Error => k = 0)
      BY <1>1, <1>5, <1>6, EmptySeq
    <3>2. files' = [files EXCEPT ![fd].pos = q]
      BY <1>2, <2>2
    <3>3. told[fd] = p % WordMod
      BY <1>5 DEF FilesInv, PositionAsReported
    <3> DEFINE t == IF r[1] = Error THEN told[fd] ELSE (told[fd] + r[1]) % WordMod
    <3>4. told' = [told EXCEPT ![fd] = t]
      BY <1>2, <1>7, <2>2
    <3>5. ((p % WordMod) + k) % WordMod = q % WordMod
      BY <3>1, RemainderAdvances
    <3>6. t = q % WordMod
      <4>1. CASE r[1] = Error
        <5>1. q = p
          BY <3>1, <4>1
        <5> QED
          BY <3>3, <4>1, <5>1
      <4>2. CASE r[1] # Error
        <5>1. t = ((p % WordMod) + k) % WordMod
          BY <3>1, <3>3, <4>2
        <5> QED
          BY <3>5, <5>1
      <4> QED
        BY <4>1, <4>2
    <3>7. q \in Nat
      BY <3>1
    <3> HIDE DEF k, p, q, t
    <3>8. told' = [told EXCEPT ![fd] = q % WordMod]
      BY <3>4, <3>6
    <3> QED
      BY <1>5, <2>2, <3>2, <3>7, <3>8, PositionMoves
  <2> QED
    BY <2>1, <2>2
<1>10. ReadDelivers'
  <2> SUFFICES ASSUME bus'.free, r[1] # Error, v \in BusAddresses, NEW j \in 1 .. r[1]
               PROVE  LET i == v - Base + j - 1
                      IN  /\ "READ" \in bus'.mmu.perm[i]
                          /\ j <= Len(r[2]) /\ bus'.data[i] = r[2][j]
    BY <1>7 DEF ReadDelivers, Alive
  <2>1. r[1] = Len(r[2]) /\ r[1] \in 0 .. n /\ j \in DOMAIN r[2]
    BY <1>6
  <2>2. j \in 1 .. n /\ j <= Len(r[2])
    BY <1>1, <2>1
  <2>3. HeldAt(bus', v, mem, n)
    BY <1>8
  <2>4. mem[j] = r[2][j]
    BY <1>4, <2>1
  <2> QED
    BY <2>2, <2>3, <2>4 DEF HeldAt
<1>11. CallInv'
  BY <1>6, <1>7, <1>10 DEF CallInv, OutputIsGuests, PathIsGuests
<1>12. GuestStep
  BY <1>1, <1>5, <1>7, <1>8, BufferWritten
<1> QED
  BY <1>7, <1>8, <1>9, <1>11, <1>12 DEF SysInv

(* What bus_read_multiple leaves in the buffer of sys_write.               *)
LEMMA BufferRead ==
  ASSUME BusInv(bus), NEW v \in Nat, NEW n \in Nat, NEW buf \in BufferAfterRead(v, n)
  PROVE  /\ buf \in Seq(Bytes) /\ Len(buf) = n
         /\ v \in BusAddresses /\ ReadOK(bus.mmu, v, n) =>
              \A j \in 1 .. n : buf[j] = bus.wrote[v - Base + j - 1]
<1>1. /\ MmuOK(bus.mmu) /\ bus.mmu.size = RamSize
      /\ bus.data \in [0 .. RamSize - 1 -> Bytes]
      /\ BytesInv(bus.mmu, bus.data, bus.wrote)
  BY BusFields DEF BusInv
<1>2. CASE v \in BusAddresses /\ ReadOK(bus.mmu, v, n)
  <2>1. ASSUME NEW j \in 1 .. n
        PROVE  /\ v - Base + j - 1 \in Span(v, n)
               /\ v - Base + j - 1 \in 0 .. RamSize - 1
    BY <1>1, <1>2, Numbers DEF ReadOK, InRange, End, Span
  <2>2. buf = [j \in 1 .. n |-> bus.data[v - Base + j - 1]]
    BY <1>2 DEF BufferAfterRead, DataAt
  <2>3. buf \in [1 .. n -> Bytes]
    BY <1>1, <2>1, <2>2
  <2>4. ASSUME NEW j \in 1 .. n
        PROVE  buf[j] = bus.wrote[v - Base + j - 1]
    <3> DEFINE i == v - Base + j - 1
    <3>1. i \in Span(v, n) /\ i \in 0 .. RamSize - 1
      BY <2>1
    <3>2. buf[j] = bus.data[i]
      BY <2>2
    <3> HIDE DEF i
    <3>3. "READ" \in bus.mmu.perm[i]
      BY <1>2, <3>1 DEF ReadOK, CheckAccess
    <3>4. bus.data[i] = bus.wrote[i]
      BY <1>1, <3>1, <3>3 DEF BytesInv
    <3> QED
      BY <3>2, <3>4 DEF i
  <2> QED
    BY <2>3, <2>4, Strings
<1>3. CASE ~(v \in BusAddresses /\ ReadOK(bus.mmu, v, n))
  <2>1. buf \in [1 .. n -> Bytes]
    BY <1>3 DEF BufferAfterRead
  <2> QED
    BY <1>3, <2>1, Strings
<1> QED
  BY <1>2, <1>3

(* sys_write: what leaves was written by the guest.                        *)
LEMMA WriteSafe ==
  ASSUME SysInv, NEW fd \in Fds, NEW v \in Word, NEW n \in Word, sys_write(fd, v, n)
  PROVE  SysInv' /\ GuestStep
<1>1. v \in Nat /\ n \in Nat /\ n <= BufSize
  BY Numbers DEF Word, sys_write
<1>2. PICK buf \in BufferAfterRead(v, n) :
        \/ \E k \in 0 .. n : Returns("write", k, v, n, SubSeq(buf, 1, k))
        \/ Returns("write", Error, v, n, << >>)
  BY DEF sys_write
<1>3. bus' = BlockRead(v, n) /\ UNCHANGED <<files, told>>
  BY DEF sys_write
<1>4. BusInv(bus) /\ FilesInv
  BY DEF SysInv
<1>5. BusInv(bus') /\ SameMemory(bus, bus')
  BY <1>1, <1>3, <1>4, BlockReadOK
<1>6. /\ buf \in Seq(Bytes) /\ Len(buf) = n
      /\ v \in BusAddresses /\ ReadOK(bus.mmu, v, n) =>
           \A j \in 1 .. n : buf[j] = bus.wrote[v - Base + j - 1]
  BY <1>1, <1>4, BufferRead
<1>7. /\ call'.name = "write" /\ call'.buf = v /\ call'.size = n
      /\ call'.ret \in Word /\ outcome' = outcome
      /\ DOMAIN call'.bytes \subseteq 1 .. n
      /\ \A j \in DOMAIN call'.bytes : call'.bytes[j] = buf[j]
  <2>1. ASSUME NEW k \in 0 .. n, Returns("write", k, v, n, SubSeq(buf, 1, k))
        PROVE  <1>7
    <3> DEFINE t == SubSeq(buf, 1, k)
    <3>1. /\ call'.name = "write" /\ call'.ret = k /\ call'.buf = v
          /\ call'.size = n /\ call'.bytes = t /\ outcome' = outcome
      BY <2>1, ReturnsFields
    <3>2. k \in Word
      BY <1>1, Numbers DEF Word
    <3>3. DOMAIN t = 1 .. k /\ \A j \in 1 .. k : t[j] = buf[j]
      BY <1>6, Prefixes
    <3> HIDE DEF t
    <3>4. 1 .. k \subseteq 1 .. n
      BY <1>1
    <3> QED
      BY <3>1, <3>2, <3>3, <3>4
  <2>2. ASSUME Returns("write", Error, v, n, << >>)
        PROVE  <1>7
    <3>1. /\ call'.name = "write" /\ call'.ret = Error /\ call'.buf = v
          /\ call'.size = n /\ call'.bytes = << >> /\ outcome' = outcome
      BY <2>2, ReturnsFields
    <3>2. DOMAIN << >> = {}
      OBVIOUS
    <3> QED
      BY <3>1, <3>2, Numbers
  <2> QED
    BY <1>2, <2>1, <2>2
<1>8. OutputIsGuests'
  <2> SUFFICES ASSUME v \in BusAddresses, ReadOK(bus'.mmu, v, n),
                      NEW j \in DOMAIN call'.bytes
               PROVE  call'.bytes[j] = bus'.wrote[v - Base + j - 1]
    BY <1>7 DEF OutputIsGuests
  <2>1. ReadOK(bus.mmu, v, n)
    BY <1>5 DEF SameMemory, ReadOK, InRange, CheckAccess, End
  <2>2. bus'.wrote = bus.wrote /\ j \in 1 .. n /\ call'.bytes[j] = buf[j]
    BY <1>5, <1>7 DEF SameMemory
  <2> QED
    BY <1>6, <2>1, <2>2
<1>9. CallInv'
  BY <1>1, <1>7, <1>8 DEF CallInv, ReadDelivers, PathIsGuests
<1>10. FilesInv'
  BY <1>3, <1>4, FilesKept
<1>11. GuestStep
  BY <1>4, <1>5, MemoryKept
<1> QED
  BY <1>5, <1>7, <1>9, <1>10, <1>11 DEF SysInv

(* sys_fstat.                                                              *)
LEMMA FstatSafe ==
  ASSUME SysInv, NEW fd \in Fds, NEW v \in Word, sys_fstat(fd, v)
  PROVE  SysInv' /\ GuestStep
<1>1. v \in Nat /\ StatSize \in Nat
  BY Numbers DEF Word
<1>2. PICK mem \in [1 .. StatSize -> Bytes] :
        /\ bus' = BlockWritten(v, mem)
        /\ Returns("fstat", IF files[fd].open THEN 0 ELSE Error, v, StatSize, << >>)
  BY DEF sys_fstat
<1>3. BusInv(bus) /\ FilesInv /\ UNCHANGED <<files, told>>
  BY DEF SysInv, sys_fstat
<1>4. /\ call'.name = "fstat" /\ call'.ret \in {0, Error} /\ call'.buf = v
      /\ call'.size = StatSize /\ outcome' = outcome
  BY <1>2, ReturnsFields
<1>5. BusInv(bus') /\ KeptBut(bus, bus', v, StatSize)
  BY <1>1, <1>2, <1>3, BlockWrittenOK
<1>6. CallInv'
  BY <1>4, PlainCall, Numbers
<1>7. FilesInv'
  BY <1>3, FilesKept
<1>8. GuestStep
  BY <1>1, <1>3, <1>4, <1>5, BufferWritten
<1> QED
  BY <1>4, <1>5, <1>6, <1>7, <1>8 DEF SysInv

(* sys_close.                                                              *)
LEMMA CloseSafe ==
  ASSUME SysInv, NEW fd \in Fds, sys_close(fd)
  PROVE  SysInv' /\ GuestStep
<1>1. BusInv(bus) /\ FilesInv /\ bus' = bus
  BY DEF SysInv, sys_close
<1>2. CASE Spared(fd) /\ Returns("close", 0, 0, 0, << >>) /\ UNCHANGED <<files, told>>
  <2>1. call'.name = "close" /\ call'.ret = 0 /\ outcome' = outcome
    BY <1>2, ReturnsFields
  <2>2. FilesInv'
    BY <1>1, <1>2, FilesKept
  <2>3. CallInv'
    BY <2>1, PlainCall, Numbers
  <2> QED
    BY <1>1, <2>1, <2>2, <2>3 DEF SysInv, GuestStep
<1>3. CASE /\ ~Spared(fd)
           /\ files' = [files EXCEPT ![fd] = Closed]
           /\ told' = [told EXCEPT ![fd] = 0]
           /\ Returns("close", IF files[fd].open THEN 0 ELSE Error, 0, 0, << >>)
  <2>1. call'.name = "close" /\ call'.ret \in {0, Error} /\ outcome' = outcome
    BY <1>3, ReturnsFields
  <2>2. ~Std(fd)
    BY <1>3 DEF Spared, Std, Fds
  <2>3. Closed \in [open : BOOLEAN, path : Seq(Bytes), pos : Nat] /\ Closed.pos = 0
    BY EmptySeq DEF Closed
  <2>4. FilesInv'
    BY <1>1, <1>3, <2>2, <2>3, DescriptorReplaced
  <2>5. CallInv'
    BY <2>1, PlainCall, Numbers
  <2> QED
    BY <1>1, <2>1, <2>4, <2>5 DEF SysInv, GuestStep
<1> QED
  BY <1>2, <1>3 DEF sys_close

(* What bus_read_string copies is a string, and the guest's if it may be   *)
(* read: a byte the mmu does not refuse was written.                       *)
LEMMA StringTaken ==
  ASSUME BusInv(bus), NEW v \in Nat, NEW s \in StringsAt(v)
  PROVE  /\ s \in Seq(Bytes) /\ Len(s) \in Nat \ {0}
         /\ ReadOK(bus.mmu, v, Len(s)) =>
              \A j \in 1 .. Len(s) :
                s[j] = bus.wrote[v - Base + j - 1] /\ (s[j] = 0 <=> j = Len(s))
<1>1. PICK k \in 1 .. RamSize + 1 : s \in [1 .. k -> Bytes]
  BY DEF StringsAt
<1>2. k \in Nat \ {0}
  BY <1>1, Numbers
<1>3. s \in Seq(Bytes) /\ Len(s) = k
  BY <1>1, <1>2, Strings
<1>4. /\ \A j \in 1 .. k - 1 : s[j] # 0 /\ s[j] \in ByteRead(v + j - 1)
      /\ v + k - 1 \in BusAddresses => s[k] = 0 /\ 0 \in ByteRead(v + k - 1)
  BY <1>3 DEF StringsAt
<1>5. ASSUME ReadOK(bus.mmu, v, k), NEW j \in 1 .. k
      PROVE  s[j] = bus.wrote[v - Base + j - 1] /\ (s[j] = 0 <=> j = k)
  <2> DEFINE e == v + j - 1
             i == v - Base + j - 1
  <2>1. /\ bus.mmu.size = RamSize /\ BytesInv(bus.mmu, bus.data, bus.wrote)
    BY <1>5 DEF BusInv
  <2>2. Base <= v /\ v + k <= Base + RamSize
    BY <1>5, <2>1 DEF ReadOK, InRange, End
  <2>3. /\ e \in BusAddresses /\ e \in Nat /\ Base <= e /\ e + 1 <= Base + RamSize
        /\ i \in 0 .. RamSize - 1 /\ i \in Span(v, k) /\ i = e - Base
    BY <1>2, <1>5, <2>2, Numbers DEF BusAddresses, Span
  <2> HIDE DEF e, i
  <2>4. "READ" \in bus.mmu.perm[i]
    BY <1>5, <2>3 DEF ReadOK, CheckAccess
  <2>5. ReadOK(bus.mmu, e, 1)
    <3>1. Span(e, 1) = {i}
      BY <2>3, Numbers DEF Span
    <3> QED
      BY <2>1, <2>3, <2>4, <3>1 DEF ReadOK, InRange, CheckAccess, End
  <2>6. e \notin CsrAddresses
    BY <2>3, Numbers, SyscallsAssumption
  <2>7. ByteRead(e) = {bus.data[i]}
    BY <2>3, <2>5, <2>6 DEF ByteRead
  <2>8. bus.data[i] = bus.wrote[i]
    BY <2>1, <2>3, <2>4 DEF BytesInv
  <2>9. s[j] \in ByteRead(e) /\ (s[j] = 0 <=> j = k)
    <3>1. CASE j = k
      BY <1>4, <2>3, <3>1 DEF e
    <3>2. CASE j # k
      <4>1. j \in 1 .. k - 1
        BY <1>2, <1>5, <3>2
      <4> QED
        BY <1>4, <3>2, <4>1 DEF e
    <3> QED
      BY <3>1, <3>2
  <2> QED
    BY <2>7, <2>8, <2>9 DEF i
<1> QED
  BY <1>2, <1>3, <1>5

(* sys_open: the lowest free descriptor is never a standard stream.        *)
LEMMA OpenSafe ==
  ASSUME SysInv, NEW v \in Word, sys_open(v)
  PROVE  SysInv' /\ (call'.name # "none" => GuestStep)
<1>1. v \in Nat /\ Running /\ BusInv(bus) /\ FilesInv
  BY Numbers DEF Word, SysInv, sys_open
<1>2. PICK s \in StringsAt(v) :
        /\ bus' = StringRead(v, Len(s))
        /\ IF bus'.status = "BUS_OK"
           THEN LET path == SubSeq(s, 1, Len(s) - 1) IN
                \/ /\ Returns("open", Error, v, Len(s), s)
                   /\ UNCHANGED <<files, told>>
                \/ \E fd \in Fds :
                     /\ LowestFree(fd)
                     /\ files' = [files EXCEPT ![fd] =
                                    [open |-> TRUE, path |-> path, pos |-> 0]]
                     /\ told' = [told EXCEPT ![fd] = 0]
                     /\ Returns("open", fd, v, Len(s), s)
           ELSE outcome' = "exited" /\ UNCHANGED <<files, call, told>>
  BY DEF sys_open
<1> DEFINE k == Len(s)   path == SubSeq(s, 1, k - 1)
<1>3. /\ k \in Nat \ {0} /\ path \in Seq(Bytes)
      /\ ReadOK(bus.mmu, v, k) =>
           \A j \in 1 .. k : s[j] = bus.wrote[v - Base + j - 1] /\ (s[j] = 0 <=> j = k)
  <2>1. /\ s \in Seq(Bytes) /\ k \in Nat \ {0}
        /\ ReadOK(bus.mmu, v, k) =>
             \A j \in 1 .. k : s[j] = bus.wrote[v - Base + j - 1] /\ (s[j] = 0 <=> j = k)
    BY <1>1, StringTaken
  <2>2. k - 1 \in 0 .. Len(s)
    BY <2>1
  <2>3. path \in Seq(Bytes)
    BY <2>1, <2>2, Prefixes
  <2> QED
    BY <2>1, <2>3
<1>4. BusInv(bus') /\ SameMemory(bus, bus')
  <2> HIDE DEF k
  <2>1. bus' = StringRead(v, k)
    BY <1>2 DEF k
  <2> QED
    BY <1>1, <1>3, <2>1, StringReadOK
<1>5. GuestStep
  BY <1>1, <1>4, MemoryKept
<1>6. ASSUME call'.name = "open", call'.ret \in Word, call'.buf = v, call'.size = k,
             call'.bytes = s
      PROVE  CallInv'
  <2>1. PathIsGuests'
    <3> SUFFICES ASSUME ReadOK(bus'.mmu, v, k), NEW j \in 1 .. k
                 PROVE  s[j] = bus'.wrote[v - Base + j - 1] /\ (s[j] = 0 <=> j = k)
      BY <1>6 DEF PathIsGuests
    <3>1. ReadOK(bus.mmu, v, k)
      BY <1>4 DEF SameMemory, ReadOK, InRange, CheckAccess, End
    <3>2. bus'.wrote = bus.wrote
      BY <1>4 DEF SameMemory
    <3> QED
      BY <1>3, <3>1, <3>2
  <2> QED
    BY <1>6, <2>1 DEF CallInv, ReadDelivers, OutputIsGuests
<1>7. CASE Returns("open", Error, v, k, s) /\ UNCHANGED <<files, told>>
  <2>1. /\ call'.name = "open" /\ call'.ret = Error /\ call'.buf = v
        /\ call'.size = k /\ call'.bytes = s /\ outcome' = outcome
    BY <1>7, ReturnsFields
  <2>2. CallInv'
    BY <1>6, <2>1, Numbers
  <2>3. FilesInv'
    BY <1>1, <1>7, FilesKept
  <2> QED
    BY <1>4, <1>5, <2>1, <2>2, <2>3 DEF SysInv
<1>8. ASSUME NEW fd \in Fds, LowestFree(fd),
             files' = [files EXCEPT ![fd] = [open |-> TRUE, path |-> path, pos |-> 0]],
             told' = [told EXCEPT ![fd] = 0],
             Returns("open", fd, v, k, s)
      PROVE  SysInv' /\ GuestStep
  <2>1. /\ call'.name = "open" /\ call'.ret = fd /\ call'.buf = v
        /\ call'.size = k /\ call'.bytes = s /\ outcome' = outcome
    BY <1>8, ReturnsFields
  <2>2. fd \in Word
    BY Numbers DEF Fds, Word
  <2>3. CallInv'
    BY <1>6, <2>1, <2>2
  <2>4. ~Std(fd)
    <3> SUFFICES ASSUME Std(fd) PROVE FALSE
      OBVIOUS
    <3>1. files[fd] = [Closed EXCEPT !.open = TRUE]
      BY <1>1 DEF FilesInv, StdStreamsOpen
    <3>2. files[fd].open
      BY <3>1 DEF Closed
    <3> QED
      BY <1>8, <3>2 DEF LowestFree
  <2> DEFINE f == [open |-> TRUE, path |-> path, pos |-> 0]
  <2>5. f \in [open : BOOLEAN, path : Seq(Bytes), pos : Nat] /\ f.pos = 0
    BY <1>3
  <2>6. files' = [files EXCEPT ![fd] = f]
    BY <1>8
  <2> HIDE DEF f
  <2>7. FilesInv'
    BY <1>1, <1>8, <2>4, <2>5, <2>6, DescriptorReplaced
  <2> QED
    BY <1>4, <1>5, <2>1, <2>3, <2>7 DEF SysInv
<1>9. CASE outcome' = "exited" /\ UNCHANGED <<files, call, told>>
  <2>1. call' = NoCall
    BY <1>1, <1>9 DEF Running
  <2>2. call'.name = "none" /\ call'.ret = 0
    BY <2>1 DEF NoCall
  <2>3. CallInv'
    BY <2>2, PlainCall, Numbers
  <2>4. FilesInv'
    BY <1>1, <1>9, FilesKept
  <2> QED
    BY <1>4, <1>5, <1>9, <2>3, <2>4 DEF SysInv
<1> QED
  BY <1>2, <1>7, <1>8, <1>9

(* sys_lseek.                                                              *)
LEMMA LseekSafe ==
  ASSUME SysInv, NEW fd \in Fds, NEW offset \in Nat, NEW whence \in 0 .. 2,
         sys_lseek(fd, offset, whence)
  PROVE  SysInv' /\ GuestStep
<1> DEFINE from == CASE whence = 0 -> 0
                     [] whence = 1 -> files[fd].pos
                     [] whence = 2 -> Len(Contents(fd))
           new == from + offset
<1>1. BusInv(bus) /\ FilesInv /\ bus' = bus
  BY DEF SysInv, sys_lseek
<1>2. \/ /\ ~Std(fd)
         /\ files' = [files EXCEPT ![fd].pos = new]
         /\ Returns("lseek", Reported(new), 0, 0, << >>)
         /\ told' = [told EXCEPT ![fd] = call'.ret]
      \/ /\ Returns("lseek", Error, 0, 0, << >>)
         /\ UNCHANGED <<files, told>>
  BY DEF sys_lseek
<1>3. new \in Nat
  <2>1. files[fd].pos \in Nat
    BY <1>1 DEF FilesInv
  <2>2. Contents(fd) \in Seq(Bytes)
    BY EmptySeq, SyscallsAssumption DEF Contents
  <2>3. Len(Contents(fd)) \in Nat
    BY <2>2, LenProperties
  <2>4. from \in Nat
    <3>1. CASE whence = 0
      BY <3>1
    <3>2. CASE whence = 1
      BY <2>1, <3>2
    <3>3. CASE whence = 2
      BY <2>3, <3>3
    <3> QED
      BY <3>1, <3>2, <3>3
  <2> QED
    BY <2>4
<1> HIDE DEF new
<1>4. CASE /\ ~Std(fd)
           /\ files' = [files EXCEPT ![fd].pos = new]
           /\ Returns("lseek", Reported(new), 0, 0, << >>)
           /\ told' = [told EXCEPT ![fd] = call'.ret]
  <2>1. call'.name = "lseek" /\ call'.ret = new % WordMod /\ outcome' = outcome
    BY <1>4, ReturnsFields DEF Reported
  <2>2. call'.ret \in Word
    BY <1>3, <2>1, Division DEF Word
  <2>3. told' = [told EXCEPT ![fd] = new % WordMod]
    BY <1>4, <2>1
  <2>4. FilesInv'
    BY <1>1, <1>3, <1>4, <2>3, PositionMoves
  <2>5. CallInv'
    BY <2>1, <2>2, PlainCall
  <2> QED
    BY <1>1, <2>1, <2>4, <2>5 DEF SysInv, GuestStep
<1>5. CASE Returns("lseek", Error, 0, 0, << >>) /\ UNCHANGED <<files, told>>
  <2>1. call'.name = "lseek" /\ call'.ret = Error /\ outcome' = outcome
    BY <1>5, ReturnsFields
  <2>2. CallInv'
    BY <2>1, PlainCall, Numbers
  <2>3. FilesInv'
    BY <1>1, <1>5, FilesKept
  <2> QED
    BY <1>1, <2>1, <2>2, <2>3 DEF SysInv, GuestStep
<1> QED
  BY <1>2, <1>4, <1>5

(* sys_brk: a query returns a pointer that fits a register, an allocation  *)
(* takes nothing from the guest.                                           *)
LEMMA BrkSafe ==
  ASSUME SysInv, NEW arg0 \in Word, sys_brk(arg0)
  PROVE  SysInv' /\ GuestStep
<1>1. BusInv(bus) /\ FilesInv /\ UNCHANGED <<files, told>>
  BY DEF SysInv, sys_brk
<1>2. Returns("brk", IF arg0 = 0 THEN bus.mmu.curr_vaddr ELSE arg0, 0, 0, << >>)
  BY DEF sys_brk
<1>3. bus.mmu.curr_vaddr \in Word
  BY <1>1, BusFields, Numbers DEF Word
<1>4. call'.name = "brk" /\ call'.ret \in Word /\ outcome' = outcome
  <2> DEFINE ret == IF arg0 = 0 THEN bus.mmu.curr_vaddr ELSE arg0
  <2>1. ret \in Word
    BY <1>3
  <2>2. Returns("brk", ret, 0, 0, << >>)
    BY <1>2
  <2> HIDE DEF ret
  <2> QED
    BY <2>1, <2>2, ReturnsFields
<1>5. CallInv'
  BY <1>4, PlainCall
<1>6. FilesInv'
  BY <1>1, FilesKept
<1>7. BusInv(bus') /\ GuestStep
  <2>1. CASE arg0 # 0 /\ CanAllocate(bus.mmu, BrkStep)
    <3>1. bus' = BusAfterBrk
      BY <2>1 DEF sys_brk, BusAfterBrk
    <3>2. /\ BusInv(BusAfterBrk) /\ BusAfterBrk.data = bus.data
          /\ \A i \in bus.granted : BusAfterBrk.mmu.perm[i] = bus.mmu.perm[i]
      BY <1>1, <2>1, BrkOK
    <3> QED
      BY <3>1, <3>2 DEF GuestStep
  <2>2. CASE ~(arg0 # 0 /\ CanAllocate(bus.mmu, BrkStep))
    <3>1. bus' = bus
      BY <2>2 DEF sys_brk
    <3> QED
      BY <1>1, <3>1 DEF GuestStep
  <2> QED
    BY <2>1, <2>2
<1> QED
  BY <1>4, <1>5, <1>6, <1>7 DEF SysInv

----------------------------------------------------------------------------
(* Every step keeps the invariant, and the guest's memory.                 *)
LEMMA SysNext ==
  ASSUME SysInv, Next
  PROVE  SysInv' /\ (call'.name # "none" => GuestStep)
<1>1. ASSUME NEW v \in Nat, NEW b \in Bytes, Load(v) \/ Store(v, b)
      PROVE  SysInv' /\ call'.name = "none"
  BY <1>1, GuestSafe
<1>2. ASSUME Resume
      PROVE  SysInv' /\ call'.name = "none"
  <2>1. 0 \in Nat /\ 0 \in Bytes
    BY SyscallsAssumption
  <2> QED
    BY <1>2, <2>1, GuestSafe
<1>3. ASSUME NEW fd \in Fds, NEW v \in Word, NEW n \in Word,
             sys_read(fd, v, n) \/ sys_write(fd, v, n)
      PROVE  SysInv' /\ GuestStep
  BY <1>3, ReadSafe, WriteSafe
<1>4. ASSUME NEW fd \in Fds, NEW v \in Word, sys_fstat(fd, v)
      PROVE  SysInv' /\ GuestStep
  BY <1>4, FstatSafe
<1>5. ASSUME NEW fd \in Fds, sys_close(fd)
      PROVE  SysInv' /\ GuestStep
  BY <1>5, CloseSafe
<1>6. ASSUME NEW v \in Word, sys_open(v)
      PROVE  SysInv' /\ (call'.name # "none" => GuestStep)
  BY <1>6, OpenSafe
<1>7. ASSUME NEW fd \in Fds, NEW offset \in Nat, NEW whence \in 0 .. 2,
             sys_lseek(fd, offset, whence)
      PROVE  SysInv' /\ GuestStep
  BY <1>7, LseekSafe
<1>8. ASSUME NEW arg0 \in Word, sys_brk(arg0)
      PROVE  SysInv' /\ GuestStep
  BY <1>8, BrkSafe
<1>9. ASSUME NEW how \in {"died", "exited", "overrun"}, Running, Ends(how)
      PROVE  SysInv' /\ call'.name = "none"
  BY <1>9, EndsSafe
<1> QED
  BY <1>1, <1>2, <1>3, <1>4, <1>5, <1>6, <1>7, <1>8, <1>9, NextCases

(* The invariant holds in every reachable state.                           *)
THEOREM CallsAreSafe == Spec => []SysInv
<1>1. Init => SysInv
  BY InitBus, InitOthers DEF SysInv
<1>2. SysInv /\ [Next]_vars => SysInv'
  <2>1. ASSUME SysInv, Next PROVE SysInv'
    BY <2>1, SysNext
  <2>2. ASSUME SysInv, UNCHANGED vars PROVE SysInv'
    <3>1. /\ bus' = bus /\ call' = call /\ outcome' = outcome
          /\ UNCHANGED <<files, told>>
      BY <2>2 DEF vars
    <3>2. FilesInv'
      BY <2>2, <3>1, FilesKept DEF SysInv
    <3>3. CallInv'
      BY <2>2, <3>1 DEF SysInv, CallInv, ReadDelivers, OutputIsGuests, PathIsGuests, Alive
    <3> QED
      BY <2>2, <3>1, <3>2, <3>3 DEF SysInv
  <2> QED
    BY <2>1, <2>2
<1> QED
  BY <1>1, <1>2, PTL DEF Spec

(* Registers, bytes and positions keep their ranges, whatever calls the    *)
(* guest makes (syscall.c: every result is put in trap_regs[10]).          *)
THEOREM TypesHold == Spec => []TypeOK
<1>1. SysInv => TypeOK
  <2> SUFFICES ASSUME SysInv PROVE TypeOK
    OBVIOUS
  <2>1. BusInv(bus)
    BY DEF SysInv
  <2>2. \A fd \in Fds : files[fd].pos \in Nat /\ told[fd] \in Word
    BY DEF SysInv, FilesInv
  <2>3. call.ret \in Word /\ outcome \in {"running", "exited", "died", "overrun"}
    BY DEF SysInv, CallInv
  <2> QED
    BY <2>1, <2>2, <2>3, BusFields DEF TypeOK
<1> QED
  BY <1>1, CallsAreSafe, PTL

(* A read that returns delivered the bytes it reports, readable (sys_read, *)
(* which drops the result of bus_write_multiple).                          *)
THEOREM ReadsDeliver == Spec => []ReadDelivers
<1>1. SysInv => ReadDelivers
  BY DEF SysInv, CallInv
<1> QED
  BY <1>1, CallsAreSafe, PTL

(* Output was written by the guest since sys_brk handed out the memory     *)
(* (sys_write, mmu_check_access, MPERM_RAW).                               *)
THEOREM GuestsOutput == Spec => []OutputIsGuests
<1>1. SysInv => OutputIsGuests
  BY DEF SysInv, CallInv
<1> QED
  BY <1>1, CallsAreSafe, PTL

(* The results tell the position of every descriptor up to the width of a  *)
(* register (sys_read, sys_lseek).                                         *)
THEOREM PositionsReported == Spec => []PositionAsReported
<1>1. SysInv => PositionAsReported
  BY DEF SysInv, FilesInv
<1> QED
  BY <1>1, CallsAreSafe, PTL

(* The standard streams stay open and stay what they are (sys_close,       *)
(* sys_open).                                                              *)
THEOREM StreamsOpen == Spec => []StdStreamsOpen
<1>1. SysInv => StdStreamsOpen
  BY DEF SysInv, FilesInv
<1> QED
  BY <1>1, CallsAreSafe, PTL

(* The path of sys_open is what the guest wrote up to its NUL, fit the     *)
(* buffer or not (bus_read_string, mmu_check_access, MPERM_RAW).           *)
THEOREM GuestsPath == Spec => []PathIsGuests
<1>1. SysInv => PathIsGuests
  BY DEF SysInv, CallInv
<1> QED
  BY <1>1, CallsAreSafe, PTL

(* A call changes nothing the guest could read but the buffer it names     *)
(* (sys_read, sys_fstat, sys_brk).                                         *)
THEOREM CallsKeepMemory == Spec => GuestMemoryKept
<1>1. SysInv /\ [Next]_vars =>
        [call'.name # "none" =>
           \A i \in bus.granted :
             "READ" \in bus.mmu.perm[i] =>
               /\ "READ" \in bus'.mmu.perm[i]
               /\ \/ bus'.data[i] = bus.data[i]
                  \/ /\ call'.name \in {"read", "fstat"}
                     /\ i \in Span(call'.buf, call'.size)]_vars
  BY SysNext DEF GuestStep
<1> QED
  BY <1>1, CallsAreSafe, PTL DEF Spec, GuestMemoryKept
=============================================================================
