------------------------------ MODULE Syscalls ------------------------------
(***************************************************************************)
(* The system calls of the emulator (syscall.c) with everything they touch:*)
(* the memory behind the bus (mmu.c, memory.c, bus.c), now with the bytes  *)
(* in it, the mutex and status of the bus, and the files of the host.      *)
(*                                                                         *)
(* One core runs and main waits in core_join, so a system call, from the   *)
(* ECALL to its result in trap_regs, is one action; so is a load or a      *)
(* store the guest makes in between.  The guest is arbitrary: it may make  *)
(* any call with any arguments.  The host is external: its calls return    *)
(* whatever the interface allows, short counts and errors included.        *)
(***************************************************************************)
EXTENDS Mmu, Sequences

CONSTANTS
  Bytes,         \* values of a byte; 0 ends a string
  Image,         \* bytes of the loaded segment
  StackSize,     \* STACK_SIZE
  BrkStep,       \* what sys_brk allocates for a request (0x100)
  BufSize,       \* size of the buffers of sys_write and sys_open (256)
  StatSize,      \* bytes sys_fstat hands to the guest (112)
  WordMod,       \* number of values of a register (2^32)
  MaxFd,         \* the host's limit on descriptors
  MaxTransfer,   \* the most one read() transfers (0x7ffff000 on Linux)
  MaxPos,        \* bound: positions seeks may reach
  Disk,          \* files of the host: contents by path
  CsrAddresses,  \* addresses of the CSR device
  Descriptors,   \* arguments of the guest: file descriptors, ...
  Addresses,     \* ... addresses
  Sizes,         \* ... byte counts
  Offsets        \* ... and file offsets

ASSUME SyscallsAssumption ==
  /\ Bytes \subseteq Nat /\ 0 \in Bytes
  /\ Image \in Seq(Bytes) /\ Len(Image) <= RamSize
  /\ {StackSize, BrkStep, BufSize, StatSize, MaxPos} \subseteq Nat
  /\ WordMod \in Nat \ {0} /\ Base + RamSize < WordMod
  /\ MaxFd \in Nat /\ 2 <= MaxFd /\ MaxFd < WordMod
  /\ Descriptors \subseteq 0 .. MaxFd
  /\ MaxTransfer \in Nat /\ MaxTransfer < WordMod - 1
  /\ \A path \in DOMAIN Disk : path \in Seq(Bytes) /\ Disk[path] \in Seq(Bytes)
  /\ \A v \in CsrAddresses : v > Base + RamSize
  /\ CsrAddresses \cup Addresses \cup Sizes \cup Offsets \subseteq 0 .. WordMod - 1

VARIABLES
  bus,      \* the bus and what is behind it, with two histories: wrote, the
            \* byte last written to an address since it was granted, and
            \* granted, what the image, the stack and sys_brk's blocks occupy
  files,    \* the host's descriptors of the emulator
  call,     \* the last system call and what it exchanged with the host
  told,     \* history: position of each descriptor by the results so far
  outcome   \* "running", or how the core or the process ended

vars == <<bus, files, call, told, outcome>>

Word  == 0 .. WordMod - 1
Fds   == 0 .. MaxFd
Error == WordMod - 1            \* -1 in a register
Std(fd) == fd <= 2
Unwritten == -1

BusAddresses == Base .. Base + RamSize - 1   \* those of the RAM device

Closed == [open |-> FALSE, path |-> << >>, pos |-> 0]

(* Contents of what a descriptor was opened on; open may create it.        *)
Contents(fd) ==
  LET path == files[fd].path IN IF path \in DOMAIN Disk THEN Disk[path] ELSE << >>

NoCall == [name |-> "none", ret |-> 0, buf |-> 0, size |-> 0, bytes |-> << >>]

(* emulator_init, a segment loaded by elf_load, the stack of emulator_run. *)
Loaded ==
  LET n == Len(Image)
  IN  SetPerm(WriteFrom(AddInside(MmuInit("MMU_OK"), Base, n, FreshPerm), Base, n),
              Base, n, {"READ", "WRITE", "EXEC"})

Init ==
  /\ bus = [mmu    |-> IF CanAllocate(Loaded, StackSize)
                       THEN Allocated(Loaded, StackSize, FreshPerm) ELSE Loaded,
            data   |-> [i \in 0 .. RamSize - 1 |->
                          IF i < Len(Image) THEN Image[i + 1] ELSE 0],
            wrote  |-> [i \in 0 .. RamSize - 1 |->
                          IF i < Len(Image) THEN Image[i + 1] ELSE Unwritten],
            granted |-> (0 .. Len(Image) - 1) \cup
                        (IF CanAllocate(Loaded, StackSize)
                         THEN Span(Loaded.curr_vaddr, StackSize) ELSE {}),
            ram    |-> "READY",
            status |-> "BUS_OK",
            free   |-> TRUE]
  /\ files = [fd \in Fds |-> [Closed EXCEPT !.open = Std(fd)]]
  /\ call = NoCall
  /\ told = [fd \in Fds |-> 0]
  /\ outcome = "running"

----------------------------------------------------------------------------
(* The bus, one operation each, for the core that runs alone.              *)
DataAt(v, n) == [j \in 1 .. n |-> bus.data[v - Base + j - 1]]

Stored(f, v, s) ==
  [i \in DOMAIN f |-> IF i \in Span(v, Len(s)) THEN s[i - (v - Base) + 1] ELSE f[i]]

(* bus_write_multiple to RAM or to no device: a write the mmu refuses      *)
(* returns with the mutex held.                                            *)
BlockWritten(v, s) ==
  IF v \notin BusAddresses THEN [bus EXCEPT !.status = "BUS_ADDRESS_NOT_FOUND"]
  ELSE LET m == WriteFrom(bus.mmu, v, Len(s))
       IN  IF m.state = "MMU_OK"
           THEN [bus EXCEPT !.mmu = m, !.data = Stored(bus.data, v, s),
                            !.wrote = Stored(bus.wrote, v, s),
                            !.ram = "READY", !.status = "BUS_OK"]
           ELSE [bus EXCEPT !.mmu = m, !.ram = "ERROR",
                            !.status = "BUS_DEVICE_FAILURE", !.free = FALSE]

(* The device must be READY, and the CSR device has no block transfers.    *)
BlockWriteDies(v) ==
  v \in CsrAddresses \/ (v \in BusAddresses /\ bus.ram # "READY")

(* bus_read_multiple: the bus afterwards, and what the caller's buffer may *)
(* hold then.  It is left as it was when the read is refused.              *)
BlockRead(v, n) ==
  IF v \notin BusAddresses THEN [bus EXCEPT !.status = "BUS_ADDRESS_NOT_FOUND"]
  ELSE LET m == ReadInto(bus.mmu, v, n)
           ok == m.state = "MMU_OK"
       IN  [bus EXCEPT !.mmu = m, !.ram = IF ok THEN "READY" ELSE "ERROR",
                       !.status = IF ok THEN "BUS_OK" ELSE "BUS_DEVICE_FAILURE"]

BufferAfterRead(v, n) ==
  IF v \in BusAddresses /\ ReadOK(bus.mmu, v, n) THEN {DataAt(v, n)}
  ELSE [1 .. n -> Bytes]

(* bus_read_single of a byte, and bus_write_single: a refusal is seen in   *)
(* the device only.  read_ram_single leaves its result uninitialised then. *)
SingleRead(v) == [BlockRead(v, 1) EXCEPT !.status = "BUS_OK"]

ByteRead(v) ==
  IF v \in CsrAddresses THEN {0}
  ELSE IF ReadOK(bus.mmu, v, 1) THEN {bus.data[v - Base]} ELSE Bytes

SingleWritten(v, b) ==
  [BlockWritten(v, <<b>>) EXCEPT !.status = "BUS_OK", !.free = TRUE]

StringsCut(v) ==   \* mutant
  {s \in [1 .. BufSize -> Bytes] :
     \A j \in DOMAIN s : v + j - 1 \in BusAddresses /\ s[j] \in ByteRead(v + j - 1)}

(* What bus_read_string copies: it ends behind a NUL, or behind a byte that*)
(* no device has, which reads as a non-NUL.  Nothing else bounds it: it    *)
(* may take all of RAM and one byte more.                                  *)
StringsAt(v) ==
  {s \in UNION {[1 .. k -> Bytes] : k \in 1 .. RamSize + 1} :
     LET last == Len(s) IN
     /\ \A j \in 1 .. last - 1 : /\ s[j] # 0 /\ s[j] \in ByteRead(v + j - 1)
                                 /\ v + j - 1 \in BusAddresses
     /\ IF v + last - 1 \in BusAddresses \cup CsrAddresses
        THEN s[last] = 0 /\ 0 \in ByteRead(v + last - 1)
        ELSE s[last] # 0}

(* The last byte the string takes from a device leaves its mark there.     *)
StringRead(v, k) ==
  LET e == v + k - 1
      b == IF e \in BusAddresses THEN SingleRead(e)
           ELSE IF k > 1 THEN SingleRead(e - 1) ELSE bus
  IN  [b EXCEPT !.status = IF e \in BusAddresses \cup CsrAddresses THEN "BUS_OK"
                           ELSE "BUS_ADDRESS_NOT_FOUND"]

----------------------------------------------------------------------------
(* The core runs guest instructions while nothing ended it, and while its  *)
(* next fetch gets the bus.  Resume is the end of the trap: it copies the  *)
(* result to a0.                                                           *)
Alive   == outcome = "running" /\ bus.free
Running == Alive /\ call = NoCall

Resume ==
  /\ Alive /\ call # NoCall
  /\ call' = NoCall
  /\ UNCHANGED <<bus, files, told, outcome>>

Load(v) ==
  /\ Running
  /\ bus' = SingleRead(v)
  /\ UNCHANGED <<files, call, told, outcome>>

Store(v, b) ==
  /\ Running
  /\ bus' = SingleWritten(v, b)
  /\ UNCHANGED <<files, call, told, outcome>>

Ends(how) == outcome' = how /\ UNCHANGED <<bus, files, call, told>>

Returns(name, ret, buf, size, bytes) ==
  /\ call' = [name |-> name, ret |-> ret, buf |-> buf, size |-> size,
              bytes |-> bytes]
  /\ UNCHANGED outcome

----------------------------------------------------------------------------
(* What read() may return, with the bytes: some of what is left, an error. *)
HostRead(fd, n) ==
  LET most == IF n < MaxTransfer THEN n ELSE MaxTransfer
      rest == IF files[fd].pos >= Len(Contents(fd)) THEN << >>
              ELSE SubSeq(Contents(fd), files[fd].pos + 1, Len(Contents(fd)))
      some == IF ~files[fd].open THEN {}
              ELSE IF Std(fd) THEN UNION {[1 .. k -> Bytes] : k \in 0 .. most}
              ELSE {SubSeq(rest, 1, k) :
                      k \in 0 .. IF Len(rest) < most THEN Len(rest) ELSE most}
  IN  {<<Len(bytes), bytes>> : bytes \in some} \cup {<<Error, << >>>>}

(* A host buffer of n bytes of which only the first were filled.           *)
Filled(bytes, n) ==
  {s \in [1 .. n -> Bytes] : \A j \in DOMAIN bytes : s[j] = bytes[j]}

AskedReturned(r, n) == IF r[1] = Error THEN Error ELSE n   \* mutant

(* The guest gets what read returned, not what it asked for.               *)
ReadResult(r, n) == r[1]

(* All n bytes go to the guest, whatever read returned, and whether the    *)
(* bus took them is not looked at.                                         *)
sys_read(fd, v, n) ==
  /\ Running /\ ~BlockWriteDies(v)
  /\ \E r \in HostRead(fd, n) :
       /\ \E mem \in Filled(r[2], n) : bus' = BlockWritten(v, mem)
       /\ Returns("read", ReadResult(r, n), v, n, r[2])
       /\ IF Std(fd) THEN UNCHANGED <<files, told>>
          ELSE /\ files' = [files EXCEPT ![fd].pos = @ + Len(r[2])]
               /\ told' = [told EXCEPT ![fd] =
                             IF call'.ret = Error THEN @ ELSE (@ + call'.ret) % WordMod]

(* malloc may fail; read gets NULL then, and so does memcpy.               *)
ReadWithoutBuffer(v, n) ==
  /\ Running /\ n > 0
  /\ v \in BusAddresses /\ WriteOK(bus.mmu, v, n)
  /\ Ends("died")

(* The bytes come from buf whether or not the bus put any there.           *)
sys_write(fd, v, n) ==
  /\ Running /\ v \notin CsrAddresses
  /\ Std(fd) /\ n < BufSize
  /\ bus' = BlockRead(v, n)
  /\ \E buf \in BufferAfterRead(v, n) :
       \/ \E k \in 0 .. n : Returns("write", k, v, n, SubSeq(buf, 1, k))
       \/ Returns("write", Error, v, n, << >>)
  /\ UNCHANGED <<files, told>>

WriteAsserts(fd, n) == Running /\ ~(Std(fd) /\ n < BufSize) /\ Ends("died")

sys_fstat(fd, v) ==
  /\ Running /\ ~BlockWriteDies(v)
  /\ \E mem \in [1 .. StatSize -> Bytes] :
       /\ bus' = BlockWritten(v, mem)
       /\ Returns("fstat", IF files[fd].open THEN 0 ELSE Error, v, StatSize, << >>)
  /\ UNCHANGED <<files, told>>

(* The device assertion of bus_write_multiple, a NULL function of the CSR  *)
(* device.                                                                 *)
TransferDies(v) == Running /\ BlockWriteDies(v) /\ Ends("died")

SparesTwo(fd) == fd < 2   \* mutant

(* "close stdin/stdout/stderr, we need those ourselves"                    *)
Spared(fd) == fd >= 0 /\ fd <= 2

sys_close(fd) ==
  /\ Running
  /\ \/ /\ Spared(fd)
        /\ Returns("close", 0, 0, 0, << >>)
        /\ UNCHANGED <<files, told>>
     \/ /\ ~Spared(fd)
        /\ files' = [files EXCEPT ![fd] = Closed]
        /\ told' = [told EXCEPT ![fd] = 0]
        /\ Returns("close", IF files[fd].open THEN 0 ELSE Error, 0, 0, << >>)
  /\ UNCHANGED bus

LowestFree(fd) == ~files[fd].open /\ \A g \in 0 .. fd - 1 : files[g].open

(* The path ends with its NUL; a path that does not end the core.  It may  *)
(* be longer than the buffer and the call return all the same.             *)
sys_open(v) ==
  /\ Running
  /\ \E s \in StringsAt(v) :
       /\ bus' = StringRead(v, Len(s))
       /\ IF bus'.status = "BUS_OK"
          THEN LET path == SubSeq(s, 1, Len(s) - 1) IN
               \/ /\ Returns("open", Error, v, Len(s), s)
                  /\ UNCHANGED <<files, told>>
               \/ \E fd \in Fds :
                    /\ LowestFree(fd)
                    /\ files' = [files EXCEPT ![fd] =
                                   [open |-> TRUE, path |-> path, pos |-> 0]]
                    /\ told' = [told EXCEPT ![fd] = 0]
                    /\ Returns("open", fd, v, Len(s), s)
          ELSE outcome' = "exited" /\ UNCHANGED <<files, call, told>>

(* Or it does not return: what lies behind the buffer was overwritten, and *)
(* what the process does then is not followed.                             *)
OpenOverruns(v) ==
  Running /\ (\E s \in StringsAt(v) : Len(s) > BufSize) /\ Ends("overrun")

ReportedWide(pos) == pos   \* mutant

(* A position in a register.                                               *)
Reported(pos) == pos % WordMod

(* lseek takes an off_t of 64 bits: the guest's word is never negative.    *)
(* whence is 0, 1 or 2: from the start, the position, the end.             *)
sys_lseek(fd, offset, whence) ==
  /\ Running
  /\ LET from == CASE whence = 0 -> 0
                   [] whence = 1 -> files[fd].pos
                   [] whence = 2 -> Len(Contents(fd))
         new == from + offset
     IN  \/ /\ files[fd].open /\ ~Std(fd) /\ new <= MaxPos
            /\ files' = [files EXCEPT ![fd].pos = new]
            /\ Returns("lseek", Reported(new), 0, 0, << >>)
            /\ told' = [told EXCEPT ![fd] = call'.ret]
         \/ /\ ~files[fd].open \/ Std(fd)
            /\ Returns("lseek", Error, 0, 0, << >>)
            /\ UNCHANGED <<files, told>>
  /\ UNCHANGED bus

(* sys_brk: see AddressSpace.  A query returns the allocation pointer.     *)
sys_brk(arg0) ==
  /\ Running
  /\ IF arg0 # 0 /\ CanAllocate(bus.mmu, BrkStep)
     THEN bus' = [bus EXCEPT
                    !.mmu = Allocated(bus.mmu, BrkStep, FreshPerm),
                    !.granted = @ \cup Span(bus.mmu.curr_vaddr, BrkStep),
                    !.wrote = [i \in DOMAIN bus.wrote |->
                                 IF i \in Span(bus.mmu.curr_vaddr, BrkStep)
                                 THEN Unwritten ELSE bus.wrote[i]]]
     ELSE UNCHANGED bus
  /\ Returns("brk", IF arg0 = 0 THEN bus.mmu.curr_vaddr ELSE arg0, 0, 0, << >>)
  /\ UNCHANGED <<files, told>>

(* exit, exit_group and every number without a function.                   *)
Exits == Running /\ Ends("exited")

handle_syscall ==
  \/ \E fd \in Descriptors :
       \/ \E v \in Addresses : \/ \E n \in Sizes : sys_read(fd, v, n) \/ sys_write(fd, v, n)
                               \/ sys_fstat(fd, v)
       \/ \E n \in Sizes : WriteAsserts(fd, n)
       \/ sys_close(fd)
       \/ \E offset \in Offsets, whence \in 0 .. 2 : sys_lseek(fd, offset, whence)
  \/ \E v \in Addresses :
       \/ \E n \in Sizes : ReadWithoutBuffer(v, n)
       \/ TransferDies(v) \/ sys_open(v) \/ OpenOverruns(v) \/ sys_brk(v)
  \/ sys_brk(0)
  \/ Exits

Next ==
  \/ \E v \in Addresses \cap BusAddresses : Load(v) \/ \E b \in Bytes : Store(v, b)
  \/ handle_syscall
  \/ Resume

Spec == Init /\ [][Next]_vars

----------------------------------------------------------------------------
(* Registers, bytes and positions keep their ranges and the mmu stays well *)
(* formed, whatever calls the guest makes.                                 *)
TypeOK ==
  /\ MmuOK(bus.mmu) /\ bus.mmu.size = RamSize
  /\ bus.data \in [0 .. RamSize - 1 -> Bytes]
  /\ bus.wrote \in [0 .. RamSize - 1 -> Bytes \cup {Unwritten}]
  /\ bus.granted \subseteq 0 .. RamSize - 1
  /\ bus.ram \in {"READY", "ERROR"} /\ bus.free \in BOOLEAN
  /\ bus.status \in {"BUS_OK", "BUS_ADDRESS_NOT_FOUND", "BUS_DEVICE_FAILURE"}
  /\ \A fd \in Fds : files[fd].pos \in Nat /\ told[fd] \in Word
  /\ call.ret \in Word
  /\ outcome \in {"running", "exited", "died", "overrun"}

(* A read that returns to a guest which goes on running has delivered what *)
(* it reports: as many bytes as a0 says, those of the host's file, readable*)
(* in the buffer.  Only behind them may the buffer hold anything (sys_read *)
(* and bus_write_multiple, whose result sys_read drops).  The exception is *)
(* a buffer that begins outside of RAM.                                    *)
ReadDelivers ==
  call.name = "read" /\ Alive /\ call.ret # Error /\ call.buf \in BusAddresses =>
    \A j \in 1 .. call.ret :
      LET i == call.buf - Base + j - 1 IN
      /\ "READ" \in bus.mmu.perm[i]
      /\ j <= Len(call.bytes) /\ bus.data[i] = call.bytes[j]

(* What sys_write gives to the host was put there, byte by byte, by the    *)
(* guest, its image or a sys_read, after sys_brk last handed out the       *)
(* memory.  There are two exceptions, in which it is the stack of the      *)
(* emulator: memory the guest may not read, and addresses outside of RAM.  *)
OutputIsGuests ==
  call.name = "write" /\ call.buf \in BusAddresses /\ ReadOK(bus.mmu, call.buf, call.size)
    => \A j \in DOMAIN call.bytes : call.bytes[j] = bus.wrote[call.buf - Base + j - 1]

(* A system call changes nothing in the memory the guest was given but the *)
(* buffer it names: what could be read there still can, and is the same    *)
(* (sys_brk's blocks, refused and unmapped buffers, sys_fstat).            *)
GuestMemoryKept ==
  [][call'.name # "none" =>
       \A i \in bus.granted :
         "READ" \in bus.mmu.perm[i] =>
           /\ "READ" \in bus'.mmu.perm[i]
           /\ \/ bus'.data[i] = bus.data[i]
              \/ /\ call'.name \in {"read", "fstat"}
                 /\ i \in Span(call'.buf, call'.size)]_vars

(* Whatever reads, short or failed, and seeks a guest makes, the results   *)
(* tell it where the host's file stands, up to the width of a register.    *)
(* (Not beyond it: a seek by a negative offset moves the host's position   *)
(* forward by almost 2^32, and its result looks as if it had gone back.)   *)
PositionAsReported == \A fd \in Fds : told[fd] = files[fd].pos % WordMod

(* The three streams the emulator needs itself are never closed, whatever  *)
(* the guest closes and opens, and never become another file (sys_close).  *)
StdStreamsOpen ==
  \A fd \in Fds : Std(fd) => files[fd] = [Closed EXCEPT !.open = TRUE]

(* The path sys_open gives to the host is the string that the guest, its   *)
(* image or a sys_read put at the address it names, up to the first NUL,   *)
(* and nothing from before sys_brk handed out the memory, whatever the     *)
(* length of the path (bus_read_string, mmu_check_access).  The exception  *)
(* is a string that runs into memory the guest may not read: there         *)
(* read_ram_single returns what was on the stack of the emulator.          *)
PathIsGuests ==
  call.name = "open" /\ ReadOK(bus.mmu, call.buf, call.size) =>
    \A j \in 1 .. call.size :
      /\ call.bytes[j] = bus.wrote[call.buf - Base + j - 1]
      /\ call.bytes[j] = 0 <=> j = call.size
=============================================================================
