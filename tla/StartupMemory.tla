---------------------------- MODULE StartupMemory ---------------------------
(***************************************************************************)
(* What the set-up keeps in memory: the image of the program, the blocks   *)
(* of mmu_allocate, and what main writes into its own for each core.       *)
(*                                                                         *)
(* On top of StartInv: ImageInv, which keeps the image below the pointer   *)
(* of the allocator and everything handed out; and BlocksInv, which keeps  *)
(* the blocks below it and apart, until two calls overlap.  PartsInv is    *)
(* about what main does with its blocks: it follows the words of a stack   *)
(* one push at a time, and fresh memory until it is written.               *)
(***************************************************************************)
EXTENDS StartupProofs

(* An address that is no RAM, or past every segment.                       *)
AboveImage(v) == v < Base \/ \A k \in DOMAIN image : ImageEnd(k) <= v

(* The segments loaded so far are in place, and what is handed out lies    *)
(* past all of them.                                                       *)
ImageInv ==
  /\ at = "segments" =>
       \A k \in DOMAIN image : k <= setup.done => InPlace(k) /\ ImageEnd(k) <= mmu.curr_vaddr
  /\ elf = "loaded" =>
       /\ \A k \in DOMAIN image : InPlace(k)
       /\ AboveImage(mmu.curr_vaddr)
       /\ \A t \in Threads : ~Stage(t, "none") => AboveImage(request[t].at)
       /\ \A c \in Cores : AboveImage(StackAt(c))

----------------------------------------------------------------------------
(* Two blocks without a byte in common.                                    *)
Apart(v, n, w, k) == v + n <= w \/ w + k <= v

(* Calls of mmu_allocate that do not overlap take from the pointer up.     *)
BlocksInv ==
  ~raced =>
    /\ \A t, u \in Threads : Pending(t) /\ Pending(u) => t = u
    /\ \A t \in Threads : Stage(t, "bumped") =>
         request[t].at + request[t].size <= mmu.curr_vaddr
    /\ \A b \in blocks :
         /\ b.at + b.size <= mmu.curr_vaddr
         /\ \A t \in Threads : Pending(t) => b.at + b.size <= request[t].at
    /\ \A b1, b2 \in blocks : b1 # b2 => Apart(b1.at, b1.size, b2.at, b2.size)

----------------------------------------------------------------------------
(* A span that ends before another starts.                                 *)
LEMMA SpansApart ==
  ASSUME NEW v \in Nat, NEW n \in Nat, NEW f \in Nat, NEW w \in Nat, NEW k \in Nat,
         Base <= v, f <= n, v + n <= w, v + n <= Base + RamSize
  PROVE  \A i \in Span(v, f) : i \in 0 .. RamSize - 1 /\ i \notin Span(w, k)
BY Numbers DEF Span

(* What does not write below v keeps an image that ends there.             *)
LEMMA ImageKept ==
  ASSUME Types, NEW v \in Int, NEW n \in Nat, AboveImage(v), image' = image,
         \A i \in 0 .. RamSize - 1 :
           i \notin Span(v, n) \/ v \notin BusAddresses =>
             mem'[i] = mem[i] /\ mmu'.perm[i] = mmu.perm[i],
         NEW k \in DOMAIN image, InPlace(k)
  PROVE  InPlace(k)'
<1>1. /\ image[k].vaddr \in Nat /\ image[k].memsz \in Nat /\ image[k].filesz \in Nat
      /\ Base <= image[k].vaddr /\ image[k].filesz <= image[k].memsz
      /\ ImageEnd(k) <= Base + RamSize
  BY SegmentFits DEF Types
<1> DEFINE S == Span(image[k].vaddr, image[k].filesz)
<1>2. \A i \in S : /\ i \in 0 .. RamSize - 1
                   /\ i + Base < ImageEnd(k)
  BY <1>1, Numbers DEF Span, ImageEnd
<1>3. \A i \in S : i \notin Span(v, n) \/ v \notin BusAddresses
  <2>1. CASE v < Base
    BY <2>1, Numbers DEF BusAddresses
  <2>2. CASE ~(v < Base)
    <3>1. ImageEnd(k) <= v
      BY <2>2 DEF AboveImage
    <3> QED
      BY <1>1, <1>2, <3>1, Numbers DEF Span, ImageEnd
  <2> QED
    BY <2>1, <2>2
<1>4. \A i \in S : mem'[i] = mem[i] /\ mmu'.perm[i] = mmu.perm[i]
  BY <1>2, <1>3
<1> QED
  BY <1>4 DEF InPlace

(* Nothing is loaded at first.                                             *)
LEMMA ImageInit == Init => ImageInv
<1> SUFFICES ASSUME Init PROVE ImageInv
  OBVIOUS
<1>1. at = "init" /\ elf = "unset"
  BY DEF Init
<1> QED
  BY <1>1 DEF ImageInv

(* elf_load keeps what it loaded, and the pointer follows it.              *)
LEMMA ImageLoads == StartInv /\ ImageInv /\ (LoadSegment \/ ElfLoaded) => ImageInv'
<1> SUFFICES ASSUME StartInv, ImageInv, LoadSegment \/ ElfLoaded PROVE ImageInv'
  OBVIOUS
<1>1. at = "segments" /\ Types /\ elf = "unset"
  BY DEF LoadSegment, ElfLoaded, Goes, StartInv, Order, Early
<1>2. CASE LoadSegment
  <2>1. image' = image /\ elf' = elf /\ setup.done \in Nat
        /\ setup' = [setup EXCEPT !.done = @ + 1] /\ setup'.done = setup.done + 1
    BY <1>1, <1>2 DEF LoadSegment, held, Types
  <2>2. PICK k : k = setup.done + 1
    OBVIOUS
  <2>3. /\ k \in DOMAIN image /\ k \in Nat
        /\ MmuOK(mmu') /\ mmu'.size = RamSize /\ mmu'.curr_vaddr = ImageEnd(k)
        /\ \A i \in 0 .. RamSize - 1 : i \notin Span(image[k].vaddr, image[k].memsz) =>
             mem'[i] = mem[i] /\ mmu'.perm[i] = mmu.perm[i]
        /\ InPlace(k)'
    BY <1>1, <1>2, <2>2, LoadEffect
  <2>4. /\ image[k].vaddr \in Nat /\ image[k].memsz \in Nat
        /\ DOMAIN image = 1 .. Len(image)
        /\ \A j \in 1 .. k - 1 : ImageEnd(j) <= image[k].vaddr
    BY <1>1, <2>3, SegmentFits DEF Types
  <2>5. ASSUME NEW j \in DOMAIN image, j <= setup.done
        PROVE  InPlace(j)' /\ ImageEnd(j) <= ImageEnd(k)
    <3>1. InPlace(j)
      BY <1>1, <2>5 DEF ImageInv
    <3>2. ImageEnd(j) <= image[k].vaddr
      BY <2>1, <2>2, <2>3, <2>4, <2>5
    <3>3. /\ image[j].vaddr \in Nat /\ image[j].memsz \in Nat
          /\ image[j].filesz \in Nat /\ Base <= image[j].vaddr
          /\ image[j].filesz <= image[j].memsz /\ ImageEnd(j) <= Base + RamSize
      BY <1>1, <2>5, SegmentFits DEF Types
    <3>4. \A i \in Span(image[j].vaddr, image[j].filesz) :
            i \in 0 .. RamSize - 1 /\ i \notin Span(image[k].vaddr, image[k].memsz)
      BY <2>4, <3>2, <3>3, SpansApart DEF ImageEnd
    <3>5. InPlace(j)'
      BY <2>1, <2>3, <3>1, <3>4 DEF InPlace
    <3>6. ImageEnd(j) <= ImageEnd(k)
      <4>1. ImageEnd(k) = image[k].vaddr + image[k].memsz
        BY DEF ImageEnd
      <4>2. ImageEnd(j) \in Int
        BY <3>3 DEF ImageEnd
      <4> QED
        BY <2>4, <3>2, <4>1, <4>2
    <3> QED
      BY <3>5, <3>6
  <2>6. \A j \in DOMAIN image : j <= setup'.done =>
          InPlace(j)' /\ ImageEnd(j)' <= mmu'.curr_vaddr
    <3>1. \A j \in DOMAIN image : ImageEnd(j)' = ImageEnd(j)
      BY <2>1 DEF ImageEnd
    <3>2. \A j \in DOMAIN image : j <= setup'.done => j <= setup.done \/ j = k
      BY <2>1, <2>2, <2>4
    <3>3. ImageEnd(k) <= ImageEnd(k)
      BY <2>4 DEF ImageEnd
    <3> QED
      BY <2>3, <2>5, <3>1, <3>2, <3>3
  <2> QED
    BY <1>1, <2>1, <2>6 DEF ImageInv
<1>3. CASE ElfLoaded
  <2>1. /\ setup.done = Len(image) /\ at' = "run" /\ elf' = "loaded"
        /\ setup' = [setup EXCEPT !.done = 0]
        /\ UNCHANGED <<mmu, mem, core, request, image>>
    BY <1>3 DEF ElfLoaded, Goes, held
  <2>2. DOMAIN image = 1 .. Len(image) /\ Len(image) \in Nat
    <3>1. image \in Seq(Segments)
      BY <1>1, StartupAssumption DEF Types
    <3> QED
      BY <3>1
  <2>3. \A k \in DOMAIN image : InPlace(k) /\ ImageEnd(k) <= mmu.curr_vaddr
    BY <1>1, <2>1, <2>2 DEF ImageInv
  <2>4. \A k \in DOMAIN image : InPlace(k)' /\ ImageEnd(k)' = ImageEnd(k)
    BY <2>1, <2>3 DEF InPlace, ImageEnd
  <2>5. AboveImage(mmu.curr_vaddr)'
    BY <2>1, <2>3, <2>4 DEF AboveImage
  <2>6. \A c \in Cores : core[c] = Idle
    BY <1>1 DEF StartInv, Order, Early
  <2>7. \A t \in Threads : Stage(t, "none")
    BY <1>1, <2>6 DEF StartInv, Requests, Idle, Threads
  <2>8. \A c \in Cores : StackAt(c)' < Base
    <3>1. \A c \in Cores : Pushes(c)' = 0 /\ core'[c].sp = 0
      BY <2>1, <2>6 DEF Pushes, Idle
    <3>2. \A c \in Cores : StackAt(c)' = 0 + 0 * WordBytes - StackSize
      BY <3>1 DEF StackAt
    <3> QED
      BY <3>2, Numbers
  <2> QED
    BY <2>1, <2>4, <2>5, <2>7, <2>8 DEF ImageInv, AboveImage, Stage
<1> QED
  BY <1>2, <1>3

(* Steps that write no memory.                                             *)
LEMMA ImageStays ==
  ASSUME StartInv, ImageInv, StacksStay,
         \/ Moves \/ core_start \/ core_join
         \/ \E c \in Cores : GuestAccess(c) \/ Takes(c) \/ CoreEnds(c)
         \/ UNCHANGED vars
  PROVE  ImageInv'
<1>1. /\ UNCHANGED <<mmu, mem, elf, image>>
      /\ at' = "segments" => setup' = setup /\ at \in {"file", "segments"}
      /\ request' = request \/ \E c \in Cores : request' = [request EXCEPT ![c] = NoRequest]
  BY DEF Moves, core_start, core_join, GuestAccess, Takes, CoreEnds, vars, held, Goes
<1>2. \A k \in DOMAIN image : (InPlace(k) => InPlace(k)') /\ ImageEnd(k)' = ImageEnd(k)
  BY <1>1 DEF InPlace, ImageEnd
<1>3. \A v : AboveImage(v) => AboveImage(v)'
  BY <1>1, <1>2 DEF AboveImage
<1>4. ASSUME at' = "segments", NEW k \in DOMAIN image, k <= setup'.done
      PROVE  InPlace(k) /\ ImageEnd(k) <= mmu.curr_vaddr
  <2>1. CASE at = "segments"
    BY <1>1, <1>4, <2>1 DEF ImageInv
  <2>2. CASE at = "file"
    <3>1. setup'.done = 0
      BY <1>1, <1>4, <2>2 DEF StartInv, Order
    <3>2. k \in Nat /\ k >= 1
      BY <1>4, SegmentFits DEF StartInv, Types
    <3> QED
      BY <1>4, <3>1, <3>2
  <2> QED
    BY <1>1, <1>4, <2>1, <2>2
<1>5. \A t \in Threads : request'[t].stage # "none" => request'[t] = request[t]
  BY <1>1, Numbers DEF StartInv, Types, NoRequest
<1>6. ASSUME elf = "loaded", NEW t \in Threads, request'[t].stage # "none"
      PROVE  AboveImage(request'[t].at)
  BY <1>5, <1>6 DEF ImageInv, Stage
<1>7. ASSUME elf = "loaded", NEW c \in Cores
      PROVE  AboveImage(StackAt(c)')
  BY <1>7 DEF ImageInv, StacksStay
<1>8. elf' = "loaded" => /\ \A k \in DOMAIN image' : InPlace(k)'
                         /\ AboveImage(mmu.curr_vaddr)'
                         /\ \A t \in Threads : ~Stage(t, "none")' => AboveImage(request[t].at)'
                         /\ \A c \in Cores : AboveImage(StackAt(c))'
  <2> SUFFICES ASSUME elf = "loaded"
               PROVE  /\ \A k \in DOMAIN image' : InPlace(k)'
                      /\ AboveImage(mmu.curr_vaddr)'
                      /\ \A t \in Threads : ~Stage(t, "none")' => AboveImage(request[t].at)'
                      /\ \A c \in Cores : AboveImage(StackAt(c))'
    BY <1>1
  <2>1. \A k \in DOMAIN image' : InPlace(k)'
    BY <1>1, <1>2 DEF ImageInv
  <2>2. AboveImage(mmu.curr_vaddr)'
    BY <1>1, <1>3 DEF ImageInv
  <2>3. \A t \in Threads : ~Stage(t, "none")' => AboveImage(request[t].at)'
    BY <1>1, <1>2, <1>6 DEF AboveImage, Stage
  <2>4. \A c \in Cores : AboveImage(StackAt(c))'
    BY <1>1, <1>2, <1>7 DEF AboveImage
  <2> QED
    BY <2>1, <2>2, <2>3, <2>4
<1> QED
  BY <1>1, <1>2, <1>4, <1>8 DEF ImageInv

(* Steps after the load: what they hand out, too, lies above the image.    *)
LEMMA ImageGuarded ==
  ASSUME ImageInv, image' = image, elf' = elf, at' # "segments",
         elf = "loaded" =>
           /\ \A k \in DOMAIN image : InPlace(k)'
           /\ AboveImage(mmu'.curr_vaddr)
           /\ \A t \in Threads : request'[t].stage # "none" => AboveImage(request'[t].at)
           /\ \A c \in Cores : AboveImage(StackAt(c)')
  PROVE  ImageInv'
<1>1. \A k \in DOMAIN image : ImageEnd(k)' = ImageEnd(k)
  BY DEF ImageEnd
<1>2. ASSUME elf' = "loaded"
      PROVE  /\ AboveImage(mmu.curr_vaddr)'
             /\ \A t \in Threads : ~Stage(t, "none")' => AboveImage(request[t].at)'
             /\ \A c \in Cores : AboveImage(StackAt(c))'
  <2>1. AboveImage(mmu.curr_vaddr)'
    BY <1>1, <1>2 DEF AboveImage
  <2>2. \A t \in Threads : ~Stage(t, "none")' => AboveImage(request[t].at)'
    BY <1>1, <1>2 DEF AboveImage, Stage
  <2>3. \A c \in Cores : AboveImage(StackAt(c))'
    BY <1>1, <1>2 DEF AboveImage
  <2> QED
    BY <2>1, <2>2, <2>3
<1> QED
  BY <1>2 DEF ImageInv

(* mmu_allocate hands out what lies past the image.                        *)
LEMMA ImageAllocates ==
  ASSUME StartInv, ImageInv, StacksStay, NEW t \in Threads,
         (\E n \in Nat : Asks(t, n)) \/ Bump(t) \/ Grant(t)
  PROVE  ImageInv'
<1>1. /\ UNCHANGED <<mem, at, elf, core, image>>
      /\ at # "segments"
  <2>1. UNCHANGED <<mem, at, elf, core, image>>
    BY DEF Asks, Ask, Bump, Grant, held
  <2>2. at # "segments"
    <3>1. \A c \in Cores : at = "segments" => core[c].state = "none"
      BY DEF StartInv, Order, Early, Idle
    <3>2. \/ \E n \in Nat : Asks(t, n)
          \/ ~Stage(t, "none")
      BY DEF Bump, Grant, Stage
    <3> QED
      BY <3>1, <3>2 DEF Asks, Runs, StartInv, Requests, Threads, Stage
  <2> QED
    BY <2>1, <2>2
<1>2. Types /\ MmuOK(mmu) /\ mmu.size = RamSize /\ mmu.curr_vaddr \in Nat
      /\ request \in [Threads -> [stage : Stages, at : Nat, size : Nat]]
  BY DEF StartInv, Types, MmuOK
<1>3. elf = "loaded" => \A c \in Cores : AboveImage(StackAt(c)')
  BY DEF ImageInv, StacksStay
<1>4. ASSUME NEW n \in Nat, Asks(t, n)
      PROVE  ImageInv'
  <2>1. /\ mmu' = mmu
        /\ request' = [request EXCEPT ![t] =
                         IF CanAllocate(mmu, n)
                         THEN [stage |-> "asked", at |-> mmu.curr_vaddr, size |-> n]
                         ELSE [stage |-> "done", at |-> 0, size |-> n]]
    BY <1>4 DEF Asks, Ask
  <2>2. request'[t].at \in {0, mmu.curr_vaddr}
        /\ \A u \in Threads : u # t => request'[u] = request[u]
    BY <1>2, <2>1
  <2>3. elf = "loaded" => AboveImage(request'[t].at)
    BY <2>2, Numbers DEF ImageInv, AboveImage
  <2>4. elf = "loaded" =>
          \A u \in Threads : request'[u].stage # "none" => AboveImage(request'[u].at)
    BY <2>2, <2>3 DEF ImageInv, Stage
  <2>5. \A k \in DOMAIN image : InPlace(k) => InPlace(k)'
    BY <1>1, <2>1 DEF InPlace
  <2> QED
    BY <1>1, <1>3, <2>1, <2>4, <2>5, ImageGuarded DEF ImageInv
<1>5. CASE Bump(t) \/ Grant(t)
  <2> DEFINE v == request[t].at
             n == request[t].size
  <2>1. /\ Pending(t)
        /\ request' = [request EXCEPT ![t].stage = IF Stage(t, "asked") THEN "bumped"
                                                    ELSE "done"]
        /\ \/ mmu' = [mmu EXCEPT !.curr_vaddr = v + Aligned(n)]
           \/ mmu' = SetPerm(mmu, v, n, FreshPerm)
    BY <1>5 DEF Bump, Grant, Pending, Stage
  <2>2. v \in Nat /\ n \in Nat /\ Fits(v, n) /\ Aligned(n) \in Nat /\ Base <= v
    <3>1. v \in Nat /\ n \in Nat /\ Fits(v, n)
      BY <1>2, <2>1 DEF StartInv, Requests
    <3> QED
      BY <3>1, AnswerRanges
  <2>3. elf = "loaded" => AboveImage(v)
    BY <2>1 DEF ImageInv, Pending, Stage
  <2>4. \A u \in Threads : /\ request'[u].at = request[u].at
                           /\ request'[u].stage # "none" => request[u].stage # "none"
    BY <1>2, <2>1 DEF Pending
  <2>5. elf = "loaded" =>
          \A u \in Threads : request'[u].stage # "none" => AboveImage(request'[u].at)
    BY <2>4 DEF ImageInv, Stage
  <2> HIDE DEF v, n
  <2>6. /\ \A i \in 0 .. RamSize - 1 : i \notin Span(v, n) => mmu'.perm[i] = mmu.perm[i]
        /\ elf = "loaded" => AboveImage(mmu'.curr_vaddr)
    <3>1. CASE mmu' = [mmu EXCEPT !.curr_vaddr = v + Aligned(n)]
      <4>1. mmu'.perm = mmu.perm /\ mmu'.curr_vaddr = v + Aligned(n)
        BY <1>2, <3>1 DEF MmuOK
      <4>2. AboveImage(v) => AboveImage(v + Aligned(n))
        <5> SUFFICES ASSUME AboveImage(v), NEW k \in DOMAIN image
                     PROVE  ImageEnd(k) <= v + Aligned(n)
          BY DEF AboveImage
        <5>1. ImageEnd(k) <= v
          BY <2>2, Numbers DEF AboveImage
        <5>2. image[k].vaddr \in Nat /\ image[k].memsz \in Nat
          BY <1>2, SegmentFits DEF Types
        <5> QED
          BY <2>2, <5>1, <5>2 DEF ImageEnd
      <4> QED
        BY <2>3, <4>1, <4>2
    <3>2. CASE mmu' = SetPerm(mmu, v, n, FreshPerm)
      <4>1. /\ mmu'.curr_vaddr = mmu.curr_vaddr
            /\ \A i \in 0 .. mmu.size - 1 :
                 mmu'.perm[i] = IF i \in Span(v, n) THEN FreshPerm ELSE mmu.perm[i]
        BY <1>2, <2>2, <3>2, Numbers, SetPermOK
      <4> QED
        BY <1>2, <4>1 DEF ImageInv
    <3> QED
      BY <2>1, <3>1, <3>2
  <2>7. ASSUME elf = "loaded", NEW k \in DOMAIN image
        PROVE  InPlace(k)'
    <3>1. InPlace(k) /\ AboveImage(v) /\ v \in Int
      BY <2>2, <2>3, <2>7 DEF ImageInv
    <3>2. v \in BusAddresses
      BY <2>2, AnswerRanges
    <3>3. \A i \in 0 .. RamSize - 1 : i \notin Span(v, n) \/ v \notin BusAddresses =>
            mem'[i] = mem[i] /\ mmu'.perm[i] = mmu.perm[i]
      BY <1>1, <2>6, <3>2
    <3> QED
      BY <1>1, <1>2, <2>2, <2>7, <3>1, <3>3, ImageKept
  <2> QED
    BY <1>1, <1>3, <2>5, <2>6, <2>7, ImageGuarded
<1> QED
  BY <1>4, <1>5

(* core_init writes nothing: it takes a block as the stack of the core.    *)
LEMMA ImageTakesStack == StartInv /\ ImageInv /\ core_init => ImageInv'
<1> SUFFICES ASSUME StartInv, ImageInv, core_init PROVE ImageInv'
  OBVIOUS
<1>1. /\ at' = "argv0" /\ request[Main].stage = "done"
      /\ request' = [request EXCEPT ![Main] = NoRequest]
      /\ UNCHANGED <<mmu, mem, elf, image>>
  BY DEF core_init, Goes, Answered, Stage, held
<1>2. \A c \in Cores : StackAt(c)' = StackAt(c) \/ StackAt(c)' = request[Main].at
  BY StartTakesStack
<1>3. elf = "loaded" => \A c \in Cores : AboveImage(StackAt(c)')
  BY <1>1, <1>2, Numbers DEF ImageInv, Stage
<1>4. elf = "loaded" =>
        \A t \in Threads : request'[t].stage # "none" => AboveImage(request'[t].at)
  BY <1>1 DEF ImageInv, Stage, NoRequest, StartInv, Types
<1>5. \A k \in DOMAIN image : InPlace(k) => InPlace(k)'
  BY <1>1 DEF InPlace
<1> QED
  BY <1>1, <1>3, <1>4, <1>5, ImageGuarded DEF ImageInv

(* Arguments are written into main's block, words below the stack pointer  *)
(* and so into the stack or, without one, below Base.                      *)
LEMMA ImageWrites ==
  ASSUME StartInv, ImageInv, StacksStay, WriteArgv0 \/ WriteArgv1 \/ push
  PROVE  ImageInv'
<1>1. /\ at' # "segments" /\ UNCHANGED <<elf, image>>
      /\ request' = request \/ request' = [request EXCEPT ![Main] = NoRequest]
  BY DEF WriteArgv0, WriteArgv1, push, Goes, Argument, Answered, held
<1>2. /\ Types /\ request[Main].at \in Nat /\ This \in Cores /\ core[This].sp \in Int
      /\ This >= This
  <2>1. Types
    BY DEF StartInv
  <2>2. This \in Cores /\ request[Main].at \in Nat
    BY <2>1, Numbers DEF Types, This
  <2>3. core[This].sp \in Int
    BY <2>1, <2>2 DEF Types
  <2>4. This >= This
    BY <2>2, Numbers DEF Cores
  <2> QED
    BY <2>1, <2>2, <2>3, <2>4
<1>3. PICK v, bytes : /\ v \in Int /\ Written(v, bytes) /\ Len(bytes) \in Nat
                      /\ elf = "loaded" => AboveImage(v)
  <2> DEFINE Found == \E v, bytes : /\ v \in Int /\ Written(v, bytes) /\ Len(bytes) \in Nat
                                    /\ elf = "loaded" => AboveImage(v)
  <2> SUFFICES Found
    OBVIOUS
  <2> HIDE DEF Found
  <2>1. ASSUME NEW name, NEW n, Argument(name, n), n \in Nat
        PROVE  Found
    <3>1. Written(request[Main].at, Bytes(name, n)) /\ Len(Bytes(name, n)) \in Nat
      BY <2>1, Lengths DEF Argument
    <3>2. elf = "loaded" => AboveImage(request[Main].at)
      BY <2>1, Numbers DEF ImageInv, Argument, Answered, Stage
    <3> QED
      BY <1>2, <3>1, <3>2 DEF Found
  <2>2. CASE WriteArgv0
    BY <2>1, <2>2, Numbers DEF WriteArgv0
  <2>3. CASE WriteArgv1
    <3>1. MainAsks(argv1)
      BY <2>3 DEF WriteArgv1, Goes, Argument, Answered, StartInv, Requests, Stage
    <3> QED
      BY <2>1, <2>3, <3>1 DEF WriteArgv1, MainAsks
  <2>4. CASE push
    <3> DEFINE w == core[This].sp - WordBytes
               x == Pushed(This)[setup.done + 1]
    <3>1. /\ at = "push" /\ setup.done < 6 /\ Written(w, Word(x))
          /\ setup.done \in Nat /\ w \in Int
      <4>1. at = "push" /\ setup.done < 6 /\ Written(w, Word(x))
        BY <2>4 DEF push, Slot
      <4>2. w \in Int
        BY <1>2, Numbers
      <4> QED
        BY <1>2, <4>1, <4>2 DEF Types
    <3>2. Len(Word(x)) \in Nat
      BY Lengths, Numbers
    <3>3. core[This].state = "none" /\ Answer(StackAt(This), StackSize)
      BY <1>2, <3>1 DEF StartInv, Order
    <3>4. /\ StackAt(This) <= w
          /\ w < StackAt(This) + StackSize /\ StackAt(This) \in Int
      <4>1. StackAt(This) = core[This].sp + setup.done * WordBytes - StackSize
        BY <3>1, <3>3 DEF StackAt, Pushes
      <4>2. (setup.done + 1) * WordBytes <= 6 * WordBytes
        <5>1. setup.done \in 0 .. 5
          BY <3>1
        <5> QED
          BY <5>1, Numbers
      <4>3. (setup.done + 1) * WordBytes = setup.done * WordBytes + WordBytes
        BY <3>1, Numbers
      <4>4. setup.done * WordBytes \in Nat /\ 6 * WordBytes <= StackSize
        BY <3>1, Numbers, StartupAssumption
      <4> QED
        BY <1>2, <4>1, <4>2, <4>3, <4>4, Numbers
    <3>5. elf = "loaded" => AboveImage(w)
      <4> HIDE DEF w
      <4>1. CASE StackAt(This) = 0
        BY <3>1, <3>4, <4>1, Numbers DEF AboveImage
      <4>2. CASE Fits(StackAt(This), StackSize) /\ elf = "loaded"
        <5>1. Base <= StackAt(This) /\ AboveImage(StackAt(This))
          BY <1>2, <4>2 DEF ImageInv, Fits
        <5>2. \A k \in DOMAIN image : ImageEnd(k) <= StackAt(This)
          BY <3>4, <5>1, Numbers DEF AboveImage
        <5>3. \A k \in DOMAIN image : ImageEnd(k) \in Int
          BY <1>2, SegmentFits DEF Types, ImageEnd
        <5> QED
          BY <3>1, <3>4, <5>2, <5>3 DEF AboveImage
      <4> QED
        BY <3>3, <4>1, <4>2 DEF Answer
    <3> QED
      BY <3>1, <3>2, <3>5 DEF Found
  <2> QED
    BY <2>2, <2>3, <2>4
<1>4. /\ mmu'.curr_vaddr = mmu.curr_vaddr
      /\ \A i \in 0 .. RamSize - 1 :
           i \notin Span(v, Len(bytes)) \/ v \notin BusAddresses =>
             mem'[i] = mem[i] /\ mmu'.perm[i] = mmu.perm[i]
  BY <1>2, <1>3, WrittenEffect
<1>5. ASSUME elf = "loaded", NEW k \in DOMAIN image
      PROVE  InPlace(k)'
  <2>1. InPlace(k) /\ AboveImage(v)
    BY <1>3, <1>5 DEF ImageInv
  <2> QED
    BY <1>1, <1>2, <1>3, <1>4, <1>5, <2>1, ImageKept
<1>6. elf = "loaded" =>
        \A t \in Threads : request'[t].stage # "none" => AboveImage(request'[t].at)
  <2> SUFFICES ASSUME elf = "loaded", NEW t \in Threads, request'[t].stage # "none"
               PROVE  AboveImage(request'[t].at)
    OBVIOUS
  <2>1. DOMAIN request = Threads
    BY <1>2 DEF Types
  <2>2. NoRequest.stage = "none"
    BY DEF NoRequest
  <2>3. request'[t] = request[t]
    BY <1>1, <2>1, <2>2
  <2>4. ~Stage(t, "none")
    BY <2>3 DEF Stage
  <2>5. AboveImage(request[t].at)
    BY <2>4 DEF ImageInv
  <2> QED
    BY <2>3, <2>5
<1>7. elf = "loaded" => AboveImage(mmu'.curr_vaddr)
  BY <1>4 DEF ImageInv
<1>8. elf = "loaded" => \A c \in Cores : AboveImage(StackAt(c)')
  BY DEF ImageInv, StacksStay
<1> QED
  BY <1>1, <1>5, <1>6, <1>7, <1>8, ImageGuarded

(* Every step keeps the image.                                             *)
LEMMA ImageNext == StartInv /\ ImageInv /\ [Next]_vars => ImageInv'
<1> SUFFICES ASSUME StartInv, ImageInv, [Next]_vars PROVE ImageInv'
  OBVIOUS
<1>1. CASE Next
  <2>1. StepCases
    BY <1>1, NextCases
  <2>2. CASE Moves \/ core_start \/ core_join \/ UNCHANGED vars
             \/ \E c \in Cores : GuestAccess(c) \/ Takes(c) \/ CoreEnds(c)
    BY <2>2, StartMoves, StartStarts, StartRuns, ImageStays
  <2>3. CASE \E t \in Threads : (\E n \in Nat : Asks(t, n)) \/ Bump(t) \/ Grant(t)
    BY <2>3, StartAsks, StartAllocates, ImageAllocates
  <2>4. CASE WriteArgv0 \/ WriteArgv1 \/ push
    BY <2>4, StartWritesArgument, StartPushes, ImageWrites
  <2> QED
    BY <2>1, <2>2, <2>3, <2>4, ImageLoads, ImageTakesStack DEF StepCases
<1>2. CASE UNCHANGED vars
  BY <1>2, StartRuns, ImageStays
<1> QED
  BY <1>1, <1>2

(* The image a core runs is wholly in memory, with its permissions: no     *)
(* block, not even one handed out in a race, no argument and no push lands *)
(* on it (elf_load, mmu_allocate, emulator_run).                           *)
THEOREM ImageStaysInPlace == Spec => []ImageInPlace
<1>1. ImageInv => ImageInPlace
  BY DEF ImageInv, ImageInPlace, InPlace
<1> QED
  BY <1>1, SetUpInOrder, ImageInit, ImageNext, PTL DEF Spec

----------------------------------------------------------------------------
(* Steps that only take an answer, or do not concern the allocator.        *)
LEMMA BlocksStay ==
  ASSUME BlocksInv, blocks' = blocks, raced' = raced, mmu'.curr_vaddr = mmu.curr_vaddr,
         \A t \in Threads : request'[t] = request[t] \/ request'[t] = NoRequest
  PROVE  BlocksInv'
<1>1. NoRequest.stage = "none"
  BY DEF NoRequest
<1>2. \A t \in Threads : request'[t].stage # "none" => request'[t] = request[t]
  BY <1>1
<1> QED
  BY <1>2 DEF BlocksInv, Pending, Stage

(* mmu_allocate, when no other call of it is under way.                    *)
LEMMA BlocksAsk ==
  ASSUME StartInv, BlocksInv, NEW t \in Threads, NEW n \in Nat, Asks(t, n)
  PROVE  BlocksInv'
<1>1. /\ request[t].stage = "none"
      /\ request' = [request EXCEPT ![t] =
                       IF CanAllocate(mmu, n)
                       THEN [stage |-> "asked", at |-> mmu.curr_vaddr, size |-> n]
                       ELSE [stage |-> "done", at |-> 0, size |-> n]]
      /\ raced' = (raced \/ \E u \in Threads : Pending(u))
      /\ mmu' = mmu /\ blocks' = blocks
  BY DEF Asks, Ask, Stage, Pending
<1>2. /\ request'[t].stage \in {"asked", "done"}
      /\ request'[t].stage = "asked" => request'[t].at = mmu.curr_vaddr
      /\ \A u \in Threads : u # t => request'[u] = request[u]
  <2>1. request \in [Threads -> [stage : Stages, at : Nat, size : Nat]]
    BY DEF StartInv, Types
  <2> QED
    BY <1>1, <2>1
<1> SUFFICES ASSUME ~raced' PROVE BlocksInv'
  BY DEF BlocksInv
<1>3. ~raced /\ \A u \in Threads : ~Pending(u)
  BY <1>1
<1>4. \A u \in Threads : request'[u].stage \in {"asked", "bumped"} =>
        u = t /\ request'[u].at = mmu.curr_vaddr /\ request'[u].stage # "bumped"
  BY <1>2, <1>3 DEF Pending
<1> QED
  BY <1>1, <1>3, <1>4 DEF BlocksInv, Pending, Stage

(* mmu_allocate moves the pointer past the block it will return.           *)
LEMMA BlocksBump ==
  ASSUME StartInv, BlocksInv, NEW t \in Threads, Bump(t)
  PROVE  BlocksInv'
<1> DEFINE v == request[t].at
           n == request[t].size
<1>1. /\ request[t].stage = "asked" /\ Pending(t)
      /\ mmu' = [mmu EXCEPT !.curr_vaddr = v + Aligned(n)]
      /\ request' = [request EXCEPT ![t].stage = "bumped"]
      /\ raced' = raced /\ blocks' = blocks
  BY DEF Bump, Stage, Pending
<1>2. v \in Nat /\ n \in Nat /\ Aligned(n) \in Nat /\ n <= Aligned(n)
  BY AnswerRanges DEF StartInv, Types
<1>3. /\ \A u \in Threads : u # t => request'[u] = request[u]
      /\ request'[t].at = v /\ request'[t].size = n /\ request'[t].stage = "bumped"
      /\ mmu'.curr_vaddr = v + Aligned(n)
  BY <1>1 DEF StartInv, Types, MmuOK
<1> SUFFICES ASSUME ~raced' PROVE BlocksInv'
  BY DEF BlocksInv
<1>4. /\ \A u \in Threads : Pending(u) => u = t
      /\ \A b \in blocks : b.at + b.size <= v
      /\ \A b1, b2 \in blocks : b1 # b2 => Apart(b1.at, b1.size, b2.at, b2.size)
  BY <1>1 DEF BlocksInv
<1>5. \A u \in Threads : request'[u].stage \in {"asked", "bumped"} => u = t
  BY <1>3, <1>4 DEF Pending
<1>6. v + n <= mmu'.curr_vaddr
  BY <1>2, <1>3
<1>7. \A b \in blocks : b.at + b.size <= mmu'.curr_vaddr
  <2>1. \A b \in blocks : b.at \in Nat /\ b.size \in Nat
    BY DEF StartInv, Types
  <2> HIDE DEF v, n
  <2> QED
    BY <1>2, <1>3, <1>4, <2>1
<1> QED
  BY <1>1, <1>3, <1>4, <1>5, <1>6, <1>7 DEF BlocksInv, Pending, Stage

(* mmu_allocate returns its block.                                         *)
LEMMA BlocksGrant ==
  ASSUME StartInv, BlocksInv, NEW t \in Threads, Grant(t)
  PROVE  BlocksInv'
<1> DEFINE v == request[t].at
           n == request[t].size
           g == [owner |-> t, at |-> v, size |-> n]
<1>1. /\ request[t].stage = "bumped" /\ Pending(t)
      /\ mmu' = SetPerm(mmu, v, n, FreshPerm)
      /\ request' = [request EXCEPT ![t].stage = "done"]
      /\ raced' = raced
      /\ blocks' = IF raced THEN {} ELSE blocks \cup {g}
  BY DEF Grant, Stage, Pending
<1>2. v \in Nat /\ n \in Nat /\ MmuOK(mmu)
  BY DEF StartInv, Types
<1>3. mmu'.curr_vaddr = mmu.curr_vaddr
  BY <1>1, <1>2, Numbers, SetPermOK
<1>4. /\ \A u \in Threads : u # t => request'[u] = request[u]
      /\ request'[t].stage = "done"
  BY <1>1 DEF StartInv, Types
<1> SUFFICES ASSUME ~raced' PROVE BlocksInv'
  BY DEF BlocksInv
<1>5. /\ \A u \in Threads : Pending(u) => u = t
      /\ v + n <= mmu.curr_vaddr
      /\ \A b \in blocks : b.at + b.size <= v /\ b.at + b.size <= mmu.curr_vaddr
      /\ \A b1, b2 \in blocks : b1 # b2 => Apart(b1.at, b1.size, b2.at, b2.size)
  BY <1>1 DEF BlocksInv, Stage
<1>6. \A u \in Threads : request'[u].stage \notin {"asked", "bumped"}
  BY <1>4, <1>5 DEF Pending
<1>7. blocks' = blocks \cup {g} /\ g.at = v /\ g.size = n
  BY <1>1
<1> HIDE DEF v, n, g
<1>8. \A b \in blocks' : b.at + b.size <= mmu'.curr_vaddr
  BY <1>3, <1>5, <1>7
<1>9. \A b1, b2 \in blocks' : b1 # b2 => Apart(b1.at, b1.size, b2.at, b2.size)
  BY <1>5, <1>7 DEF Apart
<1> QED
  BY <1>6, <1>8, <1>9 DEF BlocksInv, Pending, Stage

(* Every step keeps the blocks apart.                                      *)
LEMMA BlocksNext == StartInv /\ BlocksInv /\ [Next]_vars => BlocksInv'
<1> SUFFICES ASSUME StartInv, BlocksInv, [Next]_vars PROVE BlocksInv'
  OBVIOUS
<1>1. CASE LoadSegment
  <2>1. /\ at = "segments" /\ blocks' = blocks /\ raced' = raced /\ request' = request
        /\ blocks = {} /\ \A c \in Cores : core[c] = Idle
    BY <1>1 DEF LoadSegment, StartInv, Order, Early
  <2>2. \A t \in Threads : request[t].stage = "none"
    BY <2>1 DEF StartInv, Requests, Idle, Threads, Stage
  <2> QED
    BY <2>1, <2>2 DEF BlocksInv, Pending, Stage
<1>2. ASSUME request' = request \/ \E t \in Threads : request' = [request EXCEPT ![t] = NoRequest],
             mmu'.curr_vaddr = mmu.curr_vaddr, blocks' = blocks, raced' = raced
      PROVE  BlocksInv'
  <2>1. \A t \in Threads : request'[t] = request[t] \/ request'[t] = NoRequest
    BY <1>2 DEF StartInv, Types
  <2> QED
    BY <1>2, <2>1, BlocksStay
<1>3. CASE Moves \/ ElfLoaded \/ core_init \/ core_start \/ core_join \/ UNCHANGED vars
           \/ \E c \in Cores : GuestAccess(c) \/ Takes(c) \/ CoreEnds(c)
  <2>1. /\ request' = request \/ \E t \in Threads : request' = [request EXCEPT ![t] = NoRequest]
        /\ mmu' = mmu /\ blocks' = blocks /\ raced' = raced
    BY <1>3, Numbers DEF Moves, ElfLoaded, core_init, Answered, core_start, core_join,
                         GuestAccess, Takes, CoreEnds, vars
  <2> QED
    BY <1>2, <2>1
<1>4. CASE WriteArgv0 \/ WriteArgv1
  <2>1. \E name, n : Argument(name, n) /\ n \in Nat /\ MainAsks(n)
    <3>1. CASE WriteArgv0
      <4>1. Argument("argv0", Argv0) /\ MainAsks(Argv0)
        BY <3>1 DEF WriteArgv0, Goes, Argument, Answered, StartInv, Requests, Stage
      <4> QED
        BY <4>1 DEF MainAsks
    <3>2. CASE WriteArgv1
      <4>1. Argument("argv1", argv1) /\ MainAsks(argv1)
        BY <3>2 DEF WriteArgv1, Goes, Argument, Answered, StartInv, Requests, Stage
      <4> QED
        BY <4>1 DEF MainAsks
    <3> QED
      BY <1>4, <3>1, <3>2
  <2>2. /\ Answered /\ blocks' = blocks /\ raced' = raced
        /\ mmu'.curr_vaddr = mmu.curr_vaddr
    BY <2>1, ArgumentEffect
  <2> QED
    BY <1>2, <2>2, Numbers DEF Answered
<1>5. CASE push
  <2> DEFINE w == core[This].sp - WordBytes
             x == Pushed(This)[setup.done + 1]
  <2>1. /\ Written(w, Word(x)) /\ request' = request /\ blocks' = blocks /\ raced' = raced
    BY <1>5 DEF push, Slot
  <2>2. Types /\ w \in Int
    <3>1. This \in Cores
      BY DEF StartInv, Types, This
    <3>2. core[This].sp \in Int
      BY <3>1 DEF StartInv, Types
    <3> QED
      BY <3>2, Numbers DEF StartInv
  <2>3. Len(Word(x)) \in Nat
    BY Lengths, Numbers
  <2> HIDE DEF w, x
  <2>4. mmu'.curr_vaddr = mmu.curr_vaddr
    BY <2>1, <2>2, <2>3, WrittenEffect
  <2> QED
    BY <1>2, <2>1, <2>4
<1>6. CASE \E t \in Threads : (\E n \in Nat : Asks(t, n)) \/ Bump(t) \/ Grant(t)
  BY <1>6, BlocksAsk, BlocksBump, BlocksGrant
<1>7. StepCases \/ UNCHANGED vars
  BY NextCases
<1> QED
  BY <1>1, <1>3, <1>4, <1>5, <1>6, <1>7 DEF StepCases

(* The blocks that mmu_allocate hands out to emulator_run and to the       *)
(* sys_brk of running cores lie apart, whoever asked and whatever fails,   *)
(* unless two threads were once in it together.                            *)
THEOREM BlocksLieApart == Spec => []BlocksDisjoint
<1>1. Init => BlocksInv
  BY DEF Init, BlocksInv, Pending, Stage, NoRequest
<1>2. StartInv /\ BlocksInv => BlocksDisjoint
  <2> SUFFICES ASSUME StartInv, BlocksInv, ~raced,
                      NEW b1 \in blocks, NEW b2 \in blocks, b1 # b2
               PROVE  ~Overlap(b1.at, b1.size, b2.at, b2.size)
    BY DEF BlocksDisjoint
  <2>1. /\ b1.at \in Nat /\ b1.size \in Nat /\ b2.at \in Nat /\ b2.size \in Nat
    BY DEF StartInv, Types
  <2>2. b1.at + b1.size <= b2.at \/ b2.at + b2.size <= b1.at
    BY DEF BlocksInv, Apart
  <2>3. Span(b1.at, b1.size) \cap Span(b2.at, b2.size) = {}
    <3> DEFINE v == b1.at  n == b1.size  w == b2.at  k == b2.size
    <3> HIDE DEF v, n, w, k
    <3>1. v \in Nat /\ n \in Nat /\ w \in Nat /\ k \in Nat /\ (v + n <= w \/ w + k <= v)
      BY <2>1, <2>2 DEF v, n, w, k
    <3>2. Span(v, n) \cap Span(w, k) = {}
      BY <3>1, Numbers DEF Span
    <3> QED
      BY <3>2 DEF v, n, w, k
  <2> QED
    BY <2>3 DEF Overlap
<1> QED
  BY <1>1, <1>2, BlocksNext, SetUpInOrder, PTL DEF Spec

----------------------------------------------------------------------------
(* What main gives to a core, where it lies and how long it is; a part     *)
(* that got no memory is at an address below Base.                         *)
Parts == {"stack", "argv0", "argv1"}

(* Its address, its size, and whether it got memory.                       *)
PartAt(c, p) == IF p = "stack" THEN StackAt(c)
                ELSE IF p = "argv0" THEN core[c].av0 ELSE core[c].av1
PartSize(p)  == IF p = "stack" THEN StackSize
                ELSE IF p = "argv0" THEN Argv0 ELSE argv1
Taken(c, p)  == PartAt(c, p) >= Base

(* Readable bytes of memory from v on.                                     *)
HoldsIn(m, q, v, bytes) ==
  \A j \in DOMAIN bytes :
    /\ v - Base + j - 1 \in DOMAIN m
    /\ m[v - Base + j - 1] = bytes[j]
    /\ "READ" \in q[v - Base + j - 1]

(* Bytes that were handed out and not written.                             *)
FreshIn(q, v, n) == \A i \in Span(v, n) : i \in 0 .. RamSize - 1 /\ q[i] = FreshPerm

(* A stack holds the words pushed, from its end down, and is fresh below.  *)
StackIn(m, q, v, done, words) ==
  /\ \A k \in 1 .. done : HoldsIn(m, q, v + StackSize - k * WordBytes, Word(words[k]))
  /\ FreshIn(q, v, StackSize - done * WordBytes)

(* A part holds what main wrote for the core.                              *)
PartIn(c, p) ==
  IF p = "stack" THEN StackIn(mem, mmu.perm, StackAt(c), Pushes(c), Pushed(c))
  ELSE IF p = "argv0" THEN HoldsIn(mem, mmu.perm, core[c].av0, Bytes("argv0", Argv0))
  ELSE HoldsIn(mem, mmu.perm, core[c].av1, Bytes("argv1", argv1))

(* A block mmu_allocate gave to main.                                      *)
Granted(v, n) == [owner |-> Main, at |-> v, size |-> n] \in blocks

(* No part overlaps another one.                                           *)
PartsApart ==
  \A c, d \in Cores, p, q \in Parts :
     Taken(c, p) /\ Taken(d, q) /\ <<c, p>> # <<d, q>> =>
        Apart(PartAt(c, p), PartSize(p), PartAt(d, q), PartSize(q))

(* Each part is a block of main and holds what belongs there.              *)
PartsHeld ==
  \A c \in Cores, p \in Parts :
     Taken(c, p) => Granted(PartAt(c, p), PartSize(p)) /\ PartIn(c, p)

(* The block main was given but has not used yet.                          *)
MainsBlock ==
  Stage(Main, "done") /\ request[Main].at >= Base =>
    /\ Granted(request[Main].at, request[Main].size)
    /\ FreshIn(mmu.perm, request[Main].at, request[Main].size)
    /\ \A c \in Cores, p \in Parts : Taken(c, p) =>
         Apart(PartAt(c, p), PartSize(p), request[Main].at, request[Main].size)

(* All of it, as long as no two calls of mmu_allocate overlapped.          *)
PartsInv == ~raced => PartsApart /\ PartsHeld /\ MainsBlock

(* A part that got memory is wholly in RAM.                                *)
LEMMA PartFits ==
  ASSUME StartInv, NEW c \in Cores, NEW p \in Parts, Taken(c, p)
  PROVE  /\ PartAt(c, p) \in Nat /\ PartSize(p) \in Nat
         /\ Base <= PartAt(c, p) /\ PartAt(c, p) + PartSize(p) < Base + RamSize
         /\ p = "argv1" => argv1 \in Nat
<1>1. core[c].av0 \in Nat /\ core[c].av1 \in Nat /\ core[c].sp \in Int
  BY DEF StartInv, Types
<1>2. StackAt(c) \in Int
  <2>1. Pushes(c) \in Nat
    BY DEF Pushes, StartInv, Types
  <2>2. Pushes(c) * WordBytes \in Nat
    BY <2>1, Numbers
  <2> QED
    BY <1>1, <2>2, Numbers DEF StackAt
<1>3. PartAt(c, p) \in Nat
  BY <1>1, <1>2, Numbers DEF Taken, PartAt
<1>4. PartSize(p) \in Nat /\ Fits(PartAt(c, p), PartSize(p))
  <2>1. CASE p = "stack"
    <3>1. StackAt(c) # 0 /\ PartAt(c, p) = StackAt(c) /\ PartSize(p) = StackSize
      BY <2>1, Numbers DEF Taken, PartAt, PartSize
    <3>2. ~(c = This /\ at = "push") /\ core[c].state = "none" /\ core[c].sp = 0 =>
            StackAt(c) < Base
      <4>1. ~(c = This /\ at = "push") /\ core[c].state = "none" /\ core[c].sp = 0 =>
              StackAt(c) = 0 + 0 * WordBytes - StackSize
        BY DEF StackAt, Pushes
      <4> QED
        BY <4>1, Numbers
    <3>3. Answer(StackAt(c), StackSize)
      BY <1>3, <3>1, <3>2, Numbers DEF StartInv, Order, Taken
    <3> QED
      BY <3>1, <3>3, Numbers DEF Answer
  <2>2. CASE p = "argv0"
    BY <1>1, <2>2, Numbers DEF StartInv, Order, Answer, Taken, PartAt, PartSize
  <2>3. CASE p = "argv1"
    BY <1>1, <2>3, Numbers DEF StartInv, Order, Answer, Taken, PartAt, PartSize
  <2> QED
    BY <2>1, <2>2, <2>3 DEF Parts
<1>5. PartAt(c, p) + PartSize(p) < Base + RamSize /\ Base <= PartAt(c, p)
  BY <1>3, <1>4, AnswerRanges
<1> QED
  BY <1>3, <1>4, <1>5 DEF PartSize

(* What a step leaves alone outside of n bytes at v ...                    *)
Frame(v, n) == \A i \in 0 .. RamSize - 1 : i \notin Span(v, n) =>
                 mem'[i] = mem[i] /\ mmu'.perm[i] = mmu.perm[i]

(* ... bytes keep what they hold ...                                       *)
LEMMA HoldsKept ==
  ASSUME Types, Types', NEW v \in Int, NEW n \in Nat, Frame(v, n),
         NEW a \in Int, NEW s \in Nat, Apart(a, s, v, n),
         NEW w \in Int, NEW bytes, NEW l \in Nat, DOMAIN bytes = 1 .. l,
         a <= w, w + l <= a + s,
         HoldsIn(mem, mmu.perm, w, bytes)
  PROVE  HoldsIn(mem', mmu'.perm, w, bytes)
<1> SUFFICES ASSUME NEW j \in DOMAIN bytes
             PROVE  LET i == w - Base + j - 1 IN
                    i \in DOMAIN mem' /\ mem'[i] = bytes[j] /\ "READ" \in mmu'.perm[i]
  BY DEF HoldsIn
<1> DEFINE i == w - Base + j - 1
<1>1. i \in DOMAIN mem /\ mem[i] = bytes[j] /\ "READ" \in mmu.perm[i]
  BY DEF HoldsIn
<1>2. DOMAIN mem = 0 .. RamSize - 1 /\ DOMAIN mem' = 0 .. RamSize - 1
  BY DEF Types
<1>3. i \notin Span(v, n)
  BY Numbers DEF Span, Apart
<1> QED
  BY <1>1, <1>2, <1>3 DEF Frame

(* ... and fresh memory stays fresh.                                       *)
LEMMA FreshKept ==
  ASSUME NEW v \in Int, NEW n \in Nat, Frame(v, n),
         NEW a \in Int, NEW s \in Nat, Apart(a, s, v, n),
         NEW l \in Int, l <= s, FreshIn(mmu.perm, a, l)
  PROVE  FreshIn(mmu'.perm, a, l)
<1> SUFFICES ASSUME NEW i \in Span(a, l)
             PROVE  i \in 0 .. RamSize - 1 /\ mmu'.perm[i] = FreshPerm
  BY DEF FreshIn
<1>1. i \in 0 .. RamSize - 1 /\ mmu.perm[i] = FreshPerm
  BY DEF FreshIn
<1>2. i \notin Span(v, n)
  BY Numbers DEF Span, Apart
<1> QED
  BY <1>1, <1>2 DEF Frame

(* Words on a stack, at most six, lie in it.                               *)
LEMMA WordsFit ==
  ASSUME NEW a \in Int, NEW d \in 0 .. 6
  PROVE  /\ d * WordBytes \in Nat /\ d * WordBytes <= StackSize
         /\ \A k \in 1 .. d :
              /\ k * WordBytes \in Nat /\ k * WordBytes <= d * WordBytes
              /\ WordBytes <= k * WordBytes
<1>1. \A k \in 0 .. 6 : k * WordBytes \in Nat /\ k * WordBytes <= 6 * WordBytes
  BY Numbers
<1>2. \A k \in 1 .. d : WordBytes <= k * WordBytes /\ k * WordBytes <= d * WordBytes
  BY Numbers
<1> QED
  BY <1>1, <1>2, StartupAssumption

(* One more word is one more word further down.                            *)
LEMMA NextWord ==
  ASSUME NEW d \in 0 .. 5
  PROVE  (d + 1) * WordBytes = d * WordBytes + WordBytes /\ d * WordBytes \in Nat
BY Numbers

(* push is called six times for a core.                                    *)
LEMMA PushesRange == StartInv => \A c \in Cores : Pushes(c) \in 0 .. 6
<1> SUFFICES ASSUME StartInv, NEW c \in Cores PROVE Pushes(c) \in 0 .. 6
  OBVIOUS
<1>1. setup.done \in Nat /\ (at = "push" => setup.done <= 6)
  BY DEF StartInv, Order, Types
<1> QED
  BY <1>1 DEF Pushes

(* ... and with it a part that lies apart from these.                      *)
LEMMA PartKept ==
  ASSUME StartInv, StartInv', argv1' = argv1,
         NEW v \in Int, NEW n \in Nat, Frame(v, n),
         NEW c \in Cores, NEW p \in Parts, Taken(c, p), PartIn(c, p),
         Apart(PartAt(c, p), PartSize(p), v, n),
         PartAt(c, p)' = PartAt(c, p),
         p = "stack" => /\ Pushes(c)' = Pushes(c)
                        /\ Pushes(c) = 0 \/ Pushed(c)' = Pushed(c)
  PROVE  PartIn(c, p)'
<1> DEFINE a == PartAt(c, p)
           s == PartSize(p)
<1>1. /\ a \in Nat /\ a \in Int /\ s \in Nat /\ (p = "argv1" => argv1 \in Nat)
      /\ Types /\ Types'
      /\ Apart(a, s, v, n)
  BY PartFits DEF StartInv
<1> HIDE DEF a, s
<1>6. ASSUME NEW w \in Int, NEW b, NEW l \in Nat, DOMAIN b = 1 .. l,
             a <= w, w + l <= a + s, HoldsIn(mem, mmu.perm, w, b)
      PROVE  HoldsIn(mem', mmu'.perm, w, b)
  BY <1>1, <1>6, HoldsKept
<1> USE DEF a, s
<1>2. CASE p = "stack"
  <2> DEFINE d == Pushes(c)
             words == Pushed(c)
  <2>1. a = StackAt(c) /\ s = StackSize /\ StackAt(c)' = StackAt(c)
    BY <1>2 DEF PartAt, PartSize
  <2>2. d \in 0 .. 6
    BY PushesRange
  <2>3. /\ \A k \in 1 .. d :
             HoldsIn(mem, mmu.perm, a + StackSize - k * WordBytes, Word(words[k]))
        /\ FreshIn(mmu.perm, a, StackSize - d * WordBytes)
    BY <1>2, <2>1 DEF PartIn, StackIn
  <2> HIDE DEF a, s, d, words
  <2>4. \A k \in 1 .. d :
          HoldsIn(mem', mmu'.perm, a + StackSize - k * WordBytes, Word(words[k]))
    <3> SUFFICES ASSUME NEW k \in 1 .. d
                 PROVE  HoldsIn(mem', mmu'.perm, a + StackSize - k * WordBytes, Word(words[k]))
      OBVIOUS
    <3> DEFINE w == a + StackSize - k * WordBytes
               b == Word(words[k])
    <3>1. w \in Int /\ a <= w /\ w + WordBytes <= a + s
      <4>1. /\ k * WordBytes \in Nat /\ WordBytes <= k * WordBytes
            /\ k * WordBytes <= StackSize
        <5>1. /\ k * WordBytes \in Nat /\ WordBytes <= k * WordBytes
              /\ k * WordBytes <= d * WordBytes
          BY <2>2, WordsFit
        <5>2. d * WordBytes \in Nat /\ d * WordBytes <= StackSize
          BY <2>2, WordsFit
        <5> QED
          BY <5>1, <5>2, Numbers
      <4> QED
        BY <1>1, <2>1, <4>1, Numbers
    <3>2. DOMAIN b = 1 .. WordBytes /\ WordBytes \in Nat
      BY Lengths, Numbers
    <3>3. HoldsIn(mem, mmu.perm, w, b)
      BY <2>3
    <3> HIDE DEF w, b
    <3>4. HoldsIn(mem', mmu'.perm, w, b)
      BY <1>6, <3>1, <3>2, <3>3
    <3> QED
      BY <3>4 DEF w, b
  <2>5. FreshIn(mmu'.perm, a, StackSize - d * WordBytes)
    <3>1. /\ StackSize - d * WordBytes \in Int
          /\ StackSize - d * WordBytes <= s
      BY <2>1, <2>2, WordsFit, Numbers
    <3> QED
      BY <1>1, <2>3, <3>1, FreshKept
  <2>6. d = 0 \/ Pushed(c)' = words
    BY <1>2 DEF d, words
  <2>7. StackIn(mem', mmu'.perm, a, d, Pushed(c)')
    BY <2>2, <2>4, <2>5, <2>6 DEF StackIn
  <2> QED
    BY <1>2, <2>1, <2>7 DEF PartIn, d
<1>3. ASSUME p # "stack", NEW b, DOMAIN b = 1 .. s, HoldsIn(mem, mmu.perm, a, b)
      PROVE  HoldsIn(mem', mmu'.perm, a, b)
  <2> HIDE DEF a, s
  <2>1. a <= a /\ a + s <= a + s
    BY <1>1
  <2> QED
    BY <1>1, <1>3, <1>6, <2>1
<1>4. CASE p = "argv0"
  <2>1. DOMAIN Bytes("argv0", Argv0) = 1 .. s /\ a = core[c].av0 /\ core'[c].av0 = a
    BY <1>4, Lengths, Numbers DEF PartAt, PartSize
  <2> QED
    BY <1>3, <1>4, <2>1 DEF PartIn
<1>5. CASE p = "argv1"
  <2>1. DOMAIN Bytes("argv1", argv1) = 1 .. s /\ a = core[c].av1 /\ core'[c].av1 = a
    BY <1>1, <1>5, Lengths DEF PartAt, PartSize
  <2> QED
    BY <1>3, <1>5, <2>1 DEF PartIn
<1> QED
  BY <1>2, <1>4, <1>5 DEF Parts

(* A bus write of main into fresh memory succeeds.                         *)
LEMMA WriteFills ==
  ASSUME Types, NEW v \in BusAddresses, NEW bytes, NEW l \in Nat,
         DOMAIN bytes = 1 .. l, Len(bytes) = l, v + l <= Base + RamSize,
         FreshIn(mmu.perm, v, l), Written(v, bytes)
  PROVE  Frame(v, l) /\ HoldsIn(mem', mmu'.perm, v, bytes)
<1>1. v \in Int /\ v \in Nat /\ Base <= v /\ Len(bytes) \in Nat
  BY Numbers DEF BusAddresses
<1>2. MmuOK(mmu) /\ mmu.size = RamSize /\ DOMAIN mem = 0 .. RamSize - 1
  BY DEF Types
<1>3. WriteOK(mmu, v, l)
  <2>1. InRange(mmu, v, l)
    BY <1>1, <1>2, Numbers DEF InRange, End
  <2>2. "WRITE" \in FreshPerm
    BY DEF FreshPerm
  <2>3. CheckAccess(mmu, v, l, "WRITE")
    BY <2>2 DEF CheckAccess, FreshIn
  <2> QED
    BY <2>1, <2>3 DEF WriteOK
<1>4. /\ DOMAIN mem' = DOMAIN mem
      /\ \A i \in 0 .. RamSize - 1 : i \notin Span(v, Len(bytes)) \/ v \notin BusAddresses =>
           mem'[i] = mem[i] /\ mmu'.perm[i] = mmu.perm[i]
      /\ v \in BusAddresses /\ WriteOK(mmu, v, Len(bytes)) =>
           \A i \in Span(v, Len(bytes)) :
             /\ i \in 0 .. RamSize - 1
             /\ mem'[i] = bytes[i - (v - Base) + 1]
             /\ mmu'.perm[i] = AfterWrite(mmu.perm[i])
  BY <1>1, WrittenEffect
<1>5. Frame(v, l)
  BY <1>4 DEF Frame
<1>6. \A i \in Span(v, l) : /\ i \in 0 .. RamSize - 1
                            /\ mem'[i] = bytes[i - (v - Base) + 1]
                            /\ "READ" \in mmu'.perm[i]
  <2>1. "READ" \in AfterWrite(FreshPerm)
    BY DEF AfterWrite, FreshPerm
  <2> QED
    BY <1>3, <1>4, <2>1 DEF FreshIn
<1>7. ASSUME NEW j \in DOMAIN bytes
      PROVE  LET i == v - Base + j - 1 IN
             i \in DOMAIN mem' /\ mem'[i] = bytes[j] /\ "READ" \in mmu'.perm[i]
  <2> DEFINE i == v - Base + j - 1
  <2>1. i \in Span(v, l) /\ i - (v - Base) + 1 = j
    BY <1>1, Numbers DEF Span
  <2> HIDE DEF i
  <2> QED
    BY <1>2, <1>4, <1>6, <2>1 DEF i
<1> QED
  BY <1>5, <1>7 DEF HoldsIn

(* A step that changes at most where one part is.                          *)
LEMMA PartsTarget ==
  ASSUME PartsApart, PartsHeld, argv1' = argv1, blocks \subseteq blocks',
         NEW c \in Cores, NEW p \in Parts,
         \A d \in Cores, q \in Parts : <<c, p>> # <<d, q>> =>
           /\ PartAt(d, q)' = PartAt(d, q)
           /\ Taken(d, q) => PartIn(d, q)',
         Taken(c, p)' =>
           /\ PartIn(c, p)' /\ Granted(PartAt(c, p), PartSize(p))'
           /\ \A d \in Cores, q \in Parts : Taken(d, q) /\ <<c, p>> # <<d, q>> =>
                Apart(PartAt(d, q), PartSize(q), PartAt(c, p)', PartSize(p))
  PROVE  PartsApart' /\ PartsHeld'
<1>1. \A q : PartSize(q)' = PartSize(q)
  BY DEF PartSize
<1>2. PartsHeld'
  <2> SUFFICES ASSUME NEW d \in Cores, NEW q \in Parts, Taken(d, q)'
               PROVE  Granted(PartAt(d, q), PartSize(q))' /\ PartIn(d, q)'
    BY DEF PartsHeld
  <2>1. CASE <<c, p>> = <<d, q>>
    BY <2>1
  <2>2. CASE <<c, p>> # <<d, q>>
    <3>1. PartAt(d, q)' = PartAt(d, q) /\ Taken(d, q) /\ PartIn(d, q)'
      BY <2>2 DEF Taken
    <3> QED
      BY <1>1, <3>1 DEF PartsHeld, Granted
  <2> QED
    BY <2>1, <2>2
<1>3. PartsApart'
  <2> SUFFICES ASSUME NEW d \in Cores, NEW e \in Cores, NEW q \in Parts, NEW r \in Parts,
                      Taken(d, q)', Taken(e, r)', <<d, q>> # <<e, r>>
               PROVE  Apart(PartAt(d, q)', PartSize(q), PartAt(e, r)', PartSize(r))
    BY <1>1 DEF PartsApart, Apart
  <2>1. CASE <<c, p>> # <<d, q>> /\ <<c, p>> # <<e, r>>
    <3>1. /\ PartAt(d, q)' = PartAt(d, q) /\ Taken(d, q)
          /\ PartAt(e, r)' = PartAt(e, r) /\ Taken(e, r)
      BY <2>1 DEF Taken
    <3> QED
      BY <3>1 DEF PartsApart
  <2>2. CASE <<c, p>> = <<d, q>>
    <3>1. PartAt(e, r)' = PartAt(e, r) /\ Taken(e, r)
      BY <2>2 DEF Taken
    <3>2. Apart(PartAt(e, r), PartSize(r), PartAt(c, p)', PartSize(p))
      BY <2>2, <3>1
    <3> QED
      BY <2>2, <3>1, <3>2 DEF Apart
  <2>3. CASE <<c, p>> = <<e, r>>
    <3>1. PartAt(d, q)' = PartAt(d, q) /\ Taken(d, q)
      BY <2>3 DEF Taken
    <3>2. Apart(PartAt(d, q), PartSize(q), PartAt(c, p)', PartSize(p))
      BY <2>3, <3>1
    <3> QED
      BY <2>3, <3>1, <3>2 DEF Apart
  <2> QED
    BY <2>1, <2>2, <2>3
<1> QED
  BY <1>2, <1>3

(* Parts that keep their place and what they hold stay as they were.       *)
LEMMA PartsSame ==
  ASSUME PartsApart, PartsHeld, argv1' = argv1, blocks \subseteq blocks',
         \A d \in Cores, q \in Parts :
           /\ PartAt(d, q)' = PartAt(d, q)
           /\ Taken(d, q) => PartIn(d, q)'
  PROVE  PartsApart' /\ PartsHeld'
<1>1. \A q : PartSize(q)' = PartSize(q)
  BY DEF PartSize
<1>2. PartsHeld'
  <2> SUFFICES ASSUME NEW d \in Cores, NEW q \in Parts, Taken(d, q)'
               PROVE  Granted(PartAt(d, q), PartSize(q))' /\ PartIn(d, q)'
    BY DEF PartsHeld
  <2>1. PartAt(d, q)' = PartAt(d, q) /\ Taken(d, q) /\ PartIn(d, q)'
    BY DEF Taken
  <2> QED
    BY <1>1, <2>1 DEF PartsHeld, Granted
<1>3. PartsApart'
  <2> SUFFICES ASSUME NEW d \in Cores, NEW e \in Cores, NEW q \in Parts, NEW r \in Parts,
                      Taken(d, q)', Taken(e, r)', <<d, q>> # <<e, r>>
               PROVE  Apart(PartAt(d, q)', PartSize(q), PartAt(e, r)', PartSize(r))
    BY <1>1 DEF PartsApart, Apart
  <2>1. /\ PartAt(d, q)' = PartAt(d, q) /\ Taken(d, q)
        /\ PartAt(e, r)' = PartAt(e, r) /\ Taken(e, r)
    BY DEF Taken
  <2> QED
    BY <2>1 DEF PartsApart
<1> QED
  BY <1>2, <1>3

(* So does the block main holds.                                           *)
LEMMA MainsBlockKept ==
  ASSUME MainsBlock, blocks \subseteq blocks', argv1' = argv1,
         \A d \in Cores, q \in Parts : PartAt(d, q)' = PartAt(d, q),
         request'[Main].stage = "done" /\ request'[Main].at >= Base =>
           /\ request'[Main] = request[Main]
           /\ FreshIn(mmu'.perm, request[Main].at, request[Main].size)
  PROVE  MainsBlock'
<1> SUFFICES ASSUME request'[Main].stage = "done", request'[Main].at >= Base
             PROVE  /\ Granted(request[Main].at, request[Main].size)'
                    /\ FreshIn(mmu'.perm, request'[Main].at, request'[Main].size)
                    /\ \A c \in Cores, p \in Parts : Taken(c, p)' =>
                         Apart(PartAt(c, p)', PartSize(p)',
                               request'[Main].at, request'[Main].size)
  BY DEF MainsBlock, Stage, Apart, FreshIn
<1>1. /\ request'[Main] = request[Main]
      /\ FreshIn(mmu'.perm, request[Main].at, request[Main].size)
      /\ request[Main].stage = "done" /\ request[Main].at >= Base
  OBVIOUS
<1>2. /\ Granted(request[Main].at, request[Main].size)
      /\ \A c \in Cores, p \in Parts : Taken(c, p) =>
           Apart(PartAt(c, p), PartSize(p), request[Main].at, request[Main].size)
  BY <1>1 DEF MainsBlock, Stage
<1>3. Granted(request[Main].at, request[Main].size)'
  BY <1>1, <1>2 DEF Granted
<1>4. ASSUME NEW c \in Cores, NEW p \in Parts, Taken(c, p)'
      PROVE  Apart(PartAt(c, p)', PartSize(p)', request'[Main].at, request'[Main].size)
  <2>1. Taken(c, p) /\ PartAt(c, p)' = PartAt(c, p) /\ PartSize(p)' = PartSize(p)
    BY <1>4 DEF Taken, PartSize
  <2> QED
    BY <1>1, <1>2, <2>1
<1> QED
  BY <1>1, <1>3, <1>4

(* Steps that write no memory and grant none.                              *)
Quiet ==
  \/ Moves \/ ElfLoaded \/ core_start \/ core_join \/ UNCHANGED vars
  \/ \E t \in Threads : (\E n \in Nat : Asks(t, n)) \/ Bump(t)
  \/ \E c \in Cores : GuestAccess(c) \/ Takes(c) \/ CoreEnds(c)

(* Such a step touches no part ...                                         *)
LEMMA QuietParts ==
  ASSUME StartInv, Quiet
  PROVE  /\ UNCHANGED <<mem, blocks, argv1>> /\ mmu'.perm = mmu.perm
         /\ (~raced' => ~raced)
         /\ \A c \in Cores : /\ Pushes(c)' = Pushes(c) /\ core'[c].sp = core[c].sp
                             /\ core'[c].av0 = core[c].av0 /\ core'[c].av1 = core[c].av1
         /\ request'[Main].stage = "done" /\ request'[Main].at >= Base =>
              request'[Main] = request[Main]
<1>1. CASE \E t \in Threads : (\E n \in Nat : Asks(t, n)) \/ Bump(t)
  <2>1. PICK t \in Threads : (\E n \in Nat : Asks(t, n)) \/ Bump(t)
    BY <1>1
  <2>2. /\ UNCHANGED <<mem, blocks, argv1, at, setup, core>> /\ (~raced' => ~raced)
    <3>1. UNCHANGED <<mem, blocks, argv1, at, setup, core>>
      BY <2>1 DEF Asks, Ask, Bump, held
    <3>2. raced' = raced \/ \E X : raced' = (raced \/ X)
      BY <2>1, Zenon DEF Asks, Ask, Bump
    <3>3. ~raced' => ~raced
      BY <3>2, Zenon
    <3> QED
      BY <3>1, <3>3
  <2>3. mmu'.perm = mmu.perm
    BY <2>1 DEF Asks, Ask, Bump, StartInv, Types, MmuOK
  <2>4. request'[Main].stage = "done" /\ request'[Main].at >= Base =>
          request'[Main] = request[Main]
    <3>1. CASE Bump(t)
      BY <3>1 DEF Bump, StartInv, Types
    <3>2. CASE \E n \in Nat : Asks(t, n)
      <4>1. PICK n \in Nat : Asks(t, n)
        BY <3>2
      <4>2. request' = [request EXCEPT ![t] =
                         IF CanAllocate(mmu, n)
                         THEN [stage |-> "asked", at |-> mmu.curr_vaddr, size |-> n]
                         ELSE [stage |-> "done", at |-> 0, size |-> n]]
        BY <4>1 DEF Asks, Ask
      <4>3. t = Main => request'[Main].stage = "asked" \/ request'[Main].at = 0
        BY <4>2, Numbers DEF StartInv, Types
      <4>4. t # Main => request'[Main] = request[Main]
        BY <4>2, Numbers DEF StartInv, Types
      <4> QED
        BY <4>3, <4>4, Numbers
    <3> QED
      BY <2>1, <3>1, <3>2
  <2>5. \A c \in Cores : Pushes(c)' = Pushes(c)
    BY <2>2 DEF Pushes, This
  <2> QED
    BY <2>2, <2>3, <2>4, <2>5
<1>2. CASE core_start
  <2>1. PICK started \in {"running", "unstarted"} :
          /\ at = "push" /\ setup.done = 6 /\ at' # "push"
          /\ core' = [core EXCEPT ![This].state = started]
          /\ UNCHANGED <<mmu, mem, request, blocks, raced, argv1>>
    BY <1>2 DEF core_start, Goes, held
  <2>2. This \in Cores /\ This >= This
    BY Numbers DEF StartInv, Types, This, Cores
  <2>3. core[This].state = "none"
    BY <2>1, <2>2 DEF StartInv, Order
  <2>4. /\ \A c \in Cores : /\ core'[c].sp = core[c].sp
                            /\ core'[c].av0 = core[c].av0 /\ core'[c].av1 = core[c].av1
                            /\ c # This => core'[c] = core[c]
        /\ core'[This].state \in {"running", "unstarted"}
    BY <2>1, <2>2 DEF StartInv, Types
  <2>5. \A c \in Cores : Pushes(c)' = Pushes(c)
    BY <2>1, <2>2, <2>3, <2>4 DEF Pushes
  <2> QED
    BY <2>1, <2>4, <2>5
<1>3. CASE \E c \in Cores : CoreEnds(c)
  <2>1. PICK c \in Cores :
          /\ core[c].state = "running" /\ core' = [core EXCEPT ![c].state = "ended"]
          /\ UNCHANGED <<mmu, mem, at, setup, request, blocks, raced, argv1>>
    BY <1>3 DEF CoreEnds, Runs, held
  <2>2. \A d \in Cores : /\ core'[d].sp = core[d].sp
                         /\ core'[d].av0 = core[d].av0 /\ core'[d].av1 = core[d].av1
                         /\ core'[d].state = "none" <=> core[d].state = "none"
    BY <2>1 DEF StartInv, Types
  <2>3. \A d \in Cores : Pushes(d)' = Pushes(d)
    BY <2>1, <2>2 DEF Pushes, This
  <2> QED
    BY <2>1, <2>2, <2>3
<1>4. CASE \/ Moves \/ ElfLoaded \/ core_join \/ UNCHANGED vars
           \/ \E c \in Cores : GuestAccess(c) \/ Takes(c)
  <2>1. /\ UNCHANGED <<mmu, mem, core, blocks, raced, argv1>>
        /\ \/ at # "push" /\ at' # "push"
           \/ at' = at /\ setup' = setup
        /\ request' = request \/ \E c \in Cores : request' = [request EXCEPT ![c] = NoRequest]
    BY <1>4 DEF Moves, ElfLoaded, core_join, GuestAccess, Takes, vars, held, Goes
  <2>2. request'[Main] = request[Main]
    BY <2>1, Numbers DEF StartInv, Types
  <2>3. \A c \in Cores : Pushes(c)' = Pushes(c)
    BY <2>1 DEF Pushes, This
  <2> QED
    BY <2>1, <2>2, <2>3
<1> QED
  BY <1>1, <1>2, <1>3, <1>4 DEF Quiet

(* ... and keeps the invariant.                                            *)
LEMMA PartsQuiet ==
  ASSUME StartInv, StartInv', StacksStay, PartsInv, Quiet
  PROVE  PartsInv'
<1> SUFFICES ASSUME ~raced' PROVE PartsApart' /\ PartsHeld' /\ MainsBlock'
  BY DEF PartsInv
<1>1. /\ UNCHANGED <<mem, blocks, argv1>> /\ mmu'.perm = mmu.perm
      /\ \A c \in Cores : /\ Pushes(c)' = Pushes(c) /\ core'[c].sp = core[c].sp
                          /\ core'[c].av0 = core[c].av0 /\ core'[c].av1 = core[c].av1
      /\ request'[Main].stage = "done" /\ request'[Main].at >= Base =>
           request'[Main] = request[Main]
      /\ ~raced
  BY QuietParts
<1>2. PartsApart /\ PartsHeld /\ MainsBlock
  BY <1>1 DEF PartsInv
<1>3. \A d \in Cores, q \in Parts : PartAt(d, q)' = PartAt(d, q)
  BY <1>1 DEF StacksStay, PartAt
<1>4. \A d \in Cores : Pushed(d)' = Pushed(d)
  BY <1>1 DEF Pushed
<1>5. ASSUME NEW d \in Cores, NEW q \in Parts, Taken(d, q)
      PROVE  PartIn(d, q)'
  <2>1. PartIn(d, q)
    BY <1>2, <1>5 DEF PartsHeld
  <2>2. StackAt(d)' = StackAt(d)
    BY DEF StacksStay
  <2> QED
    BY <1>1, <1>4, <2>1, <2>2 DEF PartIn
<1>6. PartsApart' /\ PartsHeld'
  BY <1>1, <1>2, <1>3, <1>5, PartsSame
<1>7. MainsBlock'
  <2>1. request'[Main].stage = "done" /\ request'[Main].at >= Base =>
          FreshIn(mmu'.perm, request[Main].at, request[Main].size)
    BY <1>1, <1>2 DEF MainsBlock, Stage
  <2> QED
    BY <1>1, <1>2, <1>3, <2>1, MainsBlockKept
<1> QED
  BY <1>6, <1>7

(* A new block lies apart from what main gave to the cores, and its bytes  *)
(* are fresh.                                                              *)
LEMMA PartsGrant ==
  ASSUME StartInv, StartInv', StacksStay, BlocksInv, PartsInv,
         NEW t \in Threads, Grant(t)
  PROVE  PartsInv'
<1> DEFINE v == request[t].at
           n == request[t].size
<1> SUFFICES ASSUME ~raced' PROVE PartsApart' /\ PartsHeld' /\ MainsBlock'
  BY DEF PartsInv
<1>1. /\ Pending(t) /\ ~raced
      /\ mmu' = SetPerm(mmu, v, n, FreshPerm)
      /\ blocks' = blocks \cup {[owner |-> t, at |-> v, size |-> n]}
      /\ request' = [request EXCEPT ![t].stage = "done"]
      /\ UNCHANGED <<mem, at, setup, core, argv1>>
  BY DEF Grant, Stage, Pending, held
<1>2. PartsApart /\ PartsHeld /\ MainsBlock
  BY <1>1 DEF PartsInv
<1>3. /\ v \in Nat /\ n \in Nat /\ Fits(v, n) /\ MmuOK(mmu) /\ mmu.size = RamSize
      /\ v \in Int
  BY <1>1 DEF StartInv, Types, Requests
<1>4. Base <= v /\ v + n < Base + RamSize
  BY <1>3, AnswerRanges
<1>5. /\ request'[t].at = v /\ request'[t].size = n /\ request'[t].stage = "done"
      /\ t # Main => request'[Main] = request[Main]
  BY <1>1, Numbers DEF StartInv, Types
<1>6. \A b \in blocks : b.at + b.size <= v
  BY <1>1 DEF BlocksInv
<1> HIDE DEF v, n
<1>7. \A i \in 0 .. RamSize - 1 :
        mmu'.perm[i] = IF i \in Span(v, n) THEN FreshPerm ELSE mmu.perm[i]
  BY <1>1, <1>3, Numbers, SetPermOK
<1>8. Frame(v, n) /\ FreshIn(mmu'.perm, v, n)
  <2>1. \A i \in Span(v, n) : i \in 0 .. RamSize - 1
    BY <1>3, <1>4, Numbers DEF Span
  <2> QED
    BY <1>1, <1>7, <2>1 DEF Frame, FreshIn
<1>9. \A w, k : Granted(w, k) => Apart(w, k, v, n)
  BY <1>6 DEF Granted, Apart
<1>10. /\ \A c \in Cores : Pushes(c)' = Pushes(c) /\ Pushed(c)' = Pushed(c)
       /\ \A c \in Cores, p \in Parts : PartAt(c, p)' = PartAt(c, p)
  BY <1>1 DEF Pushes, Pushed, PartAt, StacksStay, This
<1>11. ASSUME NEW c \in Cores, NEW p \in Parts, Taken(c, p)
       PROVE  PartIn(c, p)' /\ Apart(PartAt(c, p), PartSize(p), v, n)
  <2>1. PartIn(c, p) /\ Apart(PartAt(c, p), PartSize(p), v, n)
    BY <1>2, <1>9, <1>11 DEF PartsHeld
  <2> QED
    BY <1>1, <1>3, <1>8, <1>10, <1>11, <2>1, PartKept
<1>12. PartsApart' /\ PartsHeld'
  BY <1>1, <1>2, <1>10, <1>11, PartsSame
<1>13. MainsBlock'
  <2>1. CASE t = Main
    <3>1. [owner |-> Main, at |-> v, size |-> n] \in blocks'
      BY <1>1, <2>1
    <3>2. \A c \in Cores, p \in Parts : Taken(c, p)' =>
            Apart(PartAt(c, p)', PartSize(p)', v, n)
      BY <1>1, <1>10, <1>11 DEF Taken, PartSize
    <3>3. request'[Main].at = v /\ request'[Main].size = n
      BY <1>5, <2>1
    <3> QED
      BY <1>8, <3>1, <3>2, <3>3 DEF MainsBlock, Granted
  <2>2. CASE t # Main
    <3>1. ASSUME request'[Main].stage = "done", request'[Main].at >= Base
          PROVE  FreshIn(mmu'.perm, request[Main].at, request[Main].size)
      <4> DEFINE a == request[Main].at
                 s == request[Main].size
      <4>1. /\ Granted(a, s) /\ FreshIn(mmu.perm, a, s) /\ a \in Int /\ s \in Nat
            /\ s \in Int
        BY <1>2, <1>5, <2>2, <3>1, Numbers DEF MainsBlock, Stage, StartInv, Types
      <4> HIDE DEF a, s
      <4>2. Apart(a, s, v, n) /\ s <= s
        BY <1>9, <4>1
      <4>3. FreshIn(mmu'.perm, a, s)
        BY <1>3, <1>8, <4>1, <4>2, FreshKept
      <4> QED
        BY <4>3 DEF a, s
    <3> QED
      BY <1>1, <1>2, <1>5, <1>10, <2>2, <3>1, MainsBlockKept
  <2> QED
    BY <2>1, <2>2
<1> QED
  BY <1>12, <1>13

(* core_init takes main's block as the stack of the core.                  *)
LEMMA PartsTakesStack ==
  ASSUME StartInv, PartsInv, core_init
  PROVE  PartsInv'
<1> SUFFICES ASSUME ~raced' PROVE PartsApart' /\ PartsHeld' /\ MainsBlock'
  BY DEF PartsInv
<1>1. /\ at = "stack" /\ at' = "argv0" /\ Stage(Main, "done") /\ ~raced
      /\ core' = [core EXCEPT ![This].sp = request[Main].at + StackSize]
      /\ request' = [request EXCEPT ![Main] = NoRequest]
      /\ UNCHANGED <<mmu, mem, setup, blocks, argv1>>
  BY DEF core_init, Goes, Answered, held
<1>2. PartsApart /\ PartsHeld /\ MainsBlock
  BY <1>1 DEF PartsInv
<1>3. PICK c \in Cores : /\ This = c /\ This' = c
                         /\ \A d \in Cores : d # c => StackAt(d)' = StackAt(d)
                         /\ StackAt(c)' = request[Main].at
  <2>1. /\ This \in Cores /\ This' = This
        /\ \A d \in Cores : d # This => StackAt(d)' = StackAt(d)
        /\ StackAt(This)' = request[Main].at
    BY StartTakesStack
  <2>2. PICK c \in Cores : c = This
    BY <2>1
  <2>3. StackAt(This)' = StackAt(c)'
    BY <2>1, <2>2 DEF StackAt, Pushes
  <2> QED
    BY <2>1, <2>2, <2>3
<1>4. core[c].state = "none" /\ request[Main].size = StackSize
      /\ request[Main].at \in Nat
  <2>1. c >= c
    BY <1>3, Numbers DEF Cores
  <2>2. core[c].state = "none"
    BY <1>1, <1>3, <2>1 DEF StartInv, Order
  <2>3. request[Main].size = StackSize
    BY <1>1 DEF StartInv, Requests, Stage, MainAsks
  <2> QED
    BY <2>2, <2>3, Numbers DEF StartInv, Types
<1>5. \A d \in Cores : /\ core'[d].av0 = core[d].av0 /\ core'[d].av1 = core[d].av1
                       /\ core'[d].state = core[d].state
  BY <1>1, <1>3 DEF StartInv, Types
<1>6. /\ \A d \in Cores : Pushes(d)' = Pushes(d) /\ Pushed(d)' = Pushed(d)
      /\ Pushes(c)' = 0
  BY <1>1, <1>3, <1>4, <1>5 DEF Pushes, Pushed
<1>7. /\ PartAt(c, "stack")' = request[Main].at /\ PartSize("stack") = StackSize
      /\ \A d \in Cores, p \in Parts : <<c, "stack">> # <<d, p>> =>
           PartAt(d, p)' = PartAt(d, p)
  BY <1>3, <1>5 DEF PartAt, PartSize
<1>8. ASSUME NEW d \in Cores, NEW p \in Parts, <<c, "stack">> # <<d, p>>, Taken(d, p)
      PROVE  PartIn(d, p)'
  <2>1. PartIn(d, p)
    BY <1>2, <1>8 DEF PartsHeld
  <2>2. p = "stack" => StackAt(d)' = StackAt(d)
    BY <1>3, <1>8
  <2> QED
    BY <1>1, <1>5, <1>6, <2>1, <2>2 DEF PartIn
<1>9. ASSUME request[Main].at >= Base
      PROVE  /\ PartIn(c, "stack")'
             /\ [owner |-> Main, at |-> request[Main].at, size |-> StackSize] \in blocks'
             /\ \A d \in Cores, p \in Parts : Taken(d, p) =>
                  Apart(PartAt(d, p), PartSize(p), request[Main].at, StackSize)
  <2>1. /\ Granted(request[Main].at, StackSize)
        /\ FreshIn(mmu.perm, request[Main].at, StackSize)
        /\ \A d \in Cores, p \in Parts : Taken(d, p) =>
             Apart(PartAt(d, p), PartSize(p), request[Main].at, StackSize)
    BY <1>1, <1>2, <1>4, <1>9 DEF MainsBlock
  <2>2. StackIn(mem', mmu'.perm, request[Main].at, 0, Pushed(c)')
    <3>1. StackSize - 0 * WordBytes = StackSize
      BY Numbers
    <3> QED
      BY <1>1, <2>1, <3>1 DEF StackIn
  <2>3. PartIn(c, "stack")'
    BY <1>3, <1>6, <2>2 DEF PartIn
  <2> QED
    BY <1>1, <2>1, <2>3 DEF Granted
<1>10. PartsApart' /\ PartsHeld'
  <2>1. Taken(c, "stack")' =>
          /\ PartIn(c, "stack")' /\ Granted(PartAt(c, "stack"), PartSize("stack"))'
          /\ \A d \in Cores, p \in Parts : Taken(d, p) /\ <<c, "stack">> # <<d, p>> =>
               Apart(PartAt(d, p), PartSize(p), PartAt(c, "stack")', PartSize("stack"))
    BY <1>3, <1>7, <1>9 DEF Taken, Granted, PartSize
  <2>2. /\ \A d \in Cores, p \in Parts : <<c, "stack">> # <<d, p>> =>
             PartAt(d, p)' = PartAt(d, p) /\ (Taken(d, p) => PartIn(d, p)')
        /\ "stack" \in Parts /\ blocks \subseteq blocks'
    BY <1>1, <1>7, <1>8 DEF Parts
  <2> QED
    BY <1>1, <1>2, <2>1, <2>2, PartsTarget
<1>11. MainsBlock'
  <2>1. request'[Main] = NoRequest
    BY <1>1, Numbers DEF StartInv, Types
  <2> QED
    BY <2>1 DEF MainsBlock, Stage, NoRequest
<1> QED
  BY <1>10, <1>11

(* Without memory for it nothing is written, and main's write into its own *)
(* block leaves every part alone.                                          *)
LEMMA PartsNone ==
  ASSUME StartInv, UNCHANGED <<mmu, mem>>
  PROVE  /\ Frame(Base + RamSize, 0)
         /\ \A c \in Cores, p \in Parts : Taken(c, p) =>
              Apart(PartAt(c, p), PartSize(p), Base + RamSize, 0)
<1>1. ASSUME NEW c \in Cores, NEW p \in Parts, Taken(c, p)
      PROVE  Apart(PartAt(c, p), PartSize(p), Base + RamSize, 0)
  <2> DEFINE a == PartAt(c, p)
             s == PartSize(p)
  <2>1. a \in Nat /\ s \in Nat /\ a + s < Base + RamSize
    BY <1>1, PartFits
  <2> HIDE DEF a, s
  <2>2. Apart(a, s, Base + RamSize, 0)
    BY <2>1, Numbers DEF Apart
  <2> QED
    BY <2>2 DEF a, s
<1> QED
  BY <1>1 DEF Frame

(* main copies an argument: the block becomes a part of the core.          *)
LEMMA PartsWriteArgument ==
  ASSUME StartInv, StartInv', StacksStay, PartsInv, WriteArgv0 \/ WriteArgv1
  PROVE  PartsInv'
<1> DEFINE v == request[Main].at
<1> SUFFICES ASSUME ~raced' PROVE PartsApart' /\ PartsHeld' /\ MainsBlock'
  BY DEF PartsInv
<1>1. PICK c \in Cores : c = This
  BY DEF StartInv, Types, This
<1>2. PICK p \in {"argv0", "argv1"} :
        /\ p = "argv0" => /\ at = "argv0" /\ at' = "argv1" /\ Argument("argv0", Argv0)
                          /\ core' = [core EXCEPT ![c].av0 = v] /\ setup' = setup
        /\ p = "argv1" => /\ at = "argv1" /\ at' = "push" /\ Argument("argv1", argv1)
                          /\ core' = [core EXCEPT ![c].av1 = v]
                          /\ setup' = [setup EXCEPT !.done = 0]
  <2>1. CASE WriteArgv0
    <3>1. /\ at = "argv0" /\ at' = "argv1" /\ Argument("argv0", Argv0)
          /\ core' = [core EXCEPT ![c].av0 = v] /\ setup' = setup
      BY <1>1, <2>1 DEF WriteArgv0, Goes
    <3> QED
      BY <3>1
  <2>2. CASE WriteArgv1
    <3>1. /\ at = "argv1" /\ at' = "push" /\ Argument("argv1", argv1)
          /\ core' = [core EXCEPT ![c].av1 = v] /\ setup' = [setup EXCEPT !.done = 0]
      BY <1>1, <2>2 DEF WriteArgv1, Goes
    <3> QED
      BY <3>1
  <2> QED
    BY <2>1, <2>2
<1>3. PICK n : n = PartSize(p)
  OBVIOUS
<1>4. /\ Argument(p, n) /\ Stage(Main, "done") /\ ~raced
      /\ request' = [request EXCEPT ![Main] = NoRequest]
      /\ UNCHANGED <<blocks, argv1>> /\ Written(v, Bytes(p, n))
  <2>1. Argument(p, n)
    BY <1>2, <1>3 DEF PartSize
  <2> QED
    BY <2>1 DEF Argument, Answered, held
<1>5. n \in Nat /\ request[Main].size = n
  BY <1>2, <1>3, <1>4 DEF StartInv, Requests, Stage, MainAsks, PartSize
<1>6. v \in Nat /\ v \in Int /\ Answer(v, n) /\ Types
  <2>1. v \in Nat /\ Types
    BY Numbers DEF StartInv, Types
  <2>2. Answer(v, n)
    BY <1>5, Numbers DEF StartInv, Requests
  <2> QED
    BY <2>1, <2>2
<1>7. PartsApart /\ PartsHeld /\ MainsBlock
  BY <1>4 DEF PartsInv
<1>8. c = This' /\ core[c].state = "none"
  <2>1. c >= c
    BY Numbers DEF Cores
  <2>2. core[c].state = "none"
    BY <1>1, <1>2, <2>1 DEF StartInv, Order
  <2>3. setup'.core = setup.core
    BY <1>2 DEF StartInv, Types
  <2> QED
    BY <1>1, <2>2, <2>3 DEF This
<1> HIDE DEF v
<1>9. /\ \A d \in Cores : /\ core'[d].state = core[d].state
                          /\ d # c => core'[d] = core[d]
      /\ p = "argv0" => core'[c].av0 = v /\ core'[c].av1 = core[c].av1
      /\ p = "argv1" => core'[c].av1 = v /\ core'[c].av0 = core[c].av0
  <2>1. core \in [Cores -> [state : {"none", "running", "unstarted", "ended"},
                            sp : Int, av0 : Nat, av1 : Nat]]
    BY DEF StartInv, Types
  <2>2. CASE p = "argv0" /\ core' = [core EXCEPT ![c].av0 = v]
    BY <2>1, <2>2
  <2>3. CASE p = "argv1" /\ core' = [core EXCEPT ![c].av1 = v]
    BY <2>1, <2>3
  <2> QED
    BY <1>2, <2>2, <2>3
<1>10. /\ PartAt(c, p)' = v
       /\ \A d \in Cores, q \in Parts : <<c, p>> # <<d, q>> =>
            PartAt(d, q)' = PartAt(d, q)
  BY <1>9 DEF PartAt, StacksStay, Parts
<1>11. /\ \A d \in Cores : Pushes(d)' = Pushes(d) /\ (d # c => Pushed(d)' = Pushed(d))
       /\ Pushes(c) = 0
  <2>1. at' = "push" => setup'.done = 0
    BY <1>2 DEF StartInv, Types
  <2> QED
    BY <1>1, <1>2, <1>8, <1>9, <2>1 DEF Pushes, Pushed
<1>12. ASSUME v >= Base
       PROVE  /\ Frame(v, n) /\ HoldsIn(mem', mmu'.perm, v, Bytes(p, n))
              /\ [owner |-> Main, at |-> v, size |-> n] \in blocks
              /\ \A d \in Cores, q \in Parts : Taken(d, q) =>
                   Apart(PartAt(d, q), PartSize(q), v, n)
  <2>1. /\ [owner |-> Main, at |-> v, size |-> n] \in blocks
        /\ FreshIn(mmu.perm, v, n)
        /\ \A d \in Cores, q \in Parts : Taken(d, q) =>
             Apart(PartAt(d, q), PartSize(q), v, n)
    BY <1>4, <1>5, <1>7, <1>12 DEF MainsBlock, v, Granted
  <2>2. v \in BusAddresses /\ v + n <= Base + RamSize
    BY <1>5, <1>6, <1>12, AnswerRanges, Numbers DEF Answer
  <2>3. DOMAIN Bytes(p, n) = 1 .. n /\ Len(Bytes(p, n)) = n
    BY <1>5, Lengths
  <2>4. Frame(v, n) /\ HoldsIn(mem', mmu'.perm, v, Bytes(p, n))
    BY <1>4, <1>5, <1>6, <2>1, <2>2, <2>3, WriteFills
  <2> QED
    BY <2>1, <2>4
<1>13. PICK w \in Int, k \in Nat :
         /\ Frame(w, k)
         /\ \A d \in Cores, q \in Parts : Taken(d, q) =>
              Apart(PartAt(d, q), PartSize(q), w, k)
  <2>1. CASE v >= Base
    BY <1>5, <1>6, <1>12, <2>1
  <2>2. CASE ~(v >= Base)
    <3>1. v \notin BusAddresses
      BY <1>6, <2>2, Numbers DEF BusAddresses
    <3>2. UNCHANGED <<mmu, mem>>
      BY <1>4, <3>1 DEF Written
    <3>3. Base + RamSize \in Int /\ 0 \in Nat
      BY Numbers
    <3> QED
      BY <3>2, <3>3, PartsNone
  <2> QED
    BY <2>1, <2>2
<1>14. ASSUME NEW d \in Cores, NEW q \in Parts, <<c, p>> # <<d, q>>, Taken(d, q)
       PROVE  PartIn(d, q)'
  <2>1. PartIn(d, q) /\ PartAt(d, q)' = PartAt(d, q)
    BY <1>7, <1>10, <1>14 DEF PartsHeld
  <2>2. Apart(PartAt(d, q), PartSize(q), w, k)
    BY <1>13, <1>14
  <2>3. Pushes(d)' = Pushes(d) /\ (Pushes(d) = 0 \/ Pushed(d)' = Pushed(d))
    BY <1>11
  <2> QED
    BY <1>4, <1>13, <1>14, <2>1, <2>2, <2>3, PartKept
<1>15. Taken(c, p)' =>
         /\ PartIn(c, p)' /\ Granted(PartAt(c, p), PartSize(p))'
         /\ \A d \in Cores, q \in Parts : Taken(d, q) /\ <<c, p>> # <<d, q>> =>
              Apart(PartAt(d, q), PartSize(q), PartAt(c, p)', PartSize(p))
  <2> SUFFICES ASSUME v >= Base
               PROVE  /\ PartIn(c, p)' /\ Granted(PartAt(c, p), PartSize(p))'
                      /\ \A d \in Cores, q \in Parts : Taken(d, q) =>
                           Apart(PartAt(d, q), PartSize(q), PartAt(c, p)', PartSize(p))
    BY <1>10 DEF Taken
  <2>1. PartIn(c, p)'
    BY <1>2, <1>3, <1>4, <1>9, <1>12 DEF PartIn, PartSize
  <2>2. PartSize(p)' = n
    BY <1>3, <1>4 DEF PartSize
  <2>3. Granted(PartAt(c, p), PartSize(p))'
    BY <1>4, <1>10, <1>12, <2>2 DEF Granted
  <2> QED
    BY <1>3, <1>10, <1>12, <2>1, <2>3
<1>16. PartsApart' /\ PartsHeld'
  <2>1. p \in Parts /\ blocks \subseteq blocks'
    BY <1>4 DEF Parts
  <2> QED
    BY <1>4, <1>7, <1>10, <1>14, <1>15, <2>1, PartsTarget
<1>17. MainsBlock'
  <2>1. request'[Main] = NoRequest
    BY <1>4, Numbers DEF StartInv, Types
  <2> QED
    BY <2>1 DEF MainsBlock, Stage, NoRequest
<1> QED
  BY <1>16, <1>17

(* A push writes the next word where the stack is still fresh.             *)
LEMMA PartsPush ==
  ASSUME StartInv, StartInv', StacksStay, PartsInv, push
  PROVE  PartsInv'
<1> SUFFICES ASSUME ~raced' PROVE PartsApart' /\ PartsHeld' /\ MainsBlock'
  BY DEF PartsInv
<1>1. PICK c \in Cores : c = This
  BY DEF StartInv, Types, This
<1> DEFINE v == core[c].sp - WordBytes
           a == StackAt(c)
           d == setup.done
           words == Pushed(c)
           b == Word(words[d + 1])
<1>2. /\ at = "push" /\ d < 6 /\ Written(v, b) /\ ~raced
      /\ core' = [core EXCEPT ![c].sp = v]
      /\ setup' = [setup EXCEPT !.done = @ + 1]
      /\ UNCHANGED <<at, request, blocks, argv1>>
  BY <1>1 DEF push, Slot, held
<1>3. PartsApart /\ PartsHeld /\ MainsBlock
  BY <1>2 DEF PartsInv
<1>4. /\ core[c].state = "none" /\ core[c].sp \in Int /\ d \in 0 .. 5 /\ Types
      /\ c = This' /\ setup'.done = d + 1
  <2>1. c >= c /\ Types
    BY Numbers DEF Cores, StartInv
  <2>2. core[c].state = "none"
    BY <1>1, <1>2, <2>1 DEF StartInv, Order
  <2>3. core[c].sp \in Int /\ setup \in [core : Cores, done : Nat]
    BY <2>1 DEF Types
  <2>4. setup'.core = setup.core /\ setup'.done = d + 1 /\ d \in 0 .. 5
    BY <1>2, <2>3
  <2> QED
    BY <1>1, <2>1, <2>2, <2>3, <2>4 DEF This
<1>5. /\ \A e \in Cores : /\ core'[e].state = core[e].state
                          /\ core'[e].av0 = core[e].av0 /\ core'[e].av1 = core[e].av1
  <2>1. core \in [Cores -> [state : {"none", "running", "unstarted", "ended"},
                          sp : Int, av0 : Nat, av1 : Nat]]
    BY <1>4 DEF Types
  <2> HIDE DEF v
  <2> QED
    BY <1>2, <2>1
<1>6. /\ Pushes(c) = d /\ Pushes(c)' = d + 1
      /\ \A e \in Cores : e # c => Pushes(e)' = Pushes(e)
      /\ \A e \in Cores : Pushed(e)' = Pushed(e)
  BY <1>1, <1>2, <1>4, <1>5 DEF Pushes, Pushed
<1>7. \A e \in Cores, q \in Parts : PartAt(e, q)' = PartAt(e, q)
  BY <1>5 DEF PartAt, StacksStay
<1>8. /\ v = a + StackSize - (d + 1) * WordBytes
      /\ a \in Int /\ v \in Int
  <2>1. a = core[c].sp + d * WordBytes - StackSize
    BY <1>6 DEF StackAt
  <2>2. (d + 1) * WordBytes = d * WordBytes + WordBytes /\ d * WordBytes \in Nat
    BY <1>4, NextWord
  <2> QED
    BY <1>4, <2>1, <2>2, Numbers
<1>9. /\ d * WordBytes \in Nat /\ (d + 1) * WordBytes = d * WordBytes + WordBytes
      /\ (d + 1) * WordBytes <= StackSize
      /\ \A k \in 1 .. d : /\ k * WordBytes \in Nat /\ WordBytes <= k * WordBytes
                           /\ k * WordBytes <= d * WordBytes
  <2>1. d \in 0 .. 6 /\ d + 1 \in 0 .. 6
    BY <1>4
  <2>2. (d + 1) * WordBytes = d * WordBytes + WordBytes
    BY <1>4, NextWord
  <2> QED
    BY <2>1, <2>2, WordsFit
<1>10. DOMAIN b = 1 .. WordBytes /\ Len(b) = WordBytes
  BY Lengths
<1> HIDE DEF v, d, words, b
<1>11. ASSUME Taken(c, "stack")
       PROVE  /\ Frame(v, WordBytes) /\ HoldsIn(mem', mmu'.perm, v, b)
              /\ a <= v /\ a + (StackSize - (d + 1) * WordBytes) = v
              /\ StackIn(mem, mmu.perm, a, d, words)
  <2>1. StackIn(mem, mmu.perm, a, d, words)
    <3>1. PartIn(c, "stack")
      BY <1>3, <1>11 DEF PartsHeld, Parts
    <3> QED
      BY <1>6, <3>1 DEF PartIn, words
  <2>2. /\ a \in Nat /\ Base <= a /\ a + StackSize < Base + RamSize
    <3>1. "stack" \in Parts /\ PartAt(c, "stack") = a /\ PartSize("stack") = StackSize
      BY DEF Parts, PartAt, PartSize
    <3> QED
      BY <1>11, <3>1, PartFits
  <2> HIDE DEF a
  <2>3. a <= v /\ a + (StackSize - (d + 1) * WordBytes) = v
        /\ v \in BusAddresses /\ v + WordBytes <= Base + RamSize
    BY <1>8, <1>9, <2>2, Numbers DEF BusAddresses
  <2>4. FreshIn(mmu.perm, v, WordBytes)
    <3>1. FreshIn(mmu.perm, a, StackSize - d * WordBytes)
      BY <2>1 DEF StackIn
    <3>2. \A i \in Span(v, WordBytes) : i \in Span(a, StackSize - d * WordBytes)
      BY <1>8, <1>9, <2>2, <2>3, Numbers DEF Span
    <3> QED
      BY <3>1, <3>2 DEF FreshIn
  <2>5. Frame(v, WordBytes) /\ HoldsIn(mem', mmu'.perm, v, b)
    <3>1. WordBytes \in Nat
      BY Numbers
    <3> QED
      BY <1>2, <1>4, <1>10, <2>3, <2>4, <3>1, WriteFills
  <2> QED
    BY <2>1, <2>3, <2>5
<1>12. ASSUME ~Taken(c, "stack")
       PROVE  UNCHANGED <<mmu, mem>>
  <2>1. a = 0 \/ Base <= a
    BY <1>1, <1>2, <1>4 DEF StartInv, Order, Answer, Fits
  <2>2. a < Base
    BY <1>8, <1>12, Numbers DEF Taken, PartAt
  <2>3. a = 0
    BY <1>8, <2>1, <2>2, Numbers
  <2> HIDE DEF a
  <2>4. v \notin BusAddresses
    BY <1>8, <1>9, <2>3, Numbers DEF BusAddresses
  <2> QED
    BY <1>2, <2>4 DEF Written
<1>13. PICK w \in Int, k \in Nat :
         /\ Frame(w, k)
         /\ \A e \in Cores, q \in Parts : Taken(e, q) /\ <<c, "stack">> # <<e, q>> =>
              Apart(PartAt(e, q), PartSize(q), w, k)
  <2>1. CASE Taken(c, "stack")
    <3>1. ASSUME NEW e \in Cores, NEW q \in Parts, Taken(e, q), <<c, "stack">> # <<e, q>>
          PROVE  Apart(PartAt(e, q), PartSize(q), v, WordBytes)
      <4>1. PartAt(e, q) \in Int /\ PartSize(q) \in Nat
        BY <3>1, PartFits
      <4>2. PartAt(c, "stack") = a /\ PartSize("stack") = StackSize /\ "stack" \in Parts
        BY DEF PartAt, PartSize, Parts
      <4>3. Apart(PartAt(e, q), PartSize(q), a, StackSize)
        BY <1>3, <2>1, <3>1, <4>2 DEF PartsApart
      <4> HIDE DEF a
      <4>4. a <= v /\ v + WordBytes <= a + StackSize
        BY <1>8, <1>9, <1>11, <2>1, Numbers
      <4> QED
        BY <1>8, <4>1, <4>3, <4>4, Numbers DEF Apart
    <3>2. Frame(v, WordBytes) /\ WordBytes \in Nat
      BY <1>11, <2>1, Numbers
    <3> QED
      BY <1>8, <3>1, <3>2
  <2>2. CASE ~Taken(c, "stack")
    <3>1. Base + RamSize \in Int /\ 0 \in Nat
      BY Numbers
    <3> QED
      BY <1>12, <2>2, <3>1, PartsNone
  <2> QED
    BY <2>1, <2>2
<1>14. ASSUME NEW e \in Cores, NEW q \in Parts, <<c, "stack">> # <<e, q>>, Taken(e, q)
       PROVE  PartIn(e, q)'
  <2>1. PartIn(e, q) /\ PartAt(e, q)' = PartAt(e, q)
    BY <1>3, <1>7, <1>14 DEF PartsHeld
  <2>2. Apart(PartAt(e, q), PartSize(q), w, k)
    BY <1>13, <1>14
  <2>3. q = "stack" => Pushes(e)' = Pushes(e) /\ Pushed(e)' = Pushed(e)
    BY <1>6, <1>14
  <2> QED
    BY <1>2, <1>13, <1>14, <2>1, <2>2, <2>3, PartKept
<1>15. ASSUME Taken(c, "stack")
       PROVE  PartIn(c, "stack")'
  <2>1. /\ Frame(v, WordBytes) /\ HoldsIn(mem', mmu'.perm, v, b)
        /\ a <= v /\ a + (StackSize - (d + 1) * WordBytes) = v
        /\ \A j \in 1 .. d : HoldsIn(mem, mmu.perm, a + StackSize - j * WordBytes, Word(words[j]))
        /\ FreshIn(mmu.perm, a, StackSize - d * WordBytes)
    BY <1>11, <1>15 DEF StackIn
  <2>2. StackAt(c)' = a
    BY DEF StacksStay
  <2> HIDE DEF a
  <2> DEFINE z == v + WordBytes
             y == d * WordBytes
  <2>3. z \in Int /\ y \in Nat /\ Apart(z, y, v, WordBytes) /\ z + y = a + StackSize
        /\ WordBytes \in Nat /\ Types'
    BY <1>8, <1>9, Numbers DEF Apart, StartInv
  <2>4. ASSUME NEW j \in 1 .. d
        PROVE  HoldsIn(mem', mmu'.perm, a + StackSize - j * WordBytes, Word(words[j]))
    <3> DEFINE x == a + StackSize - j * WordBytes
               t == Word(words[j])
    <3>1. /\ x \in Int /\ z <= x /\ x + WordBytes <= z + y
      BY <1>8, <1>9, Numbers
    <3>2. DOMAIN t = 1 .. WordBytes
      BY Lengths
    <3>3. HoldsIn(mem, mmu.perm, x, t)
      BY <2>1
    <3> HIDE DEF x, t, z, y
    <3>4. HoldsIn(mem', mmu'.perm, x, t)
      BY <1>4, <1>8, <2>1, <2>3, <3>1, <3>2, <3>3, HoldsKept
    <3> QED
      BY <3>4 DEF x, t
  <2>5. HoldsIn(mem', mmu'.perm, a + StackSize - (d + 1) * WordBytes, Word(words[d + 1]))
    <3>1. a + StackSize - (d + 1) * WordBytes = v
      BY <1>8
    <3> QED
      BY <2>1, <3>1 DEF b
  <2>6. \A j \in 1 .. d + 1 :
          HoldsIn(mem', mmu'.perm, a + StackSize - j * WordBytes, Word(words[j]))
    <3>1. \A j \in 1 .. d + 1 : j \in 1 .. d \/ j = d + 1
      BY <1>4
    <3> QED
      BY <2>4, <2>5, <3>1
  <2>7. FreshIn(mmu'.perm, a, StackSize - (d + 1) * WordBytes)
    <3> DEFINE l == StackSize - (d + 1) * WordBytes
    <3>1. l \in Nat /\ l \in Int /\ l <= l /\ Apart(a, l, v, WordBytes)
      BY <1>8, <1>9, <2>1, Numbers DEF Apart
    <3>2. \A i \in Span(a, l) : i \in Span(a, StackSize - d * WordBytes)
      BY <1>8, <1>9, Numbers DEF Span
    <3>3. FreshIn(mmu.perm, a, l)
      BY <2>1, <3>2 DEF FreshIn
    <3> HIDE DEF l
    <3>4. FreshIn(mmu'.perm, a, l)
      BY <1>8, <2>1, <2>3, <3>1, <3>3, FreshKept
    <3> QED
      BY <3>4 DEF l
  <2>8. Pushed(c)' = words
    BY <1>6 DEF words
  <2> QED
    BY <1>6, <2>2, <2>6, <2>7, <2>8 DEF PartIn, StackIn
<1>16. PartsApart' /\ PartsHeld'
  <2>1. PartAt(c, "stack")' = PartAt(c, "stack") /\ "stack" \in Parts
        /\ PartSize("stack")' = PartSize("stack") /\ blocks \subseteq blocks'
    BY <1>2, <1>7 DEF Parts, PartSize
  <2>2. Taken(c, "stack")' =>
          /\ PartIn(c, "stack")' /\ Granted(PartAt(c, "stack"), PartSize("stack"))'
          /\ \A e \in Cores, q \in Parts : Taken(e, q) /\ <<c, "stack">> # <<e, q>> =>
               Apart(PartAt(e, q), PartSize(q), PartAt(c, "stack")', PartSize("stack"))
    <3> SUFFICES ASSUME Taken(c, "stack")
                 PROVE  /\ PartIn(c, "stack")' /\ Granted(PartAt(c, "stack"), PartSize("stack"))'
                        /\ \A e \in Cores, q \in Parts : Taken(e, q) /\ <<c, "stack">> # <<e, q>> =>
                             Apart(PartAt(e, q), PartSize(q), PartAt(c, "stack"), PartSize("stack"))
      BY <2>1 DEF Taken
    <3>1. Granted(PartAt(c, "stack"), PartSize("stack"))'
      BY <1>2, <1>3, <2>1 DEF PartsHeld, Granted
    <3>2. \A e \in Cores, q \in Parts : Taken(e, q) /\ <<c, "stack">> # <<e, q>> =>
            Apart(PartAt(e, q), PartSize(q), PartAt(c, "stack"), PartSize("stack"))
      BY <1>3, <2>1 DEF PartsApart
    <3> QED
      BY <1>15, <3>1, <3>2
  <2> QED
    BY <1>2, <1>3, <1>7, <1>14, <2>1, <2>2, PartsTarget
<1>17. MainsBlock'
  <2>1. request[Main].stage = "none"
    BY <1>2 DEF StartInv, Requests, Stage
  <2> QED
    BY <1>2, <2>1 DEF MainsBlock, Stage
<1> QED
  BY <1>16, <1>17

(* Before any core is set up there is no part to keep.                     *)
LEMMA PartsLoad ==
  ASSUME StartInv, LoadSegment
  PROVE  PartsInv'
<1>1. /\ at = "segments" /\ at' = at
      /\ UNCHANGED <<core, request>>
  BY DEF LoadSegment
<1>2. \A c \in Cores : core[c] = Idle
  BY <1>1 DEF StartInv, Order, Early
<1>3. \A c \in Cores, p \in Parts : ~Taken(c, p)'
  <2>1. \A c \in Cores : StackAt(c)' = 0 + 0 * WordBytes - StackSize
    BY <1>1, <1>2 DEF StackAt, Pushes, Idle
  <2>2. \A c \in Cores : core'[c].av0 = 0 /\ core'[c].av1 = 0
    BY <1>1, <1>2 DEF Idle
  <2> QED
    BY <2>1, <2>2, Numbers DEF Taken, PartAt
<1>4. request'[Main].stage = "none"
  BY <1>1 DEF StartInv, Requests, Stage
<1> QED
  BY <1>3, <1>4 DEF PartsInv, PartsApart, PartsHeld, MainsBlock, Stage

(* Every step keeps the parts.                                             *)
LEMMA PartsNext == StartInv /\ BlocksInv /\ PartsInv /\ [Next]_vars => PartsInv'
<1> SUFFICES ASSUME StartInv, BlocksInv, PartsInv, [Next]_vars PROVE PartsInv'
  OBVIOUS
<1>1. CASE UNCHANGED vars
  BY <1>1, StartRuns, PartsQuiet DEF Quiet
<1>2. CASE Next
  <2>1. StepCases
    BY <1>2, NextCases
  <2>2. CASE Quiet
    <3>1. StartInv' /\ StacksStay
      BY <2>2, StartMoves, StartLoads, StartAsks, StartAllocates, StartStarts, StartRuns
         DEF Quiet
    <3> QED
      BY <2>2, <3>1, PartsQuiet
  <2>3. ASSUME NEW t \in Threads, Grant(t) PROVE PartsInv'
    BY <2>3, StartAllocates, PartsGrant
  <2>4. CASE WriteArgv0 \/ WriteArgv1
    BY <2>4, StartWritesArgument, PartsWriteArgument
  <2>5. CASE push
    BY <2>5, StartPushes, PartsPush
  <2> QED
    BY <2>1, <2>2, <2>3, <2>4, <2>5, PartsLoad, PartsTakesStack DEF StepCases, Quiet
<1> QED
  BY <1>1, <1>2

(* A core that was set up finds argc, argv and the strings where x2 says,  *)
(* readable and intact, inside its own blocks, whatever the others         *)
(* allocate; where memory ran out the pointer is NULL or x2 outside of RAM *)
(* (emulator_run, core_init, mmu_allocate).                                *)
THEOREM CoresKeepArguments == Spec => []StartsWithArguments
<1>1. Init => PartsInv
  <2> SUFFICES ASSUME Init PROVE PartsInv
    OBVIOUS
  <2>1. at = "init" /\ \A c \in Cores : core[c] = Idle
    BY DEF Init, Idle
  <2>2. \A c \in Cores : StackAt(c) = 0 + 0 * WordBytes - StackSize
    BY <2>1 DEF StackAt, Pushes, Idle
  <2>3. \A c \in Cores, p \in Parts : ~Taken(c, p)
    BY <2>1, <2>2, Numbers DEF Taken, PartAt, Idle
  <2>4. request[Main].stage = "none"
    BY Numbers DEF Init, NoRequest
  <2> QED
    BY <2>3, <2>4 DEF PartsInv, PartsApart, PartsHeld, MainsBlock, Stage
<1>2. StartInv /\ PartsInv => StartsWithArguments
  <2> SUFFICES ASSUME StartInv, PartsInv,
                      NEW c \in Cores, core[c].state # "none", ~raced
               PROVE  LET sp == core[c].sp IN
                      /\ \/ sp + 6 * WordBytes = StackSize
                         \/ /\ [owner |-> Main, at |-> sp + 6 * WordBytes - StackSize,
                                size |-> StackSize] \in blocks
                            /\ \A k \in 1 .. 6 : Holds(sp + (6 - k) * WordBytes, Word(Pushed(c)[k]))
                      /\ core[c].av0 = 0 \/ Holds(core[c].av0, Bytes("argv0", Argv0))
                      /\ core[c].av1 = 0 \/ Holds(core[c].av1, Bytes("argv1", argv1))
    BY DEF StartsWithArguments
  <2> DEFINE sp == core[c].sp
             a == StackAt(c)
  <2>1. \A p \in Parts : Taken(c, p) => Granted(PartAt(c, p), PartSize(p)) /\ PartIn(c, p)
    BY DEF PartsInv, PartsHeld
  <2>2. \A v, bytes : HoldsIn(mem, mmu.perm, v, bytes) => Holds(v, bytes)
    BY DEF HoldsIn, Holds
  <2>3. core[c].av0 = 0 \/ Holds(core[c].av0, Bytes("argv0", Argv0))
    <3>1. core[c].av0 = 0 \/ Base <= core[c].av0
      BY DEF StartInv, Order, Answer, Fits
    <3>2. Base <= core[c].av0 => Taken(c, "argv0") /\ "argv0" \in Parts
      BY Numbers DEF Taken, PartAt, Parts, StartInv, Types
    <3> QED
      BY <2>1, <2>2, <3>1, <3>2 DEF PartIn
  <2>4. core[c].av1 = 0 \/ Holds(core[c].av1, Bytes("argv1", argv1))
    <3>1. core[c].av1 = 0 \/ Base <= core[c].av1
      BY DEF StartInv, Order, Answer, Fits
    <3>2. Base <= core[c].av1 => Taken(c, "argv1") /\ "argv1" \in Parts
      BY Numbers DEF Taken, PartAt, Parts, StartInv, Types
    <3> QED
      BY <2>1, <2>2, <3>1, <3>2 DEF PartIn
  <2>5. Pushes(c) = 6 /\ a = sp + 6 * WordBytes - StackSize /\ sp \in Int
    BY DEF Pushes, StackAt, StartInv, Types
  <2>6. a = 0 \/ Base <= a
    BY DEF StartInv, Order, Answer, Fits
  <2> HIDE DEF sp, a
  <2>7. CASE a = 0
    <3>1. sp + 6 * WordBytes = StackSize
      BY <2>5, <2>7, Numbers
    <3> QED
      BY <2>3, <2>4, <3>1 DEF sp
  <2>8. CASE Base <= a
    <3>1. Granted(a, StackSize) /\ StackIn(mem, mmu.perm, a, 6, Pushed(c))
      <4>1. "stack" \in Parts /\ PartAt(c, "stack") = a /\ PartSize("stack") = StackSize
        BY DEF Parts, PartAt, PartSize, a
      <4>2. Taken(c, "stack")
        BY <2>5, <2>8, <4>1, Numbers DEF Taken
      <4> QED
        BY <2>1, <2>5, <4>1, <4>2 DEF PartIn, a
    <3>2. [owner |-> Main, at |-> sp + 6 * WordBytes - StackSize, size |-> StackSize] \in blocks
      BY <2>5, <3>1 DEF Granted
    <3>3. ASSUME NEW k \in 1 .. 6
          PROVE  Holds(sp + (6 - k) * WordBytes, Word(Pushed(c)[k]))
      <4>1. a + StackSize - k * WordBytes = sp + (6 - k) * WordBytes
        BY <2>5, <3>3, Numbers
      <4>2. HoldsIn(mem, mmu.perm, a + StackSize - k * WordBytes, Word(Pushed(c)[k]))
        BY <3>1, <3>3 DEF StackIn
      <4> QED
        BY <2>2, <4>1, <4>2
    <3> QED
      BY <2>3, <2>4, <3>2, <3>3 DEF sp
  <2> QED
    BY <2>6, <2>7, <2>8
<1>3. Init => BlocksInv
  BY DEF Init, BlocksInv, Pending, Stage, NoRequest
<1> QED
  BY <1>1, <1>2, <1>3, PartsNext, BlocksNext, SetUpInOrder, PTL DEF Spec

=============================================================================
