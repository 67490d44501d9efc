----------------------------- MODULE BusProofs -----------------------------
(***************************************************************************)
(* Proofs about the bus, for any number of cores: the types, and that the  *)
(* mutex keeps all threads but its owner away from the devices.            *)
(*                                                                         *)
(* BusyUnderLock is inductive together with the types: the step that makes *)
(* RAM busy is taken by the owner, and a thread that is past its lock owns *)
(* the mutex until Unlock, so that nobody can pass Lock.                   *)
(*                                                                         *)
(* The status a core reads after it unlocked is its own only if nobody     *)
(* passes the lock in between.  TurnsInv, at the end, says that main and   *)
(* a single core, as config.h builds it, take turns: main is between calls *)
(* as long as the core runs.                                               *)
(***************************************************************************)
EXTENDS Bus, TLAPS

(* What is inductive about the lock and the devices behind it.             *)
BusInv == TypeOK /\ BusyUnderLock

(* With it, a device that is not ready answers with a refusal.             *)
BusSafe == BusInv /\ NotReadyMeansRefused

(* There is at least one core, and main is no core.                        *)
LEMMA ThreadFacts ==
  /\ NUMCORES \in Nat \ {0}
  /\ Main \in Threads /\ Cores \subseteq Threads
  /\ Nobody \notin Threads
BY BusAssumption DEF Main, Cores, Threads, Nobody

(* What main has still to do is always a list of bus operations.           *)
LEMMA SetupFacts == SetupOps \in Seq(Ops) /\ << >> \in Seq(Ops)
BY BusAssumption DEF Ops

(* bus_init: nobody is at work.                                           *)
LEMMA InitBus == Init => BusInv
<1> SUFFICES ASSUME Init PROVE BusInv
  OBVIOUS
<1>1. TypeOK
  <2>1. "idle" \in Steps /\ "read_single" \in Ops /\ "none" \in Places
    BY DEF Steps, Ops, Places
  <2>2. todo \in Seq(Ops) /\ started \in 0 .. NUMCORES
    BY SetupFacts, ThreadFacts DEF Init
  <2> QED
    BY <2>1, <2>2 DEF Init, TypeOK
<1>2. BusyUnderLock
  BY DEF Init, BusyUnderLock
<1> QED
  BY <1>1, <1>2 DEF BusInv

(* A call only moves the caller to its lock.                               *)
LEMMA CallInv ==
  ASSUME BusInv, NEW t \in Threads, NEW o \in Ops, NEW p \in Places,
         NEW s \in BOOLEAN, Call(t, o, p, s), todo' \in Seq(Ops)
  PROVE  BusInv'
<1>1. /\ at[t] = "idle" /\ at' = [at EXCEPT ![t] = "lock"]
      /\ op' = [op EXCEPT ![t] = o] /\ place' = [place EXCEPT ![t] = p]
      /\ string' = [string EXCEPT ![t] = s]
      /\ UNCHANGED <<owner, status, ram, csr, own, leaked, started, outcome>>
  BY DEF Call, At, GoTo, devices, history
<1>2. TypeOK'
  BY <1>1 DEF BusInv, TypeOK, Steps
<1>3. BusyUnderLock'
  BY <1>1 DEF BusInv, TypeOK, BusyUnderLock
<1> QED
  BY <1>2, <1>3 DEF BusInv

(* main calls an operation of the set-up.                                  *)
LEMMA SetUpInv ==
  ASSUME BusInv, SetUp PROVE BusInv'
<1>1. todo \in Seq(Ops) /\ todo # << >>
  BY DEF BusInv, TypeOK, SetUp
<1>2. Head(todo) \in Ops /\ Tail(todo) \in Seq(Ops)
  BY <1>1
<1>3. PICK p \in {"ram", "none"} : Call(Main, Head(todo), p, FALSE)
  BY DEF SetUp
<1>4. todo' \in Seq(Ops) /\ p \in Places
  BY <1>2 DEF SetUp, Places
<1> QED
  BY <1>2, <1>3, <1>4, CallInv, ThreadFacts

(* A core calls an operation.                                              *)
LEMMA CoreCallsInv ==
  ASSUME BusInv, NEW c \in Cores, CoreCalls(c) PROVE BusInv'
<1>1. todo' \in Seq(Ops)
  BY DEF BusInv, TypeOK, CoreCalls
<1>2. PICK p \in Places :
        \/ \E o \in Ops : Call(c, o, p, FALSE)
        \/ Call(c, "read_single", p, TRUE)
  BY DEF CoreCalls
<1>3. "read_single" \in Ops /\ c \in Threads
  BY ThreadFacts DEF Ops
<1> QED
  BY <1>1, <1>2, <1>3, CallInv

(* The steps of main and of a core between two operations.                 *)
LEMMA IdleInv ==
  ASSUME BusInv,
         core_start \/ core_join \/ \E c \in Cores : CoreEnds(c)
  PROVE  BusInv'
<1>1. CASE core_start
  <2>1. TypeOK'
    BY <1>1, ThreadFacts, SetupFacts
       DEF BusInv, TypeOK, core_start, devices, calls, history
  <2>2. BusyUnderLock'
    BY <1>1 DEF BusInv, BusyUnderLock, core_start, devices
  <2> QED
    BY <2>1, <2>2 DEF BusInv
<1>2. ASSUME NEW t \in Threads, At(t, "idle"), GoTo(t, "done"),
             UNCHANGED <<owner, status, devices, calls, history, setup, outcome>>
      PROVE  BusInv'
  <2>1. TypeOK'
    BY <1>2 DEF BusInv, TypeOK, Steps, At, GoTo, devices, calls, history, setup
  <2>2. BusyUnderLock'
    BY <1>2 DEF BusInv, TypeOK, BusyUnderLock, At, GoTo, devices
  <2> QED
    BY <2>1, <2>2 DEF BusInv
<1>3. CASE core_join
  BY <1>2, <1>3, ThreadFacts DEF core_join
<1>4. CASE \E c \in Cores : CoreEnds(c)
  BY <1>2, <1>4, ThreadFacts DEF CoreEnds
<1> QED
  BY <1>1, <1>3, <1>4

(* The steps of an operation.                                              *)
LEMMA StepInv ==
  ASSUME BusInv, NEW t \in Threads, Step(t) PROVE BusInv'
<1> USE DEF At, GoTo, devices, calls, history, setup
<1>0. /\ owner \in Threads \cup {Nobody} /\ Nobody \notin Threads
      /\ at \in [Threads -> Steps]
  BY ThreadFacts DEF BusInv, TypeOK
<1>1. CASE Lock(t)
  <2>1. TypeOK'
    BY <1>1 DEF Lock, BusInv, TypeOK, Steps
  <2>2. BusyUnderLock'
    BY <1>0, <1>1 DEF Lock, BusInv, BusyUnderLock
  <2> QED
    BY <2>1, <2>2 DEF BusInv
<1>2. CASE Find(t)
  <2>1. TypeOK'
    BY <1>2 DEF Find, BusInv, TypeOK, Steps
  <2>2. BusyUnderLock'
    BY <1>0, <1>2 DEF Find, BusInv, BusyUnderLock
  <2> QED
    BY <2>1, <2>2 DEF BusInv
<1>3. CASE AssertionFails(t) \/ CallsNull(t) \/ FetchFails(t)
  <2>1. TypeOK'
    BY <1>3 DEF AssertionFails, CallsNull, FetchFails, BusInv, TypeOK
  <2>2. BusyUnderLock'
    BY <1>3 DEF AssertionFails, CallsNull, FetchFails, BusInv, BusyUnderLock
  <2> QED
    BY <2>1, <2>2 DEF BusInv
<1>4. CASE AccessCsr(t)
  <2>1. TypeOK'
    BY <1>4 DEF AccessCsr, BusInv, TypeOK, Steps
  <2>2. BusyUnderLock'
    BY <1>0, <1>4 DEF AccessCsr, BusInv, BusyUnderLock
  <2> QED
    BY <2>1, <2>2 DEF BusInv
<1>5. CASE AccessRam(t)
  <2>1. TypeOK'
    BY <1>5 DEF AccessRam, BusInv, TypeOK, Steps
  <2>2. BusyUnderLock'
    BY <1>0, <1>5 DEF AccessRam, BusInv, BusyUnderLock
  <2> QED
    BY <2>1, <2>2 DEF BusInv
<1>6. CASE Finish(t)
  <2>1. TypeOK'
    BY <1>6 DEF Finish, BusInv, TypeOK, Steps
  <2>2. BusyUnderLock'
    BY <1>0, <1>6 DEF Finish, BusInv, BusyUnderLock
  <2> QED
    BY <2>1, <2>2 DEF BusInv
<1>7. CASE Unlock(t)
  <2>1. TypeOK'
    BY <1>7 DEF Unlock, BusInv, TypeOK, Steps
  <2>2. BusyUnderLock'
    <3>1. owner = t
      BY <1>7 DEF Unlock, BusInv, BusyUnderLock
    <3>2. \A u \in Threads : u # t =>
            at'[u] \notin {"find", "access", "finish", "unlock"}
      BY <1>0, <1>7, <3>1 DEF Unlock, BusInv, BusyUnderLock
    <3>3. ram' # "BUSY"
      BY <1>7, <3>1 DEF Unlock, BusInv, BusyUnderLock
    <3> QED
      BY <1>0, <1>7, <3>2, <3>3 DEF Unlock, BusyUnderLock
  <2> QED
    BY <2>1, <2>2 DEF BusInv
<1>8. CASE Goes(t)
  <2>1. TypeOK'
    BY <1>8 DEF Goes, BusInv, TypeOK, Steps
  <2>2. BusyUnderLock'
    BY <1>0, <1>8 DEF Goes, BusInv, BusyUnderLock
  <2> QED
    BY <2>1, <2>2 DEF BusInv
<1> QED
  BY <1>1, <1>2, <1>3, <1>4, <1>5, <1>6, <1>7, <1>8 DEF Step

(* Every step of every thread keeps the invariant.                         *)
LEMMA NextBus == BusInv /\ [Next]_vars => BusInv'
<1> SUFFICES ASSUME BusInv, [Next]_vars PROVE BusInv'
  OBVIOUS
<1>1. CASE UNCHANGED vars
  <2>1. TypeOK'
    BY <1>1 DEF BusInv, TypeOK, vars, devices, calls, history, setup
  <2>2. BusyUnderLock'
    BY <1>1 DEF BusInv, BusyUnderLock, vars, devices
  <2> QED
    BY <2>1, <2>2 DEF BusInv
<1>2. CASE SetUp
  BY <1>2, SetUpInv
<1>3. CASE core_start \/ core_join
  BY <1>3, IdleInv
<1>4. CASE \E c \in Cores : CoreCalls(c) \/ CoreEnds(c)
  BY <1>4, CoreCallsInv, IdleInv
<1>5. CASE \E t \in Threads : Step(t)
  BY <1>5, StepInv
<1> QED
  BY <1>1, <1>2, <1>3, <1>4, <1>5 DEF Next

(* The invariant holds in every reachable state.                           *)
THEOREM BusInvariant == Spec => []BusInv
BY InitBus, NextBus, PTL DEF Spec

(* Once an assertion failed the process is gone; before, the owner of the  *)
(* mutex is the only thread at a device, so that BUSY cannot be met.       *)
LEMMA NextRefused == BusSafe /\ [Next]_vars => NotReadyMeansRefused'
<1> SUFFICES ASSUME BusSafe, [Next]_vars, outcome' = "notReady"
             PROVE  NotReadyMeansRefused'
  BY DEF NotReadyMeansRefused
<1>1. CASE outcome = "notReady"
  <2>1. ~Running
    BY <1>1 DEF Running
  <2>2. UNCHANGED vars
    BY <2>1 DEF Next, SetUp, core_start, core_join, CoreCalls, CoreEnds, Call, Step,
                Lock, Find, AssertionFails, CallsNull, AccessCsr, AccessRam, Finish,
                Unlock, Goes, FetchFails, At
  <2> QED
    BY <2>2, <1>1 DEF BusSafe, NotReadyMeansRefused, vars, devices, calls, InRam
<1>2. CASE outcome # "notReady"
  <2>1. PICK t \in Threads : AssertionFails(t)
    BY <1>2 DEF Next, SetUp, core_start, core_join, CoreCalls, CoreEnds, Call, Step,
                Lock, Find, CallsNull, AccessCsr, AccessRam, Finish, Unlock, Goes,
                FetchFails, vars
  <2>2. owner = t /\ ram # "BUSY"
    BY <2>1 DEF AssertionFails, At, BusSafe, BusInv, BusyUnderLock
  <2>3. (IF InRam(t) THEN ram ELSE csr) = "ERROR"
    BY <2>1, <2>2 DEF AssertionFails, BusSafe, BusInv, TypeOK
  <2> QED
    BY <2>1, <2>2, <2>3 DEF AssertionFails, At, NotReadyMeansRefused, devices, calls,
                            InRam
<1> QED
  BY <1>1, <1>2

(* An assertion on a device's state fails only after a refusal (bus.c:175).*)
THEOREM NotReadyOnlyAfterRefusal == Spec => []NotReadyMeansRefused
<1>1. Init => BusSafe
  BY InitBus DEF Init, BusSafe, NotReadyMeansRefused
<1>2. BusSafe /\ [Next]_vars => BusSafe'
  BY NextBus, NextRefused DEF BusSafe
<1>3. BusSafe => NotReadyMeansRefused
  BY DEF BusSafe
<1> QED
  BY <1>1, <1>2, <1>3, PTL DEF Spec

(* The state of the bus, the devices and the threads keeps its types, and  *)
(* emulator_run starts each core once.                                     *)
THEOREM BusTypes == Spec => []TypeOK
<1>1. BusInv => TypeOK
  BY DEF BusInv
<1> QED
  BY <1>1, BusInvariant, PTL

(* Mutual exclusion: between bus_begin_read or bus_begin_write and the     *)
(* matching end only the owner of the mutex is at work on a device.        *)
THEOREM MutualExclusion == Spec => []BusyUnderLock
<1>1. BusInv => BusyUnderLock
  BY DEF BusInv
<1> QED
  BY <1>1, BusInvariant, PTL

----------------------------------------------------------------------------
(* With one core, main and the core take turns: main is done with the bus  *)
(* when it starts the core (core_start, then core_join), so that nobody    *)
(* writes bus->status between an operation and the look its caller takes.  *)
(* This holds for the build of config.h and not for two cores.             *)
TurnsInv ==
  /\ started = 0 => \A c \in Cores : at[c] = "idle"
  /\ started # 0 => at[Main] \in {"idle", "done"}
  /\ \A t \in Threads :
       at[t] \in {"access", "finish", "unlock", "check"} => status = own[t]

(* Main is at work before it starts the core, the core afterwards.         *)
LEMMA TurnOf ==
  ASSUME NUMCORES = 1, TypeOK, TurnsInv, NEW t \in Threads, at[t] \notin {"idle", "done"}
  PROVE  /\ t = Main <=> started = 0
         /\ \A u \in Threads : u # t => at[u] \in {"idle", "done"}
<1>1. Cores = {1} /\ Main = 0 /\ Threads = {0, 1} /\ started \in {0, 1}
  BY DEF Cores, Main, Threads, TypeOK
<1> QED
  BY <1>1 DEF TurnsInv

(* A step of an operation is a step of the thread whose turn it is.        *)
LEMMA StepTurns ==
  ASSUME NUMCORES = 1, TypeOK, TurnsInv, NEW t \in Threads, Step(t)
  PROVE  TurnsInv'
<1>1. at[t] \notin {"idle", "done"}
  BY DEF Step, Lock, Find, AssertionFails, CallsNull, AccessCsr, AccessRam, Finish,
         Unlock, Goes, FetchFails, At
<1>2. /\ t = Main <=> started = 0
      /\ \A u \in Threads : u # t => at[u] \in {"idle", "done"}
  BY <1>1, TurnOf
<1>3. /\ started' = started /\ at \in [Threads -> Steps]
      /\ own \in [Threads -> {"BUS_OK", "BUS_ADDRESS_NOT_FOUND", "BUS_DEVICE_FAILURE"}]
      /\ \A u \in Threads : u # t => at'[u] = at[u] /\ own'[u] = own[u]
  BY DEF TypeOK, Step, Lock, Find, AssertionFails, CallsNull, AccessCsr, AccessRam,
         Finish, Unlock, Goes, FetchFails, At, GoTo, setup, history
<1>4. at'[t] \in {"access", "finish", "unlock", "check"} => status' = own'[t]
  <2>1. CASE Find(t) \/ Finish(t)
    BY <1>3, <2>1 DEF Find, Finish
  <2>2. CASE Lock(t) \/ Goes(t)
    BY <1>3, <2>2 DEF Lock, Goes, GoTo
  <2>3. CASE AssertionFails(t) \/ CallsNull(t) \/ FetchFails(t)
    BY <2>3 DEF TurnsInv, AssertionFails, CallsNull, FetchFails, history
  <2>4. CASE AccessCsr(t) \/ AccessRam(t) \/ Unlock(t)
    BY <1>3, <2>4 DEF TurnsInv, AccessCsr, AccessRam, Unlock, At, GoTo, history
  <2> QED
    BY <2>1, <2>2, <2>3, <2>4 DEF Step
<1>5. \A u \in Threads :
        at'[u] \in {"access", "finish", "unlock", "check"} => status' = own'[u]
  BY <1>2, <1>3, <1>4
<1>6. started = 0 => \A c \in Cores : at'[c] = "idle"
  BY <1>2, <1>3, BusAssumption DEF TurnsInv, Cores, Threads, Main
<1>7. started # 0 => at'[Main] \in {"idle", "done"}
  BY <1>2, <1>3, ThreadFacts DEF TurnsInv
<1> QED
  BY <1>3, <1>5, <1>6, <1>7 DEF TurnsInv

(* The steps between two operations.                                       *)
LEMMA IdleTurns ==
  ASSUME NUMCORES = 1, TypeOK, TurnsInv,
         \/ SetUp \/ core_start \/ core_join
         \/ \E c \in Cores : CoreCalls(c) \/ CoreEnds(c)
  PROVE  TurnsInv'
<1>1. /\ Cores = {1} /\ Main = 0 /\ Threads = {0, 1} /\ started \in {0, 1}
      /\ at \in [Threads -> Steps]
  BY DEF Cores, Main, Threads, TypeOK
<1>2. CASE SetUp
  <2>1. /\ started = 0 /\ at' = [at EXCEPT ![Main] = "lock"]
        /\ UNCHANGED <<started, status, own>>
    BY <1>1, <1>2 DEF SetUp, Call, GoTo, history
  <2> QED
    BY <1>1, <2>1 DEF TurnsInv
<1>3. CASE core_start
  <2>1. at[Main] = "idle" /\ started' = started + 1 /\ UNCHANGED <<at, status, own>>
    BY <1>3 DEF core_start, At, history
  <2> QED
    BY <1>1, <2>1 DEF TurnsInv
<1>4. CASE core_join
  <2>1. started = 1 /\ at' = [at EXCEPT ![Main] = "done"]
        /\ UNCHANGED <<started, status, own>>
    BY <1>4 DEF core_join, GoTo, history, setup
  <2> QED
    BY <1>1, <2>1 DEF TurnsInv
<1>5. ASSUME NEW c \in Cores, CoreCalls(c) \/ CoreEnds(c)
      PROVE  TurnsInv'
  <2>1. c = 1 /\ started = 1
    <3>1. c <= started
      BY <1>5 DEF CoreCalls, CoreEnds
    <3>2. c = 1
      BY <1>1
    <3> QED
      BY <1>1, <3>1, <3>2
  <2>2. /\ at' = [at EXCEPT ![c] = "lock"] \/ at' = [at EXCEPT ![c] = "done"]
        /\ UNCHANGED <<started, status, own>>
    BY <1>5 DEF CoreCalls, CoreEnds, Call, GoTo, history, setup
  <2> QED
    BY <1>1, <2>1, <2>2 DEF TurnsInv
<1> QED
  BY <1>2, <1>3, <1>4, <1>5

(* With one core, whoever looks at bus->status after an operation sees the *)
(* status of that operation (memory_access, sys_open, bus_read_string).    *)
THEOREM OneCoreSeesItsStatus ==
  ASSUME NUMCORES = 1
  PROVE  Spec => []StatusIsOwn
<1>1. Init => TurnsInv
  BY ThreadFacts DEF Init, TurnsInv
<1>2. TypeOK /\ TurnsInv /\ [Next]_vars => TurnsInv'
  <2>1. ASSUME TypeOK, TurnsInv, Next PROVE TurnsInv'
    BY <2>1, StepTurns, IdleTurns DEF Next
  <2>2. ASSUME TurnsInv, UNCHANGED vars PROVE TurnsInv'
    BY <2>2 DEF TurnsInv, vars, history, setup
  <2> QED
    BY <2>1, <2>2
<1>3. TurnsInv => StatusIsOwn
  BY DEF TurnsInv, StatusIsOwn
<1> QED
  BY <1>1, <1>2, <1>3, BusTypes, PTL DEF Spec
=============================================================================
