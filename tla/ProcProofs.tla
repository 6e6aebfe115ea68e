------------------------------- MODULE ProcProofs -------------------------------
(* Proofs about Proc for any set of CPUs, any size of the process table, any    *)
(* set of channels and any bound of the pids.                                   *)
EXTENDS Proc, TLAPS

\* The first slot is one, and no slot is the null pointer.
LEMMA SlotFacts == initproc \in Slots /\ Null \notin Slots
BY ProcAssumption DEF Slots, initproc, Null

\* A process that runs is RUNNING, on no other CPU.
LEMMA OnCpu ==
  ASSUME IndInv, NEW c \in CPUs, NEW p \in Slots, NEW S, At(c, p, S)
  PROVE  /\ cpuproc[c] = p /\ kpc[p] \in S
         /\ state[p] = "RUNNING"
         /\ \A d \in CPUs : cpuproc[d] = p => d = c
BY SlotFacts DEF IndInv, OnOneCpu, At

\* A step keeps ForkInv if no fork starts or goes on, and it leaves EMBRYO slots alone.
LEMMA ForkFrame ==
  ASSUME ForkInv,
         \A q \in Slots : Forking(q)' => /\ Forking(q)
                                         /\ kpc'[q] = kpc[q] /\ np'[q] = np[q],
         \A q \in Slots : state[q] = "EMBRYO" => /\ state'[q] = "EMBRYO"
                                                 /\ parent'[q] = parent[q]
  PROVE  ForkInv'
BY DEF ForkInv

\* A process that only goes from one place to another, and neither forks, nor
\* waits, nor is init at its exit, keeps the invariant.
LEMMA MoveStep ==
  ASSUME IndInv, NEW c \in CPUs, NEW p \in Slots, NEW S, At(c, p, S),
         NEW place \in Places \ {"fork1", "fork2", "wait"}, Move(p, place),
         p = initproc => place # "exit",
         ptlock' \in CPUs \cup {NoCpu},
         UNCHANGED <<table, np, cpuproc, scan>>
  PROVE  IndInv'
<1>1. \A q \in Slots : kpc'[q] = IF q = p THEN place ELSE kpc[q]
  BY DEF IndInv, TypeOK, PlacesOK, Move
<1>2. TypeOK'
  BY <1>1 DEF IndInv, TypeOK, TableOK, PlacesOK, Move, table
<1>3. OnOneCpu' /\ ParentCanReap' /\ PidsUnique' /\ FreeHasNoParent' /\ NotOwnParent' /\ PidsBelow'
  BY DEF IndInv, OnOneCpu, ParentCanReap, PidsUnique, FreeHasNoParent, NotOwnParent,
         PidsBelow, table
<1>4. WaiterNotForgotten' /\ SleepsOnSelf'
  BY <1>1 DEF IndInv, WaiterNotForgotten, SleepsOnSelf, Children, ZombieChildren, table
<1>5. ForkInv'
  BY <1>1, ForkFrame DEF IndInv, Forking, table
<1>6. InitAlive'
  BY <1>1, SlotFacts DEF IndInv, InitAlive, table
<1> QED
  BY <1>2, <1>3, <1>4, <1>5, <1>6 DEF IndInv

\* trap kills user code that faults: that process is not asleep in wait.
LEMMA FaultStep ==
  ASSUME IndInv, NEW c \in CPUs, NEW p \in Slots, Fault(c, p)
  PROVE  IndInv'
<1>1. state[p] = "RUNNING"
  BY OnCpu DEF Fault
<1>2. TypeOK'
  BY DEF Fault, IndInv, TypeOK, TableOK, PlacesOK
<1>3. /\ OnOneCpu' /\ ParentCanReap' /\ PidsUnique'
      /\ FreeHasNoParent' /\ NotOwnParent' /\ SleepsOnSelf' /\ InitAlive' /\ PidsBelow'
  BY DEF Fault, IndInv, OnOneCpu, ParentCanReap, PidsUnique,
         FreeHasNoParent, NotOwnParent, SleepsOnSelf, InitAlive, PidsBelow
<1>4. WaiterNotForgotten'
  BY <1>1 DEF Fault, IndInv, TypeOK, TableOK, WaiterNotForgotten, Children, ZombieChildren
<1>5. ForkInv'
  BY ForkFrame DEF Fault, IndInv, Forking
<1> QED
  BY <1>2, <1>3, <1>4, <1>5 DEF IndInv

\* The process that leaves a CPU in sched was the one that ran there.
LEMMA SchedOnOneCpu ==
  ASSUME TypeOK, OnOneCpu, NEW c \in CPUs, NEW p \in Slots, cpuproc[c] = p, sched(c),
         \A q \in Slots : state'[q] = "RUNNING" <=> state[q] = "RUNNING" /\ q # p
  PROVE  OnOneCpu'
<1>1. \A d \in CPUs : cpuproc'[d] = IF d = c THEN Null ELSE cpuproc[d]
  BY DEF TypeOK, PlacesOK, sched
<1>2. \A d \in CPUs : cpuproc[d] = p => d = c
  BY SlotFacts DEF OnOneCpu
<1> QED
  BY <1>1, <1>2, SlotFacts DEF OnOneCpu

\* A process that yields becomes RUNNABLE, which only the first property notices.
LEMMA YieldStep ==
  ASSUME IndInv, NEW c \in CPUs, NEW p \in Slots, yield(c, p)
  PROVE  IndInv'
<1>1. /\ cpuproc[c] = p /\ state[p] = "RUNNING"
      /\ \A q \in Slots : state'[q] = IF q = p THEN "RUNNABLE" ELSE state[q]
  BY OnCpu DEF yield, IndInv, TypeOK, TableOK
<1>2. TypeOK'
  BY SlotFacts DEF yield, sched, IndInv, TypeOK, TableOK, PlacesOK, States
<1>3. OnOneCpu'
  BY <1>1, SchedOnOneCpu DEF yield, IndInv
<1>4. ParentCanReap' /\ FreeHasNoParent' /\ NotOwnParent' /\ InitAlive'
  BY <1>1, SlotFacts DEF yield, IndInv, TypeOK, ParentCanReap, FreeHasNoParent, NotOwnParent,
         InitAlive
<1>5. WaiterNotForgotten' /\ SleepsOnSelf'
  BY <1>1 DEF yield, IndInv, WaiterNotForgotten, SleepsOnSelf, Children, ZombieChildren
<1>6. PidsUnique' /\ PidsBelow'
  BY DEF yield, IndInv, PidsUnique, PidsBelow
<1>7. ForkInv'
  BY <1>1, ForkFrame DEF yield, IndInv, Forking
<1> QED
  BY <1>2, <1>3, <1>4, <1>5, <1>6, <1>7 DEF IndInv

\* allocproc turns a free slot, which is nobody's child or parent, into the EMBRYO
\* of a new fork, with a pid that nobody has.
LEMMA AllocprocStep ==
  ASSUME IndInv, NEW c \in CPUs, NEW p \in Slots, allocproc(c, p)
  PROVE  IndInv'
<1>1. PICK s \in Slots :
        /\ state[s] = "UNUSED"
        /\ state' = [state EXCEPT ![s] = "EMBRYO"]
        /\ pid' = [pid EXCEPT ![s] = nextpid]
        /\ np' = [np EXCEPT ![p] = s]
        /\ kpc' = [kpc EXCEPT ![p] = "fork1", ![s] = "forkret"]
  BY DEF allocproc, Free, NewPid
<1>2. /\ nextpid <= MaxPid /\ nextpid' = nextpid + 1
      /\ UNCHANGED <<parent, chan, killed, cpuproc, scan, ptlock>>
  BY DEF allocproc, NextPid
<1>3. state[s] = "UNUSED" /\ state[p] = "RUNNING" /\ kpc[p] = "kernel" /\ p # s
  BY <1>1, OnCpu DEF allocproc
<1>4. \A q \in Slots :
        /\ state'[q] = IF q = s THEN "EMBRYO" ELSE state[q]
        /\ kpc'[q] = IF q = s THEN "forkret" ELSE IF q = p THEN "fork1" ELSE kpc[q]
        /\ pid'[q] = IF q = s THEN nextpid ELSE pid[q]
        /\ np'[q] = IF q = p THEN s ELSE np[q]
  BY <1>1, <1>3 DEF IndInv, TypeOK, TableOK, PlacesOK
<1>5. TypeOK'
  BY <1>1, <1>2, ProcAssumption
     DEF IndInv, TypeOK, TableOK, PlacesOK, States, Places
<1>6. OnOneCpu'
  BY <1>1, <1>2, <1>4, SlotFacts DEF IndInv, OnOneCpu
<1>7. ParentCanReap' /\ FreeHasNoParent' /\ NotOwnParent' /\ InitAlive'
  <2>1. ParentCanReap'
    BY <1>2, <1>3, <1>4, SlotFacts DEF IndInv, TypeOK, ParentCanReap
  <2>2. FreeHasNoParent' /\ NotOwnParent'
    BY <1>2, <1>4 DEF IndInv, FreeHasNoParent, NotOwnParent
  <2>3. InitAlive'
    BY <1>3, <1>4, SlotFacts DEF IndInv, InitAlive
  <2> QED
    BY <2>1, <2>2, <2>3
<1>8. WaiterNotForgotten' /\ SleepsOnSelf'
  BY <1>2, <1>3, <1>4
     DEF IndInv, WaiterNotForgotten, SleepsOnSelf, Children, ZombieChildren
<1>9. PidsUnique' /\ PidsBelow'
  <2>1. nextpid \in Nat /\ \A q \in Slots : pid[q] \in Nat /\ pid[q] < nextpid
    BY ProcAssumption DEF IndInv, TypeOK, TableOK, PidsBelow
  <2> QED
    BY <1>2, <1>4, <2>1 DEF IndInv, PidsUnique, PidsBelow
<1>10. ForkInv'
  <2>1. parent[s] = Null
    BY <1>1 DEF IndInv, FreeHasNoParent
  <2>2. \A q \in Slots :
          Forking(q)' => \/ q = p
                         \/ /\ q # p /\ q # s /\ Forking(q)
                            /\ np[q] \in Slots /\ np[q] # s
    BY <1>3, <1>4 DEF IndInv, ForkInv, Forking
  <2> QED
    BY <1>2, <1>3, <1>4, <2>1, <2>2 DEF IndInv, ForkInv, Forking
<1> QED
  BY <1>5, <1>6, <1>7, <1>8, <1>9, <1>10 DEF IndInv

\* A fork that fails gives back the slot that it alone owns.
LEMMA ForkFailsStep ==
  ASSUME IndInv, NEW c \in CPUs, NEW p \in Slots, ForkFails(c, p)
  PROVE  IndInv'
<1> DEFINE s == np[p]
<1>1. state[p] = "RUNNING" /\ kpc[p] = "fork1"
  BY OnCpu DEF ForkFails
<1>2. /\ s \in Slots /\ state[s] = "EMBRYO" /\ parent[s] = Null
      /\ \A q \in Slots : Forking(q) /\ np[q] = s => q = p
  BY <1>1 DEF IndInv, ForkInv, Forking
<1>3. \A q \in Slots :
        /\ state'[q] = IF q = s THEN "UNUSED" ELSE state[q]
        /\ kpc'[q] = IF q = p THEN "user" ELSE kpc[q]
        /\ q # p => np'[q] = np[q]
  BY <1>2 DEF ForkFails, Move, IndInv, TypeOK, TableOK, PlacesOK
<1>4. TypeOK'
  BY <1>2 DEF ForkFails, Move, IndInv, TypeOK, TableOK, PlacesOK, States, Places
<1>5. OnOneCpu'
  BY <1>2, <1>3 DEF ForkFails, IndInv, OnOneCpu
<1>6. ParentCanReap' /\ FreeHasNoParent' /\ NotOwnParent' /\ InitAlive'
  BY <1>2, <1>3, SlotFacts
     DEF ForkFails, IndInv, TypeOK, ParentCanReap, FreeHasNoParent, NotOwnParent,
         InitAlive
<1>7. WaiterNotForgotten' /\ SleepsOnSelf'
  BY <1>2, <1>3
     DEF ForkFails, IndInv, WaiterNotForgotten, SleepsOnSelf, Children, ZombieChildren
<1>8. PidsUnique' /\ PidsBelow'
  BY DEF ForkFails, IndInv, PidsUnique, PidsBelow
<1>9. ForkInv'
  BY <1>2, <1>3 DEF ForkFails, IndInv, ForkInv, Forking
<1> QED
  BY <1>4, <1>5, <1>6, <1>7, <1>8, <1>9 DEF IndInv

\* fork records the parent in a slot that no process in wait counts as its child.
LEMMA ForkCopiesStep ==
  ASSUME IndInv, NEW c \in CPUs, NEW p \in Slots, ForkCopies(c, p)
  PROVE  IndInv'
<1> DEFINE s == np[p]
<1>1. state[p] = "RUNNING" /\ kpc[p] = "fork1"
  BY OnCpu DEF ForkCopies
<1>2. /\ s \in Slots /\ state[s] = "EMBRYO" /\ parent[s] = Null
      /\ \A q \in Slots : Forking(q) /\ np[q] = s => q = p
  BY <1>1 DEF IndInv, ForkInv, Forking
<1>3. \A q \in Slots :
        /\ parent'[q] = IF q = s THEN p ELSE parent[q]
        /\ kpc'[q] = IF q = p THEN "fork2" ELSE kpc[q]
  BY <1>2 DEF ForkCopies, Move, IndInv, TypeOK, PlacesOK
<1>4. TypeOK'
  BY <1>2 DEF ForkCopies, Move, IndInv, TypeOK, TableOK, PlacesOK, Places
<1>5. OnOneCpu' /\ PidsUnique' /\ PidsBelow'
  BY DEF ForkCopies, IndInv, OnOneCpu, PidsUnique, PidsBelow
<1>6. ParentCanReap' /\ FreeHasNoParent' /\ NotOwnParent' /\ InitAlive'
  BY <1>1, <1>2, <1>3, SlotFacts
     DEF ForkCopies, IndInv, ParentCanReap, FreeHasNoParent, NotOwnParent,
         InitAlive
<1>7. WaiterNotForgotten' /\ SleepsOnSelf'
  BY <1>1, <1>2, <1>3, SlotFacts
     DEF ForkCopies, IndInv, WaiterNotForgotten, SleepsOnSelf, Children, ZombieChildren
<1>8. ForkInv'
  BY <1>1, <1>2, <1>3 DEF ForkCopies, IndInv, ForkInv, Forking
<1> QED
  BY <1>4, <1>5, <1>6, <1>7, <1>8 DEF IndInv

\* fork publishes a child whose parent is the process that runs.
LEMMA ForkDoneStep ==
  ASSUME IndInv, NEW c \in CPUs, NEW p \in Slots, ForkDone(c, p)
  PROVE  IndInv'
<1> DEFINE s == np[p]
<1>1. state[p] = "RUNNING" /\ kpc[p] = "fork2"
  BY OnCpu DEF ForkDone
<1>2. /\ s \in Slots /\ state[s] = "EMBRYO" /\ parent[s] = p
      /\ \A q \in Slots : Forking(q) /\ np[q] = s => q = p
  BY <1>1 DEF IndInv, ForkInv, Forking
<1>3. \A q \in Slots :
        /\ state'[q] = IF q = s THEN "RUNNABLE" ELSE state[q]
        /\ kpc'[q] = IF q = p THEN "user" ELSE kpc[q]
        /\ q # p => np'[q] = np[q]
  BY <1>2 DEF ForkDone, Move, IndInv, TypeOK, TableOK, PlacesOK
<1>4. TypeOK'
  BY <1>2 DEF ForkDone, Move, IndInv, TypeOK, TableOK, PlacesOK, States, Places
<1>5. OnOneCpu'
  BY <1>2, <1>3 DEF ForkDone, IndInv, OnOneCpu
<1>6. ParentCanReap' /\ FreeHasNoParent' /\ NotOwnParent' /\ InitAlive'
  BY <1>1, <1>2, <1>3, SlotFacts
     DEF ForkDone, IndInv, TypeOK, ParentCanReap, FreeHasNoParent, NotOwnParent,
         InitAlive
<1>7. WaiterNotForgotten' /\ SleepsOnSelf'
  BY <1>2, <1>3
     DEF ForkDone, IndInv, WaiterNotForgotten, SleepsOnSelf, Children, ZombieChildren
<1>8. PidsUnique' /\ PidsBelow'
  BY DEF ForkDone, IndInv, PidsUnique, PidsBelow
<1>9. ForkInv'
  BY <1>2, <1>3 DEF ForkDone, IndInv, ForkInv, Forking
<1> QED
  BY <1>4, <1>5, <1>6, <1>7, <1>8, <1>9 DEF IndInv

\* exit: the dying process runs, so it is neither asleep nor a free slot; its
\* children go to init, which is awake if one of them is a zombie.
LEMMA ExitStep ==
  ASSUME IndInv, NEW c \in CPUs, NEW p \in Slots, exit(c, p)
  PROVE  IndInv'
<1>1. /\ cpuproc[c] = p /\ state[p] = "RUNNING" /\ kpc[p] = "exit" /\ p # initproc
  BY OnCpu DEF exit, Leave, IndInv, InitAlive
<1>2. \A q \in Slots :
        /\ parent'[q] = IF parent[q] = p THEN initproc ELSE parent[q]
        /\ kpc'[q] = IF q = p THEN "gone" ELSE kpc[q]
  BY DEF exit, Leave, Move, Reparented, IndInv, TypeOK, PlacesOK
<1>3. \A q \in Slots :
        /\ q = p => state'[q] = "ZOMBIE"
        /\ q # p => \/ state'[q] = state[q]
                    \/ state[q] = "SLEEPING" /\ state'[q] = "RUNNABLE"
        /\ q # p /\ state[q] = "SLEEPING" /\ chan[q] = parent[p] => state'[q] = "RUNNABLE"
        /\ q # p /\ state[q] = "SLEEPING" /\ chan[q] = initproc /\ ZombieChildren(p) # {}
             => state'[q] = "RUNNABLE"
  BY DEF exit, Leave, ExitWakes, wakeup1, IndInv, TypeOK, TableOK
<1>4. TypeOK'
  <2>1. state' \in [Slots -> States]
    BY DEF exit, Leave, ExitWakes, wakeup1, IndInv, TypeOK, TableOK, States
  <2>2. parent' \in [Slots -> Slots \cup {Null}]
    BY SlotFacts DEF exit, Reparented, IndInv, TypeOK
  <2> QED
    BY <2>1, <2>2 DEF exit, Leave, Move, sched, IndInv, TypeOK, TableOK, PlacesOK, Places
<1>5. OnOneCpu'
  <2>1. \A q \in Slots : state'[q] = "RUNNING" <=> state[q] = "RUNNING" /\ q # p
    BY <1>3
  <2> QED
    BY <1>1, <2>1, SchedOnOneCpu DEF exit, Leave, IndInv
<1>6. ParentCanReap'
  BY <1>1, <1>2, <1>3, SlotFacts DEF IndInv, TypeOK, ParentCanReap, InitAlive
<1>7. FreeHasNoParent' /\ NotOwnParent' /\ InitAlive'
  BY <1>1, <1>2, <1>3, SlotFacts DEF IndInv, FreeHasNoParent, NotOwnParent, InitAlive
<1>8. WaiterNotForgotten'
  <2> SUFFICES ASSUME NEW w \in Slots, state'[w] = "SLEEPING", kpc'[w] = "wait"
               PROVE  Children(w)' # {} /\ ZombieChildren(w)' = {} /\ ~killed'[w]
    BY DEF WaiterNotForgotten
  <2>1. w # p /\ state[w] = "SLEEPING" /\ kpc[w] = "wait" /\ chan[w] = w
    BY <1>2, <1>3 DEF IndInv, SleepsOnSelf
  <2>2. Children(w) # {} /\ ZombieChildren(w) = {} /\ ~killed[w]
    BY <2>1 DEF IndInv, WaiterNotForgotten
  <2>3. parent[p] # w /\ (w = initproc => ZombieChildren(p) = {})
    BY <1>3, <2>1
  <2>4. \A q \in Children(w) : q \in Children(w)'
    BY <1>2, <2>1, SlotFacts DEF Children
  <2>5. \A q \in Children(w)' : state'[q] # "ZOMBIE"
    <3>1. parent[p] # p /\ parent[p] # w
      BY <2>3 DEF IndInv, NotOwnParent
    <3> QED
      BY <1>2, <1>3, <2>2, <2>3, <3>1 DEF Children, ZombieChildren
  <2> QED
    BY <2>2, <2>4, <2>5 DEF exit, ZombieChildren
<1>9. SleepsOnSelf'
  BY <1>2, <1>3 DEF exit, Leave, IndInv, SleepsOnSelf
<1>10. PidsUnique' /\ PidsBelow'
  BY DEF exit, Leave, IndInv, PidsUnique, PidsBelow
<1>11. ForkInv'
  <2>1. \A q \in Slots : Forking(q)' => q # p /\ Forking(q) /\ kpc'[q] = kpc[q]
    BY <1>2 DEF Forking
  <2>2. \A q \in Slots :
          Forking(q)' => /\ np[q] \in Slots /\ state'[np[q]] = "EMBRYO"
                         /\ parent'[np[q]] = parent[np[q]]
    BY <1>1, <1>2, <1>3, <2>1, SlotFacts DEF IndInv, ForkInv
  <2>3. np' = np
    BY DEF exit, Leave
  <2> QED
    BY <2>1, <2>2, <2>3 DEF IndInv, ForkInv
<1> QED
  BY <1>4, <1>5, <1>6, <1>7, <1>8, <1>9, <1>10, <1>11 DEF IndInv

\* wait frees a zombie child: nobody is the child of a zombie, and the only
\* process that counts it as a child runs.
LEMMA WaitReapsStep ==
  ASSUME IndInv, NEW c \in CPUs, NEW p \in Slots, WaitReaps(c, p)
  PROVE  IndInv'
<1>1. state[p] = "RUNNING" /\ cpuproc[c] = p
  BY OnCpu DEF WaitReaps, InWait
<1>2. PICK z \in Slots :
        /\ parent[z] = p /\ state[z] = "ZOMBIE"
        /\ state' = [state EXCEPT ![z] = "UNUSED"]
        /\ pid' = [pid EXCEPT ![z] = 0]
        /\ parent' = [parent EXCEPT ![z] = Null]
        /\ killed' = [killed EXCEPT ![z] = FALSE]
  BY DEF WaitReaps, ZombieChildren, Children
<1>3. /\ kpc' = [kpc EXCEPT ![p] = "user"]
      /\ UNCHANGED <<chan, nextpid, np, cpuproc, scan>>
  BY DEF WaitReaps, Move
<1>4. parent[z] = p /\ state[z] = "ZOMBIE"
  BY <1>2
<1>5. \A q \in Slots :
        /\ state'[q] = IF q = z THEN "UNUSED" ELSE state[q]
        /\ parent'[q] = IF q = z THEN Null ELSE parent[q]
        /\ pid'[q] = IF q = z THEN 0 ELSE pid[q]
        /\ killed'[q] = IF q = z THEN FALSE ELSE killed[q]
        /\ kpc'[q] = IF q = p THEN "user" ELSE kpc[q]
  BY <1>2, <1>3 DEF IndInv, TypeOK, TableOK, PlacesOK
<1>6. TypeOK'
  BY <1>2, <1>3, ProcAssumption
     DEF WaitReaps, IndInv, TypeOK, TableOK, PlacesOK, States, Places
<1>7. OnOneCpu'
  BY <1>2, <1>3, <1>5 DEF IndInv, OnOneCpu
<1>8. ParentCanReap' /\ FreeHasNoParent' /\ NotOwnParent' /\ InitAlive'
  <2>1. ParentCanReap'
    <3>1. \A q \in Slots : parent[q] # Null => parent[q] \in Slots
      BY DEF IndInv, TypeOK
    <3>2. ASSUME NEW q \in Slots \ {initproc}, state'[q] \notin {"UNUSED", "EMBRYO"}
          PROVE  /\ parent'[q] = parent[q] /\ parent[q] # Null
                 /\ state[parent[q]] \notin {"UNUSED", "EMBRYO", "ZOMBIE"}
      BY <1>5, <3>2 DEF IndInv, ParentCanReap
    <3>3. ASSUME NEW q \in Slots \ {initproc}, state'[q] \notin {"UNUSED", "EMBRYO"}
          PROVE  state'[parent[q]] = state[parent[q]]
      BY <1>4, <1>5, <3>1, <3>2, <3>3
    <3> QED
      BY <3>2, <3>3 DEF ParentCanReap
  <2>2. FreeHasNoParent' /\ NotOwnParent'
    BY <1>5, SlotFacts DEF IndInv, FreeHasNoParent, NotOwnParent
  <2>3. InitAlive'
    BY <1>4, <1>5, SlotFacts DEF IndInv, InitAlive
  <2> QED
    BY <2>1, <2>2, <2>3
<1>9. WaiterNotForgotten'
  <2> SUFFICES ASSUME NEW w \in Slots, state'[w] = "SLEEPING", kpc'[w] = "wait"
               PROVE  Children(w)' # {} /\ ZombieChildren(w)' = {} /\ ~killed'[w]
    BY DEF WaiterNotForgotten
  <2>1. w # p /\ w # z /\ state[w] = "SLEEPING" /\ kpc[w] = "wait"
    BY <1>5
  <2>2. Children(w) # {} /\ ZombieChildren(w) = {} /\ ~killed[w]
    BY <2>1 DEF IndInv, WaiterNotForgotten
  <2>3. Children(w)' = Children(w)
    BY <1>2, <1>5, <2>1, SlotFacts DEF Children
  <2>4. \A q \in Children(w) : state'[q] # "ZOMBIE"
    BY <1>5, <2>2 DEF ZombieChildren, Children
  <2> QED
    BY <1>5, <2>1, <2>2, <2>3, <2>4 DEF ZombieChildren
<1>10. SleepsOnSelf'
  <2>1. \A q \in Slots : state'[q] = "SLEEPING" /\ kpc'[q] = "wait" =>
                            state[q] = "SLEEPING" /\ kpc[q] = "wait"
    BY <1>5
  <2> QED
    BY <1>3, <2>1 DEF IndInv, SleepsOnSelf
<1>11. PidsUnique' /\ PidsBelow'
  <2>1. 0 < nextpid
    BY ProcAssumption DEF IndInv, TypeOK, TableOK
  <2>2. PidsUnique'
    BY <1>5 DEF IndInv, PidsUnique
  <2>3. nextpid' = nextpid
    BY <1>3
  <2> QED
    BY <1>5, <2>1, <2>2, <2>3 DEF IndInv, PidsBelow
<1>12. ForkInv'
  BY <1>2, <1>3, <1>5, ForkFrame DEF IndInv, Forking
<1> QED
  BY <1>6, <1>7, <1>8, <1>9, <1>10, <1>11, <1>12 DEF IndInv

\* A process that goes to sleep, in wait or elsewhere, is not one of those that
\* are RUNNING.  In wait it has looked for zombies and for killed before.
LEMMA GoToSleep ==
  ASSUME IndInv, NEW c \in CPUs, NEW p \in Slots, NEW S, At(c, p, S),
         NEW ch \in Slots \cup Chans, NEW place \in {"wait", "sleep"},
         chan' = [chan EXCEPT ![p] = ch],
         state' = [state EXCEPT ![p] = "SLEEPING"],
         Move(p, place),
         place = "wait" => /\ ch = p
                           /\ Children(p) # {} /\ ZombieChildren(p) = {} /\ ~killed[p],
         sched(c),
         UNCHANGED <<pid, parent, killed, nextpid, np, scan>>
  PROVE  IndInv'
<1>1. state[p] = "RUNNING" /\ cpuproc[c] = p
  BY OnCpu
<1>2. \A q \in Slots :
        /\ state'[q] = IF q = p THEN "SLEEPING" ELSE state[q]
        /\ kpc'[q] = IF q = p THEN place ELSE kpc[q]
        /\ chan'[q] = IF q = p THEN ch ELSE chan[q]
  BY DEF Move, IndInv, TypeOK, TableOK, PlacesOK
<1>3. TypeOK'
  BY SlotFacts DEF Move, sched, IndInv, TypeOK, TableOK, PlacesOK, States, Places
<1>4. OnOneCpu'
  BY <1>1, <1>2, SchedOnOneCpu DEF IndInv
<1>5. ParentCanReap' /\ FreeHasNoParent' /\ NotOwnParent' /\ InitAlive'
  BY <1>1, <1>2, SlotFacts
     DEF IndInv, TypeOK, ParentCanReap, FreeHasNoParent, NotOwnParent,
         InitAlive
<1>6. WaiterNotForgotten' /\ SleepsOnSelf'
  BY <1>2 DEF IndInv, WaiterNotForgotten, SleepsOnSelf, Children, ZombieChildren
<1>7. PidsUnique' /\ PidsBelow'
  BY DEF IndInv, PidsUnique, PidsBelow
<1>8. ForkInv'
  BY <1>1, <1>2, ForkFrame DEF IndInv, Forking
<1> QED
  BY <1>3, <1>4, <1>5, <1>6, <1>7, <1>8 DEF IndInv

\* Sleeping processes that become RUNNABLE disturb nothing.
LEMMA WakeStep ==
  ASSUME IndInv, state' \in [Slots -> States], killed' \in [Slots -> BOOLEAN],
         kpc' \in [Slots -> Places],
         \A q \in Slots : \/ state'[q] = state[q]
                          \/ state[q] = "SLEEPING" /\ state'[q] = "RUNNABLE",
         \A q \in Slots : killed'[q] = killed[q] \/ state'[q] # "SLEEPING",
         \A q \in Slots : \/ kpc'[q] = kpc[q]
                          \/ state[q] = "RUNNING" /\ kpc'[q] = "user",
         UNCHANGED <<pid, parent, chan, nextpid, np, cpuproc, scan, ptlock>>
  PROVE  IndInv'
<1>1. TypeOK'
  BY DEF IndInv, TypeOK, TableOK, PlacesOK
<1>2. OnOneCpu'
  BY DEF IndInv, OnOneCpu
<1>3. ParentCanReap' /\ FreeHasNoParent' /\ NotOwnParent' /\ InitAlive'
  BY SlotFacts DEF IndInv, TypeOK, ParentCanReap, FreeHasNoParent, NotOwnParent,
         InitAlive
<1>4. WaiterNotForgotten' /\ SleepsOnSelf'
  BY DEF IndInv, WaiterNotForgotten, SleepsOnSelf, Children, ZombieChildren
<1>5. PidsUnique' /\ PidsBelow'
  BY DEF IndInv, PidsUnique, PidsBelow
<1>6. ForkInv'
  BY ForkFrame DEF IndInv, Forking
<1> QED
  BY <1>1, <1>2, <1>3, <1>4, <1>5, <1>6 DEF IndInv

\* kill marks one process and wakes it if it sleeps.
LEMMA KillStep ==
  ASSUME IndInv, NEW c \in CPUs, NEW p \in Slots, NEW n, kill(c, p, n)
  PROVE  IndInv'
<1>1. PICK v \in Slots :
        /\ killed' = [killed EXCEPT ![v] = TRUE]
        /\ state' = [state EXCEPT ![v] = KillWakes(v)]
  BY DEF kill, WithPid
<1>2. state[p] = "RUNNING"
  BY OnCpu DEF kill
<1>3. state' \in [Slots -> States] /\ killed' \in [Slots -> BOOLEAN]
  BY <1>1 DEF IndInv, TypeOK, TableOK, KillWakes, States
<1>4. kpc' \in [Slots -> Places]
  BY DEF kill, Move, IndInv, TypeOK, PlacesOK, Places
<1>5. \A q \in Slots : /\ state'[q] = IF q = v THEN KillWakes(v) ELSE state[q]
                       /\ q # v => killed'[q] = killed[q]
                       /\ q # p => kpc'[q] = kpc[q]
  BY <1>1 DEF kill, Move, IndInv, TypeOK, TableOK, PlacesOK
<1>6. kpc'[p] = "user"
  BY DEF kill, Move, IndInv, TypeOK, PlacesOK
<1>7. /\ KillWakes(v) # "SLEEPING"
      /\ \/ KillWakes(v) = state[v]
         \/ state[v] = "SLEEPING" /\ KillWakes(v) = "RUNNABLE"
  BY DEF KillWakes
<1>8. \A q \in Slots : \/ state'[q] = state[q]
                       \/ state[q] = "SLEEPING" /\ state'[q] = "RUNNABLE"
  BY <1>5, <1>7
<1>9. \A q \in Slots : killed'[q] = killed[q] \/ state'[q] # "SLEEPING"
  BY <1>5, <1>7
<1>10. \A q \in Slots : \/ kpc'[q] = kpc[q]
                        \/ state[q] = "RUNNING" /\ kpc'[q] = "user"
  BY <1>2, <1>5, <1>6
<1>11. UNCHANGED <<pid, parent, chan, nextpid, np, cpuproc, scan, ptlock>>
  BY DEF kill
<1> QED
  BY <1>3, <1>4, <1>8, <1>9, <1>10, <1>11, WakeStep

\* So does wakeup, for all the processes on a channel.
LEMMA WakeupStep ==
  ASSUME IndInv, NEW ch \in Chans, wakeup(ch)
  PROVE  IndInv'
<1>1. state' \in [Slots -> States]
  BY DEF wakeup, wakeup1, IndInv, TypeOK, TableOK, States
<1>2. \A q \in Slots : \/ state'[q] = state[q]
                       \/ state[q] = "SLEEPING" /\ state'[q] = "RUNNABLE"
  BY DEF wakeup, wakeup1
<1>3. killed' \in [Slots -> BOOLEAN] /\ kpc' \in [Slots -> Places]
  BY DEF wakeup, IndInv, TypeOK, TableOK, PlacesOK
<1>4. UNCHANGED <<pid, parent, chan, killed, nextpid, kpc, np, cpuproc, scan, ptlock>>
  BY DEF wakeup
<1>5. \A q \in Slots : killed'[q] = killed[q] /\ kpc'[q] = kpc[q]
  BY <1>4
<1> QED
  BY <1>1, <1>2, <1>3, <1>4, <1>5, WakeStep

\* A scheduler runs a process that is RUNNABLE, so nobody else runs it.
LEMMA DispatchStep ==
  ASSUME IndInv, NEW c \in CPUs, NEW q \in Runnable, Dispatch(c, Runnable, q)
  PROVE  IndInv'
<1>1. q \in Slots /\ state[q] = "RUNNABLE" /\ cpuproc[c] = Null
  BY DEF Runnable, Dispatch, InScheduler
<1>2. /\ state' = [state EXCEPT ![q] = "RUNNING"]
      /\ cpuproc' = [cpuproc EXCEPT ![c] = q]
      /\ UNCHANGED <<pid, parent, killed, nextpid, np>>
  BY DEF Dispatch
<1>3. /\ \A r \in Slots : /\ state'[r] = IF r = q THEN "RUNNING" ELSE state[r]
                          /\ r # q => kpc'[r] = kpc[r] /\ chan'[r] = chan[r]
      /\ \A d \in CPUs : cpuproc'[d] = IF d = c THEN q ELSE cpuproc[d]
      /\ kpc'[q] = kpc[q] \/ kpc'[q] \in {"user", "kernel"}
  BY <1>1 DEF Dispatch, IndInv, TypeOK, TableOK, PlacesOK
<1>4. TypeOK'
  <2>1. /\ state' \in [Slots -> States]
        /\ cpuproc' \in [CPUs -> Slots \cup {Null}]
        /\ kpc' \in [Slots -> Places]
    BY <1>1, <1>2 DEF Dispatch, IndInv, TypeOK, TableOK, PlacesOK, States, Places
  <2>2. chan' \in [Slots -> Slots \cup Chans \cup {Null}]
    BY DEF Dispatch, IndInv, TypeOK, TableOK
  <2>3. ptlock' \in CPUs \cup {NoCpu}
    BY DEF Dispatch, IndInv, TypeOK, PlacesOK
  <2>4. scan' \in [CPUs -> 0 .. NPROC]
    BY <1>1, ProcAssumption DEF Dispatch, ScanAfter, Slots, IndInv, TypeOK, PlacesOK
  <2> QED
    BY <1>2, <2>1, <2>2, <2>3, <2>4 DEF IndInv, TypeOK, TableOK, PlacesOK
<1>5. OnOneCpu'
  BY <1>1, <1>3, SlotFacts DEF IndInv, OnOneCpu
<1>6. ParentCanReap' /\ FreeHasNoParent' /\ NotOwnParent' /\ InitAlive'
  BY <1>1, <1>2, <1>3, SlotFacts
     DEF IndInv, TypeOK, ParentCanReap, FreeHasNoParent, NotOwnParent,
         InitAlive
<1>7. WaiterNotForgotten' /\ SleepsOnSelf'
  BY <1>1, <1>2, <1>3
     DEF IndInv, WaiterNotForgotten, SleepsOnSelf, Children, ZombieChildren
<1>8. PidsUnique' /\ PidsBelow'
  BY <1>2 DEF IndInv, PidsUnique, PidsBelow
<1>9. ForkInv'
  BY <1>1, <1>2, <1>3, ForkFrame DEF IndInv, Forking
<1> QED
  BY <1>4, <1>5, <1>6, <1>7, <1>8, <1>9 DEF IndInv

\* The end of a pass moves nothing but the scheduler's own loop.
LEMMA PassEndsStep ==
  ASSUME IndInv, NEW c \in CPUs, PassEnds(c, Runnable)
  PROVE  IndInv'
<1>1. TypeOK'
  BY ProcAssumption DEF PassEnds, table, IndInv, TypeOK, TableOK, PlacesOK
<1> QED
  BY <1>1 DEF PassEnds, table, IndInv, OnOneCpu, ParentCanReap, WaiterNotForgotten,
     Children, ZombieChildren, PidsUnique, ForkInv, Forking, FreeHasNoParent,
     NotOwnParent, SleepsOnSelf, InitAlive, PidsBelow

\* Every step of a process keeps the invariant.
LEMMA RunningStep ==
  ASSUME IndInv, NEW c \in CPUs, NEW p \in Slots, Running(c, p)
  PROVE  IndInv'
<1>1. CASE SyscallEnter(c, p)
  BY <1>1, MoveStep DEF SyscallEnter, Places, IndInv, TypeOK, PlacesOK
<1>2. CASE SyscallReturn(c, p)
  BY <1>2, MoveStep DEF SyscallReturn, Places, IndInv, TypeOK, PlacesOK
<1>3. CASE ExitKilled(c, p)
  BY <1>3, MoveStep DEF ExitKilled, Places, IndInv, TypeOK, PlacesOK
<1>4. CASE sys_exit(c, p)
  BY <1>4, MoveStep DEF sys_exit, Places, IndInv, TypeOK, PlacesOK
<1>5. CASE sys_wait(c, p)
  BY <1>5, MoveStep DEF sys_wait, Places, IndInv, TypeOK, PlacesOK
<1>6. CASE WaitFails(c, p)
  <2>1. PICK S : At(c, p, S)
    BY <1>6 DEF WaitFails, InWait
  <2>2. /\ Move(p, "user") /\ ptlock' = NoCpu
        /\ UNCHANGED <<table, np, cpuproc, scan>>
    BY <1>6 DEF WaitFails
  <2> QED
    BY <2>1, <2>2, MoveStep DEF Places
<1>7. CASE WaitSleeps(c, p)
  <2>1. PICK S : At(c, p, S)
    BY <1>7 DEF WaitSleeps, InWait
  <2> QED
    BY <1>7, <2>1, GoToSleep DEF WaitSleeps
<1>8. ASSUME NEW ch \in Chans, sleep(c, p, ch) PROVE IndInv'
  BY <1>8, GoToSleep DEF sleep
<1>9. ASSUME NEW n \in 1 .. MaxPid, kill(c, p, n) PROVE IndInv'
  BY <1>9, KillStep
<1> QED
  BY <1>1, <1>2, <1>3, <1>4, <1>5, <1>6, <1>7, <1>8, <1>9, FaultStep, YieldStep,
     AllocprocStep, ForkFailsStep, ForkCopiesStep, ForkDoneStep, WaitReapsStep
     DEF Running

-----------------------------------------------------------------------------

\* The kernel boots into the invariant.
LEMMA InitInv == Init => IndInv
<1> SUFFICES ASSUME Init PROVE IndInv
  OBVIOUS
<1>1. TypeOK
  <2>1. /\ state \in [Slots -> States] /\ kpc \in [Slots -> Places]
        /\ pid \in [Slots -> 0 .. MaxPid] /\ nextpid \in 1 .. MaxPid + 1
    BY ProcAssumption DEF Init, userinit, States, Places
  <2>2. scan \in [CPUs -> 0 .. NPROC]
    BY ProcAssumption DEF Init
  <2> QED
    BY <2>1, <2>2 DEF Init, TypeOK, TableOK, PlacesOK
<1>2. OnOneCpu /\ ParentCanReap /\ InitAlive
  BY SlotFacts DEF Init, userinit, OnOneCpu, ParentCanReap, InitAlive
<1>3. WaiterNotForgotten /\ FreeHasNoParent /\ NotOwnParent /\ SleepsOnSelf
  BY SlotFacts
     DEF Init, userinit, WaiterNotForgotten, FreeHasNoParent, NotOwnParent, SleepsOnSelf
<1>4. PidsUnique /\ PidsBelow /\ ForkInv
  BY DEF Init, userinit, PidsUnique, PidsBelow, ForkInv, Forking
<1> QED
  BY <1>1, <1>2, <1>3, <1>4 DEF IndInv

\* Every step of the kernel keeps the invariant.
LEMMA NextInv == IndInv /\ [Next]_vars => IndInv'
<1> SUFFICES ASSUME IndInv, [Next]_vars PROVE IndInv'
  OBVIOUS
<1>1. ASSUME NEW c \in CPUs, NEW p \in Slots, Running(c, p) \/ exit(c, p) PROVE IndInv'
  BY <1>1, RunningStep, ExitStep
<1>2. ASSUME NEW c \in CPUs, scheduler(c) PROVE IndInv'
  BY <1>2, DispatchStep, PassEndsStep DEF scheduler, Schedules
<1>3. ASSUME NEW ch \in Chans, wakeup(ch) PROVE IndInv'
  BY <1>3, WakeupStep
<1>4. CASE UNCHANGED vars
  BY <1>4 DEF vars, table, IndInv, TypeOK, TableOK, PlacesOK, OnOneCpu, ParentCanReap,
     WaiterNotForgotten, Children, ZombieChildren, PidsUnique, ForkInv, Forking,
     FreeHasNoParent, NotOwnParent, SleepsOnSelf, InitAlive, PidsBelow
<1> QED
  BY <1>1, <1>2, <1>3, <1>4 DEF Next, KernelSteps

\* The inductive invariant of the process table.
THEOREM ProcInvariant == Spec => []IndInv
BY InitInv, NextInv, PTL DEF Spec

\* The process table has its type, whatever the processes do.
THEOREM ProcTypeCorrect == Spec => []TypeOK
<1>1. IndInv => TypeOK
  BY DEF IndInv
<1> QED
  BY <1>1, ProcInvariant, PTL

\* No two CPUs ever run the same process, and only RUNNING processes run.
THEOREM ProcOnOneCpu == Spec => []OnOneCpu
<1>1. IndInv => OnOneCpu
  BY DEF IndInv
<1> QED
  BY <1>1, ProcInvariant, PTL

\* Whatever exits happen, every process has a parent that can wait for it.
THEOREM ProcParentCanReap == Spec => []ParentCanReap
<1>1. IndInv => ParentCanReap
  BY DEF IndInv
<1> QED
  BY <1>1, ProcInvariant, PTL

\* No process sleeps in wait beside a zombie child, or after it was killed.
THEOREM ProcWaiterNotForgotten == Spec => []WaiterNotForgotten
<1>1. IndInv => WaiterNotForgotten
  BY DEF IndInv
<1> QED
  BY <1>1, ProcInvariant, PTL

\* kill finds the process it means: no two slots have the same pid.
THEOREM ProcPidsUnique == Spec => []PidsUnique
<1>1. IndInv => PidsUnique
  BY DEF IndInv
<1> QED
  BY <1>1, ProcInvariant, PTL

\* What ZombieUntilWait says of one step.
ReapedOnlyByWait ==
  \A p \in Slots :
    state[p] = "ZOMBIE" /\ state'[p] # "ZOMBIE" =>
      /\ state'[p] = "UNUSED"
      /\ \E c \in CPUs : cpuproc[c] = parent[p] /\ InWait(c, parent[p])

\* No action but WaitReaps touches a zombie: those that change the state of the
\* process that runs, or of a slot that a fork owns, change another slot.
LEMMA ReapStep == IndInv /\ [Next]_vars => ReapedOnlyByWait
<1> SUFFICES ASSUME IndInv, [Next]_vars, NEW z \in Slots,
                    state[z] = "ZOMBIE", state'[z] # "ZOMBIE"
             PROVE  /\ state'[z] = "UNUSED"
                    /\ \E c \in CPUs : cpuproc[c] = parent[z] /\ InWait(c, parent[z])
  BY DEF ReapedOnlyByWait
<1>1. ASSUME NEW c \in CPUs, NEW p \in Slots, WaitReaps(c, p)
      PROVE  /\ state'[z] = "UNUSED"
             /\ cpuproc[c] = parent[z] /\ InWait(c, parent[z])
  <2>1. PICK y \in Slots : parent[y] = p /\ state' = [state EXCEPT ![y] = "UNUSED"]
    BY <1>1 DEF WaitReaps, ZombieChildren, Children
  <2>2. y = z /\ state'[z] = "UNUSED"
    BY <2>1 DEF IndInv, TypeOK, TableOK
  <2> QED
    BY <1>1, <2>1, <2>2 DEF WaitReaps, InWait, At
<1>2. ASSUME NEW c \in CPUs, NEW p \in Slots, Running(c, p), ~WaitReaps(c, p)
      PROVE  FALSE
  <2>1. ASSUME NEW S, At(c, p, S) PROVE state[p] = "RUNNING"
    BY <2>1, OnCpu
  <2>2. CASE \/ SyscallEnter(c, p) \/ SyscallReturn(c, p) \/ ExitKilled(c, p)
             \/ Fault(c, p) \/ sys_exit(c, p) \/ ForkCopies(c, p) \/ sys_wait(c, p)
             \/ WaitFails(c, p)
    BY <2>2 DEF SyscallEnter, SyscallReturn, ExitKilled, Fault, sys_exit, ForkCopies,
                sys_wait, WaitFails, table
  <2>3. CASE yield(c, p)
    BY <2>1, <2>3 DEF yield, IndInv, TypeOK, TableOK
  <2>4. CASE allocproc(c, p)
    BY <2>4 DEF allocproc, Free, IndInv, TypeOK, TableOK
  <2>5. CASE ForkFails(c, p) \/ ForkDone(c, p)
    <3>1. Forking(p)
      BY <2>5 DEF ForkFails, ForkDone, At, Forking
    <3>2. np[p] \in Slots /\ state[np[p]] = "EMBRYO"
      BY <3>1 DEF IndInv, ForkInv
    <3> QED
      BY <2>5, <3>2 DEF ForkFails, ForkDone, IndInv, TypeOK, TableOK
  <2>6. CASE WaitSleeps(c, p)
    BY <2>1, <2>6 DEF WaitSleeps, InWait, IndInv, TypeOK, TableOK
  <2>7. ASSUME NEW ch \in Chans, sleep(c, p, ch) PROVE FALSE
    BY <2>1, <2>7 DEF sleep, IndInv, TypeOK, TableOK
  <2>8. ASSUME NEW n \in 1 .. MaxPid, kill(c, p, n) PROVE FALSE
    BY <2>8 DEF kill, KillWakes, WithPid, IndInv, TypeOK, TableOK
  <2> QED
    BY <1>2, <2>2, <2>3, <2>4, <2>5, <2>6, <2>7, <2>8 DEF Running
<1>3. ASSUME NEW c \in CPUs, NEW p \in Slots, exit(c, p) PROVE FALSE
  BY <1>3 DEF exit, Leave, ExitWakes, wakeup1, IndInv, TypeOK, TableOK
<1>4. ASSUME NEW c \in CPUs, scheduler(c) PROVE FALSE
  BY <1>4 DEF scheduler, Schedules, PassEnds, Dispatch, Runnable, table,
              IndInv, TypeOK, TableOK
<1>5. ASSUME NEW ch \in Chans, wakeup(ch) PROVE FALSE
  BY <1>5 DEF wakeup, wakeup1
<1>6. CASE UNCHANGED vars
  BY <1>6 DEF vars, table
<1> QED
  BY <1>1, <1>2, <1>3, <1>4, <1>5, <1>6 DEF Next, KernelSteps

\* An exited process stays a zombie until the process that is then its parent,
\* while it runs in wait, frees it.
THEOREM ProcZombieUntilWait == Spec => ZombieUntilWait
<1>1. IndInv /\ [Next]_vars => [ReapedOnlyByWait]_vars
  BY ReapStep
<1>2. Spec => [][ReapedOnlyByWait]_vars
  BY <1>1, ProcInvariant, PTL DEF Spec
<1> QED
  BY <1>2 DEF ZombieUntilWait, ReapedOnlyByWait

================================================================================
