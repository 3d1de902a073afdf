-------------------------------- MODULE Vxrun -------------------------------
(***************************************************************************)
(* Lab 92: the Dis module $Vxrun runs a native program in a sandbox.       *)
(* Vxrun_run gives up the lock of the Dis interpreter while the program    *)
(* runs, serves its system calls, and takes the lock again to return.      *)
(*                                                                         *)
(* Addresses are VmBits wide and memory is asked for in steps of VmUnit;   *)
(* in the code these are 32 and a megabyte.  Of reading, writing, opening  *)
(* and closing files only the control is here: the answer is any.          *)
(***************************************************************************)
EXTENDS Integers, FiniteSets

CONSTANTS VmThread,              \* Dis threads that call Vxrun_run
          VmBits, VmUnit,        \* width of addresses, step of memory
          Vxprocs                \* sandboxes libvx32 has

\* No thread is called as the lock is when it is free; that a power of two is a
\* number is for the provers, which do not compute powers.
ASSUME VxrunAssumption ==
    /\ VmBits \in Nat \ {0} /\ 2 ^ VmBits \in Nat
    /\ VmUnit \in 1 .. 2 ^ VmBits /\ Vxprocs \in Nat
    /\ "free" \notin VmThread

VARIABLES dis,                   \* who has the lock of the interpreter
          vm,                    \* thread: what it is doing, and its answer
          vmem,                  \* thread: size of memory, what is usable of it
          eax,                   \* thread: the answer to the last system call
          vmprocs,               \* sandboxes allocated
          asked                  \* history: thread: the memory it was granted,
                                 \* and what a break that failed left behind

vxVars == <<dis, vm, vmem, eax, vmprocs, asked>>

Space == 2 ^ VmBits
Unlocked == "free"
Loaded == VmUnit                 \* the program itself
NoBreak == [granted |-> {}, behind |-> {}]
Nothing == [size |-> 0, rw |-> {}]
Trouble == [siginit |-> -1, alloc |-> -2, load |-> -3, run |-> -4, trap |-> -5]

VxrunInit ==
    /\ dis = Unlocked
    /\ vm = [t \in VmThread |-> [at |-> "dis", ret |-> 0]]
    /\ vmem = [t \in VmThread |-> Nothing]
    /\ eax = [t \in VmThread |-> 0]
    /\ vmprocs = 0
    /\ asked = [t \in VmThread |-> NoBreak]

-----------------------------------------------------------------------------
(***************************************************************************)
(* Vxrun_run                                                               *)
(***************************************************************************)
\* The thread runs in the interpreter, and calls, or leaves it to another.
DisRuns(t) ==
    /\ vm[t].at = "dis" /\ dis = Unlocked
    /\ dis' = t
    /\ vm' = [vm EXCEPT ![t] = [at |-> "called", ret |-> 0]]
    /\ UNCHANGED <<vmem, eax, vmprocs, asked>>

VmRelease(t) ==
    /\ vm[t].at = "called"
    /\ dis' = Unlocked
    /\ vm' = [vm EXCEPT ![t].at = "siginit"]
    /\ UNCHANGED <<vmem, eax, vmprocs, asked>>

\* Back to the caller: of the sandbox only its place in vmprocs stays.
Leaving(t, ret) ==
    /\ vm' = [vm EXCEPT ![t] = [at |-> "leaving", ret |-> ret]]
    /\ vmem' = [vmem EXCEPT ![t] = Nothing]
    /\ eax' = [eax EXCEPT ![t] = 0]
    /\ asked' = [asked EXCEPT ![t] = NoBreak]
VmFails(t, why) == Leaving(t, Trouble[why])

\* Signals, a sandbox, and the program: each may fail.  Sandboxes are never
\* given back, so in the end there is none.
VmGoes(t, from, to) == vm[t].at = from /\ vm' = [vm EXCEPT ![t].at = to]
VmStep(t) ==
    /\ \/ /\ VmGoes(t, "siginit", "alloc")
          /\ UNCHANGED <<vmprocs, vmem, eax, asked>>
       \/ /\ vmprocs < Vxprocs /\ VmGoes(t, "alloc", "load")
          /\ vmprocs' = vmprocs + 1
          /\ UNCHANGED <<vmem, eax, asked>>
       \/ /\ VmGoes(t, "load", "running")
          /\ vmem' = [vmem EXCEPT ![t].size = Loaded]
          /\ UNCHANGED <<vmprocs, eax, asked>>
       \/ /\ \/ vm[t].at = "alloc" /\ vmprocs = Vxprocs
             \/ vm[t].at \in {"siginit", "load"}
          /\ VmFails(t, vm[t].at)
          /\ UNCHANGED vmprocs
    /\ UNCHANGED dis

\* A trap that is no system call ends the run, and so does an error; then the
\* lock is taken before the answer is stored, which is no difference.
VmTrap(t) ==
    /\ vm[t].at = "running"
    /\ VmFails(t, "run") \/ VmFails(t, "trap")
    /\ UNCHANGED <<dis, vmprocs>>

VmAcquire(t) ==
    /\ vm[t].at = "leaving" /\ dis = Unlocked
    /\ dis' = t
    /\ vm' = [vm EXCEPT ![t].at = "returned"]
    /\ UNCHANGED <<vmem, eax, vmprocs, asked>>

DisGoesOn(t) ==
    /\ vm[t].at = "returned"
    /\ dis' = Unlocked
    /\ vm' = [vm EXCEPT ![t].at = "dis"]
    /\ UNCHANGED <<vmem, eax, vmprocs, asked>>

-----------------------------------------------------------------------------
(***************************************************************************)
(* dosyscall                                                               *)
(***************************************************************************)
VmExit(t, n) ==
    /\ vm[t].at = "running"
    /\ Leaving(t, n)
    /\ UNCHANGED <<dis, vmprocs>>

\* mutant: the break is rounded down
Rounded_Down(addr) == VmUnit * (addr \div VmUnit)
\* to the next unit, in VmBits bits
Rounded(addr) == VmUnit * (((addr + VmUnit - 1) % Space) \div VmUnit)

Grows(t, addr) == addr > vmem[t].size
Resized(m, addr) == [m EXCEPT !.size = addr]
Usable(m, addr) == [size |-> addr, rw |-> m.rw \cup (m.size .. addr - 1)]

\* A break so near the end of the address space that it is rounded to zero
\* grants nothing.
Granted(a) == IF a > Space - VmUnit THEN {} ELSE Loaded .. a - 1

\* VXSYSBRK: memory grows to the rounded break and its new part is made
\* readable and writable; either may fail.  It never shrinks, and memory that is
\* large enough is left as it is.
VmBrk(t, a) ==
    LET addr == Rounded(a)
    IN  /\ vm[t].at = "running"
        /\ \/ /\ ~Grows(t, addr)
              /\ eax' = [eax EXCEPT ![t] = 0]
              /\ asked' = [asked EXCEPT ![t].granted = @ \cup Granted(a)]
              /\ UNCHANGED vmem
           \/ /\ Grows(t, addr)
              /\ vmem' = [vmem EXCEPT ![t] = Usable(@, addr)]
              /\ eax' = [eax EXCEPT ![t] = 0]
              /\ asked' = [asked EXCEPT ![t].granted = @ \cup Granted(a)]
           \/ /\ Grows(t, addr)
              /\ eax' = [eax EXCEPT ![t] = -1]
              /\ UNCHANGED <<vmem, asked>>
           \/ /\ Grows(t, addr)
              /\ vmem' = [vmem EXCEPT ![t] = Resized(@, addr)]
              /\ eax' = [eax EXCEPT ![t] = -1]
              /\ asked' = [asked EXCEPT ![t].behind = @ \cup (vmem[t].size .. addr - 1)]
        /\ UNCHANGED <<dis, vm, vmprocs>>

\* The others: bad arguments to read and write are printed and the call made
\* all the same; a call there is no case for answers with what ret holds.
VmFile(t, ret) ==
    /\ vm[t].at = "running"
    /\ eax' = [eax EXCEPT ![t] = ret]
    /\ UNCHANGED <<dis, vm, vmem, vmprocs, asked>>

VxrunNext ==
    \E t \in VmThread :
        \/ DisRuns(t) \/ VmRelease(t) \/ VmStep(t) \/ VmTrap(t)
        \/ VmAcquire(t) \/ DisGoesOn(t)
        \/ \E n \in {0, 1} : VmExit(t, n)
        \/ \E a \in 0 .. Space - 1 : VmBrk(t, a)
        \/ \E ret \in {-1, 1} : VmFile(t, ret)

VxrunSpec == VxrunInit /\ [][VxrunNext]_vxVars

-----------------------------------------------------------------------------
\* A thread is in the interpreter only with its lock, and runs no program while
\* it has it; threads that run programs have a sandbox each.
VmApart ==
    /\ \A t \in VmThread : (dis = t) = (vm[t].at \in {"called", "returned"})
    /\ Cardinality({t \in VmThread : vm[t].at \in {"load", "running"}}) <= vmprocs
    /\ vmprocs <= Vxprocs

\* Through all its breaks, granted and refused, a program may read and write the
\* memory below each break that was granted, but for the program itself and for
\* what a setperm that failed left behind: a later break finds that memory large
\* enough, and leaves it as it is.  No memory is both.
BrkGrants ==
    \A t \in VmThread :
        /\ asked[t].granted \subseteq vmem[t].rw \cup asked[t].behind
        /\ vmem[t].rw \cap asked[t].behind = {}

VxrunServes == VmApart /\ BrkGrants

=============================================================================
