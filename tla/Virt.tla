-------------------------------- MODULE Virt --------------------------------
(***************************************************************************)
(* What the simulator makes of ports and CPUs for the programs it runs     *)
(* (virt/ports.cpp, virt/port_virtualizer.h, virt/cpu.cpp, cpuenum.h).     *)
(*                                                                         *)
(* Ports: a port that a program binds is replaced by one the system        *)
(* chooses; two maps, under a lock that bind() keeps over the system call, *)
(* translate it for connect() and back for getsockname().  Sockets stand   *)
(* for the threads that use them; all are of one port domain.              *)
(*                                                                         *)
(* CPUs: a program sees the cores of its process, numbered from 0 if       *)
(* sim.perProcessCpuEnum is set.                                           *)
(***************************************************************************)
EXTENDS Integers, FiniteSets

CONSTANTS
    Socks,      \* sockets
    VPorts,     \* ports the programs name
    RPorts,     \* ports the system has
    NumCores,   \* cores 0 .. NumCores-1
    Confs       \* configurations: what is exercised, perProcessCpuEnum, the process mask

VirtAssumption == NumCores \in Nat \ {0}

VARIABLES
    conf,
    virtToReal, realToVirt, pvLock,
    sock,       \* [st, virt, want, arg, real]: want is the port asked for (None: any), arg the
                \* address structure of bind() in the program's memory
    rewrites,   \* times the program still changes it while bind() is under way
    raced,      \* history: it was changed between the two times the patch read it
    right,      \* history: getsockname() and connect() named the socket the program meant
    mask,       \* ThreadInfo::mask
    cid,        \* the core of the thread, or NoCid
    answer,     \* history: what the thread last set and was told of its affinity
    failed
vars == <<conf, virtToReal, realToVirt, pvLock, sock, rewrites, raced, right, mask, cid, answer, failed>>

ports == <<virtToReal, realToVirt, pvLock, sock, rewrites, raced, right>>
cpus  == <<mask, cid, answer>>

None  == -1
NoCid == NumCores + 1          \* INVALID_CID and UNINITIALIZED_CID are above every core
Closed == [st |-> "closed", virt |-> None, want |-> None, arg |-> None, real |-> None]
Cores == 0 .. NumCores - 1

Init ==
    /\ conf \in Confs
    /\ virtToReal = [v \in VPorts |-> None] /\ realToVirt = [r \in RPorts |-> None] /\ pvLock = None
    /\ sock = [s \in Socks |-> Closed] /\ rewrites = conf.rewrites /\ raced = FALSE
    /\ right = TRUE
    /\ mask = conf.mask /\ cid = NoCid /\ answer = [set |-> {}, got |-> {}, cpu |-> None]
    /\ failed = "none"

(***************************************************************************)
(* Ports.                                                                  *)
(***************************************************************************)
InUse == {sock[s].real : s \in Socks} \ {None}

\* The faulty form releases the lock before the system call.
PatchBind_Unlocked(s, v) ==
    /\ sock[s].st = "closed" /\ pvLock = None
    /\ sock' = [sock EXCEPT ![s] = [st |-> "bind", virt |-> v, want |-> virtToReal[v], arg |-> v, real |-> None]]
    /\ UNCHANGED <<conf, virtToReal, realToVirt, pvLock, rewrites, raced, right, cpus, failed>>

\* Up to the system call: the port to ask for is the translation, or 0.
PatchBind(s, v) ==
    /\ sock[s].st = "closed" /\ pvLock = None
    /\ pvLock' = s
    /\ sock' = [sock EXCEPT ![s] = [st |-> "bind", virt |-> v, want |-> virtToReal[v], arg |-> v, real |-> None]]
    /\ UNCHANGED <<conf, virtToReal, realToVirt, rewrites, raced, right, cpus, failed>>

\* bind() in the system (external): a given port must be free, port 0 is any free one.
Bind(s) ==
    /\ sock[s].st = "bind"
    /\ LET want == sock[s].want IN
       \/ /\ IF want = None THEN \E r \in RPorts \ InUse : sock' = [sock EXCEPT ![s].st = "bound", ![s].real = r]
             ELSE want \notin InUse /\ sock' = [sock EXCEPT ![s].st = "bound", ![s].real = want]
       \/ /\ IF want = None THEN RPorts \subseteq InUse ELSE want \in InUse
          /\ sock' = [sock EXCEPT ![s].st = "refused"]
    /\ UNCHANGED <<conf, virtToReal, realToVirt, pvLock, rewrites, raced, right, cpus, failed>>

\* Another thread of the program reuses the address structure meanwhile.
Rewrite(s, v) ==
    /\ rewrites > 0 /\ sock[s].st \in {"bind", "bound", "refused"} /\ v # sock[s].arg
    /\ rewrites' = rewrites - 1
    /\ sock' = [sock EXCEPT ![s].arg = v] /\ raced' = TRUE
    /\ UNCHANGED <<conf, virtToReal, realToVirt, pvLock, right, cpus, failed>>

\* The faulty form keeps the first translation of a real port.
registerBind_First(v, r) ==
    /\ realToVirt' = IF realToVirt[r] = None THEN [realToVirt EXCEPT ![r] = v] ELSE realToVirt
    /\ virtToReal' = [virtToReal EXCEPT ![v] = r]

registerBind(v, r) ==
    /\ realToVirt' = [realToVirt EXCEPT ![r] = v]
    /\ virtToReal' = [virtToReal EXCEPT ![v] = r]

\* The patch after the system call reads the program's structure again.
BindDone(s) ==
    /\ sock[s].st \in {"bound", "refused"}
    /\ IF sock[s].st = "bound"
       THEN /\ registerBind(sock[s].arg, sock[s].real)
            /\ sock' = [sock EXCEPT ![s].st = "open", ![s].virt = sock[s].arg]
       ELSE /\ sock' = [sock EXCEPT ![s] = Closed]
            /\ UNCHANGED <<realToVirt, virtToReal>>
    /\ pvLock' = None
    /\ UNCHANGED <<conf, rewrites, raced, right, cpus, failed>>

Close(s) ==
    /\ sock[s].st = "open"
    /\ sock' = [sock EXCEPT ![s] = Closed]
    /\ UNCHANGED <<conf, virtToReal, realToVirt, pvLock, rewrites, raced, right, cpus, failed>>

PatchGetsockname(s) ==
    /\ sock[s].st = "open" /\ pvLock = None
    /\ LET virt == realToVirt[sock[s].real] IN
       right' = (right /\ (IF virt = None THEN sock[s].real ELSE virt) = sock[s].virt)
    /\ UNCHANGED <<conf, virtToReal, realToVirt, pvLock, sock, rewrites, raced, cpus, failed>>

PatchConnect(v) ==
    /\ pvLock = None /\ virtToReal[v] # None
    /\ right' = (right /\ \A s \in Socks : sock[s].st = "open" /\ sock[s].virt = v => sock[s].real = virtToReal[v])
    /\ UNCHANGED <<conf, virtToReal, realToVirt, pvLock, sock, rewrites, raced, cpus, failed>>

(***************************************************************************)
(* CPUs.  The i-th core of the process has number i.                       *)
(***************************************************************************)
\* The faulty form counts the core itself.
Rank_Self(c) == Cardinality({d \in conf.mask : d <= c})

Rank(c) == Cardinality({d \in conf.mask : d < c})

cpuenumNumCpus == IF conf.perProcess THEN Cardinality(conf.mask) ELSE NumCores

cpuenumMask == IF conf.perProcess THEN {Rank(c) : c \in mask \cap conf.mask} ELSE mask

cpuenumUpdateMask(S) == IF conf.perProcess THEN {c \in conf.mask : Rank(c) \in S} ELSE S

cpuenumCpu(c) ==
    IF c = NoCid THEN (IF conf.perProcess THEN 0 ELSE CHOOSE d \in conf.mask : \A e \in conf.mask : d <= e)
    ELSE IF conf.perProcess THEN Rank(c) ELSE c

\* S is the program's set, of which only the CPUs the process has are looked at.
PatchSchedSetaffinity(S) ==
    /\ LET seen == S \cap (0 .. cpuenumNumCpus - 1) IN
       IF ~conf.perProcess /\ ~(seen \subseteq conf.mask) THEN failed' = "outside" /\ UNCHANGED <<mask, answer, cid>>
       ELSE IF cpuenumUpdateMask(seen) = {} THEN failed' = "empty" /\ UNCHANGED <<mask, answer, cid>>
       ELSE /\ mask' = cpuenumUpdateMask(seen)
            /\ answer' = [answer EXCEPT !.set = seen]
            /\ cid' = NoCid                              \* leaves its core; joins one of the mask
            /\ UNCHANGED failed
    /\ UNCHANGED <<conf, ports>>

PatchSchedGetaffinity ==
    /\ answer' = [answer EXCEPT !.got = cpuenumMask]
    /\ UNCHANGED <<conf, ports, mask, cid, failed>>

PatchGetcpu ==
    /\ answer' = [answer EXCEPT !.cpu = cpuenumCpu(cid)]
    /\ UNCHANGED <<conf, ports, mask, cid, failed>>

\* The scheduler places the thread (Scheduler.tla).
Place(c) ==
    /\ c \in mask
    /\ cid' = c
    /\ UNCHANGED <<conf, ports, mask, answer, failed>>

Next ==
    /\ failed = "none"
    /\ \/ /\ conf.part = "ports"
          /\ \/ \E s \in Socks : Bind(s) \/ BindDone(s) \/ Close(s) \/ PatchGetsockname(s)
             \/ \E v \in VPorts : PatchConnect(v) \/ \E s \in Socks : PatchBind(s, v) \/ Rewrite(s, v)
       \/ /\ conf.part = "cpus"
          /\ \/ PatchSchedGetaffinity \/ PatchGetcpu \/ \E c \in Cores : Place(c)
             \/ \E S \in SUBSET (0 .. NumCores) : PatchSchedSetaffinity(S)

Spec == Init /\ [][Next]_vars

(***************************************************************************)
(* Properties.                                                             *)
(***************************************************************************)
\* connect() finds the open socket of a port and getsockname() answers with
\* the port the program bound, however many sockets closed and reused real
\* or virtual ports before - unless the program changed the address while
\* bind() was under way.
OpenSocketsNamed == raced \/ right

\* Affinity: the thread never leaves the cores of its process, is told the
\* set it asked for, and a CPU of that set as its own while it runs.
AffinityRoundTrip ==
    /\ mask \subseteq conf.mask /\ mask # {}
    /\ answer.set # {} => answer.set = cpuenumMask
    /\ cid # NoCid => cpuenumCpu(cid) \in cpuenumMask
    /\ cpuenumMask \subseteq 0 .. cpuenumNumCpus - 1

\* The simulation is stopped only by a set without a core of the process,
\* or, numbering all cores, one with a core that is not of the process.
FailsOnlyOnSet == failed \in {"none", "empty"} \/ (failed = "outside" /\ conf.mask # Cores)
=============================================================================
