----------------------------- MODULE SystemInit ------------------------------
(***************************************************************************)
(* The construction of the simulated system from its configuration:        *)
(* InitSystem, BuildCacheGroup and BuildCacheBank (src/src/init.cpp), with *)
(* the wiring of the coherence controllers (coherence_ctrls.cpp), the      *)
(* network (network.cpp) and the partition mappers.                        *)
(*                                                                         *)
(* It runs once, on one thread; what can go wrong is the configuration.    *)
(* Every later access trusts what it leaves: a directory finds its sharers *)
(* by the child ids assigned here, an event its recorder by the core's     *)
(* index, a partition its lines by the mapper's answer.                    *)
(*                                                                         *)
(* A panic and a failed assertion both end the simulator with a message;   *)
(* the model calls both "refused".  "null" and "bounds" are a use of a     *)
(* group that was never built and of the first cache of an empty group.    *)
(***************************************************************************)
EXTENDS Integers, Sequences, SequencesExt, FiniteSets, FiniteSetsExt

CONSTANTS
    Confs,                  \* configurations
    MAX_CACHE_CHILDREN

VARIABLES
    conf,           \* the configuration
    stage,          \* where InitSystem is
    at,             \* the group of caches or cores that it is at, and the core
    sys,            \* what it has built
    fail

vars == <<conf, stage, at, sys, fail>>

(***************************************************************************)
(* A configuration has the names of its cache groups in the order of the   *)
(* file and the parameters of each (grp): lists of interleaved children,   *)
(* caches, banks, size, ways, cands, array, hash, repl, mapper, type and   *)
(* hack (nonInclusiveHack); its core groups: name, n, type, icache, dcache;*)
(* its memory controllers, and whether addresses are split; its domains,   *)
(* line size, processes and which of them are grouped with the previous;   *)
(* whether it is trace-driven; and the lines of its network file, with     *)
(* whether the last of them ends in a newline.                             *)
(***************************************************************************)
Elems(s) == {s[i] : i \in DOMAIN s}
Names == Elems(conf.names)
childMap(g) == conf.grp[g].children
AllChildren(g) == FlattenSeq(childMap(g))
isTerminal(g) == Len(childMap(g)) = 0

\* The lists that name c, once for each mention.
Mentions(c) == UNION {{<<g, i>> : i \in {i \in DOMAIN AllChildren(g) : AllChildren(g)[i] = c}} : g \in Names}

\* The banks of each cache of a group, as BuildCacheGroup lays them out.
CacheGroup(g) == [i \in 1 .. conf.grp[g].caches |-> [j \in 1 .. conf.grp[g].banks |-> <<g, i - 1, j - 1>>]]
BanksOf(g) == Elems(FlattenSeq(CacheGroup(g)))

numCores == IF conf.traceDriven THEN 0 ELSE FoldSeq(LAMBDA k, n : k.n + n, 0, conf.cores)

\* A process starts a group unless it is grouped with the one before it.
groupIdx(p) == p - Cardinality(conf.grouped \cap 1 .. p)
numProcGroups == conf.procs - Cardinality(conf.grouped)

Init ==
    /\ conf \in Confs
    /\ stage = "parse" /\ at = <<1, 0>> /\ fail = "none"
    /\ sys = [fringe |-> <<>>, delay |-> <<>>, cMap |-> <<>>, bank |-> <<>>, mems |-> <<>>, parents |-> <<>>,
              selfId |-> <<>>, kids |-> <<>>, assigned |-> <<>>, srcId |-> <<>>, flags |-> <<>>, recorders |-> {},
              coreIdx |-> 0]

Refuse == fail' = "refused" /\ UNCHANGED <<conf, stage, at, sys>>
Crash(how) == fail' = how /\ UNCHANGED <<conf, stage, at, sys>>
Go(s, to, where) == sys' = s /\ stage' = to /\ at' = where /\ UNCHANGED <<conf, fail>>

----------------------------------------------------------------------------
(* The network. *)

\* Lines that the constructor keeps: reading the delay of a last line that no
\* newline ends reaches the end of the file, and the loop stops before it.
KeptLines == IF conf.newline \/ conf.network = <<>> THEN conf.network ELSE Front(conf.network)

NetworkRefused ==
    \E i, j \in DOMAIN KeptLines :
        i < j /\ {KeptLines[i].src, KeptLines[i].dst} = {KeptLines[j].src, KeptLines[j].dst}

delayMap ==
    [p \in UNION {{<<l.src, l.dst>>, <<l.dst, l.src>>} : l \in Elems(KeptLines)} |->
        (CHOOSE l \in Elems(KeptLines) : {l.src, l.dst} = {p[1], p[2]}).delay]

getRTT_Directed(src, dst) ==
    IF \E l \in Elems(KeptLines) : l.src = src /\ l.dst = dst THEN 2 * sys.delay[<<src, dst>>] ELSE 0

\* The round trip between two banks, 0 when the file does not name them.
getRTT(src, dst) == IF <<src, dst>> \in DOMAIN sys.delay THEN 2 * sys.delay[<<src, dst>>] ELSE 0

----------------------------------------------------------------------------
(* Reading the groups. *)

ManyParents == \E c \in UNION {Elems(AllChildren(g)) : g \in Names} : Cardinality(Mentions(c)) > 1
Parentless == {g \in Names : Mentions(g) = {}}

\* SimInit counts the cores; InitSystem reads the network, every group with
\* its children, checks that these are groups and finds the only root.
Parse ==
    /\ stage = "parse"
    /\ IF \/ ~conf.traceDriven /\ numCores = 0
          \/ NetworkRefused
          \/ "mem" \in Names
          \/ ManyParents
          \/ \E g \in Names : ~(Elems(AllChildren(g)) \subseteq Names)
          \/ Cardinality(Parentless) # 1
       THEN Refuse
       ELSE Go([sys EXCEPT !.delay = delayMap, !.fringe = <<CHOOSE g \in Parentless : TRUE>>], "build", at)

----------------------------------------------------------------------------
(* Building a group. *)

bankSize(g) == conf.grp[g].size \div conf.grp[g].banks
numLines(g) == bankSize(g) \div conf.lineSize
ways(g) == IF conf.grp[g].array \in {"IdealLRU", "IdealLRUPart"} THEN numLines(g) ELSE conf.grp[g].ways
numSets(g) == numLines(g) \div ways(g)

\* Set before the ways of an ideal array become its lines.
candidates(g) == IF conf.grp[g].array = "Z" THEN conf.grp[g].cands ELSE conf.grp[g].ways
Partitioned == {"WayPart", "Vantage", "IdealLRUPart"}

\* Without sets the count of leading zeros is undefined, but no shift of 1
\* gives 0: the check refuses.
SetsRefused(g) == numSets(g) \notin {2 ^ k : k \in 0 .. 30}

\* Arrays, hash functions and policies that do not go together.
ArrayRefused(g) ==
    LET c == conf.grp[g] IN
    \/ c.array \notin {"SetAssoc", "Z", "IdealLRU", "IdealLRUPart"}
    \/ c.array = "Z" /\ (c.ways <= 1 \/ c.hash = "None")
    \/ SetsRefused(g)
    \/ c.array \in {"SetAssoc", "Z"} /\ c.hash \notin {"None", "H3", "SHA1"}
    \/ c.repl \notin {"LRU", "LRUNoSh", "LFU", "LRUProfViol", "TreeLRU", "NRU", "Rand"} \cup Partitioned
    \/ c.repl = "WayPart" /\ c.array # "SetAssoc"
    \/ c.repl \in Partitioned
       /\ c.mapper \notin {"Core", "InstrData", "InstrDataCore", "Process", "InstrDataProcess", "ProcessGroup"}
    \/ c.array = "Z" /\ (candidates(g) < ways(g) \/ numLines(g) % ways(g) # 0)
    \/ c.array = "IdealLRU" /\ c.repl # "LRU"
    \/ c.array = "IdealLRUPart" /\ c.repl # "IdealLRUPart"

\* The cache around the array: a terminal cache is always a FilterCache.
CacheRefused(g) ==
    LET c == conf.grp[g] IN
    \/ c.hack /\ (c.type # "Simple" \/ isTerminal(g))
    \/ ~isTerminal(g) /\ c.type \notin {"Simple", "Timing", "Tracing"}
    \/ isTerminal(g) /\ (c.type # "Simple" \/ c.array # "SetAssoc" \/ c.hash # "None" \/ c.repl # "LRU")

\* A TraceDriven bank is a proxy: nothing else of its parameters is read.
BankRefused(g) ==
    IF conf.grp[g].type = "TraceDriven"
    THEN ~conf.traceDriven \/ ~isTerminal(g)
    ELSE bankSize(g) % conf.lineSize # 0 \/ ArrayRefused(g) \/ CacheRefused(g)

GroupRefused(g) ==
    LET c == conf.grp[g] IN
    c.banks = 0 \/ c.size = 0 \/ c.size % c.banks # 0 \/ (c.caches > 0 /\ BankRefused(g))

domain_PerCache(g, i, j) == ((i + j) * conf.domains) \div conf.grp[g].caches

domain(g, i, j) == ((i * conf.grp[g].banks + j) * conf.domains) \div (conf.grp[g].caches * conf.grp[g].banks)

\* What a bank is built with.  LRU looks at sharers only above terminals.
BuildCacheBank(b) ==
    LET g == b[1]  c == conf.grp[g] IN
    IF c.type = "TraceDriven"
    THEN [kind |-> "Proxy", domain |-> domain(g, b[2], b[3]), lines |-> 0, sets |-> 0, ways |-> 0, repl |-> "none",
          parts |-> 0]
    ELSE [kind |-> IF isTerminal(g) THEN "Filter" ELSE c.type, domain |-> domain(g, b[2], b[3]),
          lines |-> numLines(g), sets |-> numSets(g), ways |-> ways(g),
          repl |-> IF c.repl = "LRU" /\ ~isTerminal(g) THEN "LRUSharers" ELSE c.repl,
          parts |->
            IF c.repl \notin Partitioned THEN 0
            ELSE CASE c.mapper = "Core" -> numCores
                   [] c.mapper = "InstrData" -> 2
                   [] c.mapper = "InstrDataCore" -> 2 * numCores
                   [] c.mapper = "Process" -> conf.procs
                   [] c.mapper = "InstrDataProcess" -> 2 * conf.procs
                   [] c.mapper = "ProcessGroup" -> numProcGroups]

BuildCacheGroup ==
    /\ stage = "build" /\ sys.fringe # <<>>
    /\ LET g == Head(sys.fringe) IN
       IF g \in DOMAIN sys.cMap \/ GroupRefused(g) THEN Refuse
       ELSE Go([sys EXCEPT !.fringe = Tail(@) \o AllChildren(g), !.cMap = (g :> CacheGroup(g)) @@ @,
                           !.bank = [b \in BanksOf(g) |-> BuildCacheBank(b)] @@ @],
               "build", at)

----------------------------------------------------------------------------
(* Memory, and the wiring from the top down. *)

Controllers == [m \in 1 .. conf.controllers |-> <<"mem", m - 1, 0>>]
Splitter == <<"splitter", 0, 0>>
MemTypes == {"Simple", "MD1", "WeaveMD1", "WeaveSimple", "DDR", "DRAMSim", "Detailed"}
MemDomain(m) == (m * conf.domains) \div conf.controllers

\* A proxy supports a single parent.
setParentsRefused(banks, parents) ==
    Len(parents) # 1 /\ \E b \in Elems(banks) : sys.bank[b].kind = "Proxy"

\* setParents numbers the banks in the order of the list.
setParents(s, banks, parents) ==
    [s EXCEPT !.parents = [b \in Elems(banks) |-> parents] @@ @,
              !.selfId = [b \in Elems(banks) |-> (CHOOSE i \in DOMAIN banks : banks[i] = b) - 1] @@ @]

\* The only last-level cache, once nothing is left to build, and its parents.
BuildMemory ==
    /\ stage = "build" /\ sys.fringe = <<>>
    /\ LET llc == CHOOSE g \in Parentless : TRUE
           mems == IF conf.controllers > 1 /\ conf.split THEN <<Splitter>> ELSE Controllers
       IN  IF \/ conf.grp[llc].caches # 1 \/ conf.controllers = 0 \/ conf.memType \notin MemTypes
              \/ setParentsRefused(CacheGroup(llc)[1], mems)
           THEN Refuse
           ELSE Go([setParents(sys, CacheGroup(llc)[1], mems) EXCEPT !.mems = mems], "connect", at)

Interleaved_Concatenated(list) ==
    [k \in 1 .. Len(list) * Len(sys.cMap[list[1]]) |->
        LET n == Len(sys.cMap[list[1]]) IN sys.cMap[list[((k - 1) \div n) + 1]][((k - 1) % n) + 1]]

\* The caches of a list, the i-th of each group before the i+1-st of any.
Interleaved(list) ==
    [k \in 1 .. Len(list) * Len(sys.cMap[list[1]]) |->
        sys.cMap[list[((k - 1) % Len(list)) + 1]][((k - 1) \div Len(list)) + 1]]

childCaches(g) == FlattenSeq([i \in DOMAIN childMap(g) |-> Interleaved(childMap(g)[i])])
SizesDiffer(g) ==
    \E list \in Elems(childMap(g)) : \E c \in Elems(list) : Len(sys.cMap[c]) # Len(sys.cMap[list[1]])

\* The banks below the p-th cache of g, in order.
childrenVec(g, p) ==
    LET per == Len(childCaches(g)) \div Len(sys.cMap[g])
    IN  FlattenSeq(SubSeq(childCaches(g), (p - 1) * per + 1, p * per))

ConnectCache(s, g, p) ==
    [setParents(s, childrenVec(g, p), sys.cMap[g][p]) EXCEPT
        !.kids = [b \in Elems(sys.cMap[g][p]) |-> childrenVec(g, p)] @@ @]

\* Each group in the order of the file.
Connect ==
    /\ stage = "connect" /\ at[1] <= Len(conf.names)
    /\ LET g == conf.names[at[1]] IN
       IF isTerminal(g) THEN Go(sys, "connect", <<at[1] + 1, 0>>)
       ELSE IF g \notin DOMAIN sys.cMap THEN Crash("null")
       ELSE IF Len(sys.cMap[g]) = 0 \/ SizesDiffer(g) THEN Refuse
       ELSE IF Len(childCaches(g)) = 0 \/ Len(childCaches(g)) % Len(sys.cMap[g]) # 0 THEN Refuse
       ELSE IF \E p \in DOMAIN sys.cMap[g] :
                 \/ Len(childrenVec(g, p)) > MAX_CACHE_CHILDREN
                 \/ setParentsRefused(childrenVec(g, p), sys.cMap[g][p])
       THEN Refuse
       ELSE Go(FoldFunctionOnSet(LAMBDA p, s : ConnectCache(s, g, p), sys, [p \in DOMAIN sys.cMap[g] |-> p],
                                 DOMAIN sys.cMap[g]),
               "connect", <<at[1] + 1, 0>>)

Terminals == SelectSeq(conf.names, isTerminal)

\* The first cache of every terminal group has a single bank.
CheckTerminals ==
    /\ stage = "connect" /\ at[1] > Len(conf.names)
    /\ LET wrong(g) == g \notin DOMAIN sys.cMap \/ Len(sys.cMap[g]) = 0 \/ Len(sys.cMap[g][1]) # 1
           first == SelectSeq(Terminals, wrong)
       IN  IF first = <<>>
           THEN Go([sys EXCEPT !.assigned = [g \in Elems(Terminals) |-> 0]],
                   IF conf.traceDriven THEN "proxies" ELSE "cores", <<1, 0>>)
           ELSE IF Head(first) \notin DOMAIN sys.cMap THEN Crash("null")
           ELSE IF Len(sys.cMap[Head(first)]) = 0 THEN Crash("bounds")
           ELSE Refuse

----------------------------------------------------------------------------
(* Cores and proxies. *)

\* The next cache of a terminal group, of which u have been given out.
NextCache(g, u) == sys.cMap[g][u + 1][1]

IFETCH == 2
NOEXCL == 4

Attach_SameCache(k, s) ==
    LET ic == NextCache(k.icache, s.assigned[k.icache])
        dc == NextCache(k.dcache, s.assigned[k.dcache])
    IN  [s EXCEPT !.assigned = [[@ EXCEPT ![k.icache] = @ + 1] EXCEPT ![k.dcache] = @ + 1],
                  !.srcId = (dc :> s.coreIdx) @@ (ic :> s.coreIdx) @@ @,
                  !.flags = (ic :> {IFETCH, NOEXCL}) @@ @,
                  !.recorders = IF k.type \in {"Timing", "OOO"} THEN @ \cup {s.coreIdx} ELSE @,
                  !.coreIdx = @ + 1]

\* A core takes the next cache of each of its groups and tells them its index.
Attach(k, s) ==
    LET ic == NextCache(k.icache, s.assigned[k.icache])
        used == [s.assigned EXCEPT ![k.icache] = @ + 1]
        dc == NextCache(k.dcache, used[k.dcache])
    IN  [s EXCEPT !.assigned = [used EXCEPT ![k.dcache] = @ + 1],
                  !.srcId = (dc :> s.coreIdx) @@ (ic :> s.coreIdx) @@ @,
                  !.flags = (ic :> {IFETCH, NOEXCL}) @@ @,
                  !.recorders = IF k.type \in {"Timing", "OOO"} THEN @ \cup {s.coreIdx} ELSE @,
                  !.coreIdx = @ + 1]

FullyUsed(k) ==
    LET a == sys.assigned IN
    \/ a[k.icache] >= Len(sys.cMap[k.icache])
    \/ a[k.dcache] + (IF k.dcache = k.icache THEN 1 ELSE 0) >= Len(sys.cMap[k.dcache])

BuildCore ==
    /\ stage = "cores" /\ at[1] <= Len(conf.cores)
    /\ LET k == conf.cores[at[1]] IN
       IF \/ Mentions(k.name) # {}
          \/ k.type \notin {"Simple", "Timing", "OOO", "Null"}
          \/ k.type # "Null" /\ ~({k.icache, k.dcache} \subseteq Elems(Terminals))
       THEN Refuse
       ELSE IF at[2] = k.n THEN Go(sys, "cores", <<at[1] + 1, 0>>)
       ELSE IF k.type = "Null" THEN Go([sys EXCEPT !.coreIdx = @ + 1], "cores", <<at[1], at[2] + 1>>)
       ELSE IF FullyUsed(k) THEN Refuse
       ELSE Go(Attach(k, sys), "cores", <<at[1], at[2] + 1>>)

Unconnected_Unchecked == FALSE

Unconnected == \E g \in Elems(Terminals) : sys.assigned[g] # Len(sys.cMap[g])

\* Every terminal cache has a core.
CheckCores ==
    /\ stage = "cores" /\ at[1] > Len(conf.cores)
    /\ IF Unconnected THEN Refuse ELSE Go(sys, "done", at)

\* Trace-driven: the terminal caches are proxies of the trace driver.
BuildProxies ==
    /\ stage = "proxies"
    /\ IF \E g \in Elems(Terminals) : \E b \in BanksOf(g) : sys.bank[b].kind # "Proxy"
       THEN Refuse ELSE Go(sys, "done", at)

Next ==
    /\ fail = "none"
    /\ Parse \/ BuildCacheGroup \/ BuildMemory \/ Connect \/ CheckTerminals \/ BuildCore \/ CheckCores \/ BuildProxies

Spec == Init /\ [][Next]_vars

----------------------------------------------------------------------------
(* Partition mappers, as a request of core src in process p asks them. *)

InstrOffset_AfterNext(flags, n) == IF IFETCH \in flags THEN n + 1 ELSE 0

\* Partitions of instructions come after those of data.
InstrOffset(flags, n) == IF IFETCH \in flags THEN n ELSE 0

getPartition(mapper, src, flags, p) ==
    CASE mapper = "Core" -> src
      [] mapper = "InstrData" -> IF IFETCH \in flags THEN IFETCH ELSE 0
      [] mapper = "InstrDataCore" -> src + InstrOffset(flags, numCores)
      [] mapper = "Process" -> p
      [] mapper = "InstrDataProcess" -> p + InstrOffset(flags, conf.procs)
      [] mapper = "ProcessGroup" -> groupIdx(p)

----------------------------------------------------------------------------
(* Properties *)

Built == DOMAIN sys.bank
Parents(b) == Elems(sys.parents[b])

\* A directory entry names a sharer by its child id, an access a parent by
\* its position: in the system that InitSystem leaves, the banks of a cache
\* list the same children, in the order of their ids, the ids of their
\* parents' children agree with these lists, and both ends of a link see the
\* same delay.
Wired ==
    stage = "done" =>
        /\ \A b \in Built : ~isTerminal(b[1]) =>
              \A i \in DOMAIN sys.kids[b] :
                 sys.selfId[sys.kids[b][i]] = i - 1 /\ b \in Parents(sys.kids[b][i])
        /\ \A b \in Built : \A p \in Parents(b) :
              p \in Built =>
                 /\ sys.kids[p][sys.selfId[b] + 1] = b
                 /\ Parents(b) = {q \in Built : q[1] = p[1] /\ q[2] = p[2]}
                 /\ getRTT(b, p) = getRTT(p, b)
                 /\ \A i \in 1 .. Len(conf.network) - (IF conf.newline THEN 0 ELSE 1) :
                       {conf.network[i].src, conf.network[i].dst} = {b, p} =>
                           getRTT(b, p) = 2 * conf.network[i].delay
        /\ \A b \in Built : sys.parents[b] = sys.mems \/ Parents(b) \subseteq Built

\* Interleaved groups share parents: the i-th caches of the groups of a list
\* are below the same cache whenever the list is all of its children and
\* gives each parent as many of each.
InterleavedTogether ==
    stage = "done" =>
        \A g \in Names : Len(childMap(g)) = 1 /\ conf.grp[g].caches > 0 =>
            LET list == childMap(g)[1]  n == conf.grp[list[1]].caches IN
            n % conf.grp[g].caches = 0 =>
                \A c, d \in Elems(list) : \A i \in 0 .. n - 1 : sys.parents[<<c, i, 0>>] = sys.parents[<<d, i, 0>>]

\* Every terminal cache belongs to one core, which is who its requests say
\* they come from; only what fetches instructions says so; events of a core
\* that simulates contention find its recorder.
CoresOwnCaches ==
    stage = "done" /\ ~conf.traceDriven =>
        /\ DOMAIN sys.srcId = UNION {BanksOf(g) : g \in Elems(Terminals)}
        /\ sys.coreIdx = numCores
        /\ \A x \in 0 .. numCores - 1 :
              LET mine == {b \in DOMAIN sys.srcId : sys.srcId[b] = x}
              IN  /\ Cardinality(mine) \in {0, 2}
                  /\ Cardinality(mine \cap DOMAIN sys.flags) = Cardinality(mine) \div 2
                  /\ x \in sys.recorders => mine # {}

\* Domains are in range and share the banks of a group as evenly as its size
\* allows; every set of an array is inside the bank.
BanksPlaced ==
    stage = "done" =>
        /\ \A b \in Built : sys.bank[b].domain \in 0 .. conf.domains - 1
        /\ \A m \in 0 .. conf.controllers - 1 : MemDomain(m) \in 0 .. conf.domains - 1
        /\ \A g \in Names : \A x, y \in 0 .. conf.domains - 1 :
              LET count(z) == Cardinality({b \in BanksOf(g) : sys.bank[b].domain = z}) IN count(x) - count(y) \in -1 .. 1
        /\ \A b \in Built : sys.bank[b].sets * sys.bank[b].ways <= sys.bank[b].lines

\* A mapper answers with one of the partitions it announced, for every core,
\* process and terminal cache.  InstrData does not for instruction fetches:
\* it returns the flag, whose value is the number of its partitions.
PartitionsInRange ==
    stage = "done" =>
        \A b \in Built : sys.bank[b].parts > 0 =>
            \A t \in DOMAIN sys.srcId : \A p \in 0 .. conf.procs - 1 :
                LET m == conf.grp[b[1]].mapper
                    flags == IF t \in DOMAIN sys.flags THEN sys.flags[t] ELSE {}
                    part == getPartition(m, sys.srcId[t], flags, p)
                IN  part < sys.bank[b].parts \/ (m = "InstrData" /\ IFETCH \in flags /\ part = sys.bank[b].parts)

\* What a configuration must be: one tree of groups under a single cache,
\* children in equal shares, as many terminal caches as cores ask for.
RECURSIVE Below(_, _)
Below(g, n) == IF n = 0 THEN {g} ELSE {g} \cup UNION {Below(c, n - 1) : c \in Elems(AllChildren(g)) \cap Names}

Caches(g) == conf.grp[g].caches
Share(g) == FoldSeq(LAMBDA c, n : Caches(c) + n, 0, AllChildren(g))

IsTree ==
    /\ \E r \in Names : Caches(r) = 1 /\ Mentions(r) = {} /\ Below(r, Cardinality(Names)) = Names
    /\ \A g \in Names : Elems(AllChildren(g)) \subseteq Names /\ Cardinality(Mentions(g)) <= 1

EqualShares ==
    \A g \in Names : ~isTerminal(g) =>
        /\ Caches(g) > 0 /\ Share(g) > 0 /\ Share(g) % Caches(g) = 0
        /\ \A list \in Elems(childMap(g)) : \A c, d \in Elems(list) : Caches(c) = Caches(d)

Asked(g) ==
    LET of(i) == LET k == conf.cores[i]
                 IN  IF k.type = "Null" THEN 0
                     ELSE k.n * ((IF k.icache = g THEN 1 ELSE 0) + (IF k.dcache = g THEN 1 ELSE 0))
    IN  MapThenSumSet(of, DOMAIN conf.cores)

Acceptable ==
    /\ IsTree /\ EqualShares
    /\ \A g \in Names : isTerminal(g) =>
          Caches(g) > 0 /\ conf.grp[g].banks = 1 /\ (~conf.traceDriven => Asked(g) = Caches(g))

\* Refused whatever the tree: parameters that do not go together.
Unsupported ==
    \/ NetworkRefused \/ "mem" \in Names \/ conf.controllers = 0 \/ conf.memType \notin MemTypes
    \/ ~conf.traceDriven /\ numCores = 0
    \/ \E g \in Names : GroupRefused(g)
    \/ \E i \in DOMAIN conf.cores :
          LET k == conf.cores[i] IN
          \/ Mentions(k.name) # {}
          \/ k.type \notin {"Simple", "Timing", "OOO", "Null"}
          \/ k.type # "Null" /\ ~({k.icache, k.dcache} \subseteq Elems(Terminals))
    \/ \E g \in Names : ~isTerminal(g) /\ Caches(g) > 0 /\
          FoldSeq(LAMBDA c, n : Caches(c) * conf.grp[c].banks + n, 0, AllChildren(g)) > MAX_CACHE_CHILDREN * Caches(g)
    \/ conf.traceDriven /\ \E g \in Elems(Terminals) :
          \/ conf.grp[g].type # "TraceDriven"
          \/ \E m \in Mentions(g) : conf.grp[m[1]].banks # 1
          \/ Mentions(g) = {} /\ conf.controllers > 1 /\ ~conf.split

\* InitSystem finishes for such trees and only for them, and uses what it has not built
\* only for two kinds of others, which its checks miss: groups in a loop that
\* the last-level cache does not reach, and a terminal group without caches.
\* (The check for loops in the tree itself cannot fail.)
AcceptsTrees ==
    /\ stage = "done" => Acceptable
    /\ fail # "none" => ~Acceptable \/ Unsupported
    /\ fail = "null" => \E g \in Names : Mentions(g) # {} /\ \A r \in Parentless : g \notin Below(r, Cardinality(Names))
    /\ fail = "bounds" => \E g \in Names : isTerminal(g) /\ Caches(g) = 0
=============================================================================
