------------------------------- MODULE Decoder -------------------------------
(***************************************************************************)
(* The instruction decoder (decoder): a basic block becomes a sequence of  *)
(* micro-operations with the registers they read and write, and the cycles *)
(* in which the predecoder and the four decoders take its instructions.    *)
(*                                                                         *)
(* An instruction is a form: its category, an opcode that stands for those *)
(* treated alike, how many memory operands it reads and writes, and its    *)
(* register operands, flags last.  Latencies, ports and the count of       *)
(* approximate instructions are left out.  "" is register 0, no register.  *)
(***************************************************************************)
EXTENDS Integers, Sequences, FiniteSets, SequencesExt, FiniteSetsExt

CONSTANTS
    Blocks      \* what to decode, a sequence: forms, sizes of instructions, how many, offset of the first

VARIABLES
    conf,       \* which of Blocks
    stage,
    bbl,        \* instructions: form, bytes, address, number of uops
    uops,       \* uops with the instruction that each comes from
    pre,        \* the predecoder: predecCycle, pcyc, psz, pcnt, pblk
    dec         \* the decoders: cycle of each instruction, dcyc, dsimple, dcomplex

vars == <<conf, stage, bbl, uops, pre, dec>>

BlockBytes == 16
MaxPredecs == 6
Width == 4
Small == 8

LoadTemp == <<"L0", "L1">>
StoreTemp == <<"S0", "S1">>
AddrTemp == <<"A0", "A1">>
ExecTemp == <<"X0", "X1", "X2">>
Temps == ToSet(LoadTemp \o StoreTemp \o AddrTemp \o ExecTemp)

Init ==
    /\ conf \in 1 .. Len(Blocks)
    /\ stage = "decode"
    /\ bbl = <<>>
    /\ uops = <<>>
    /\ pre = [cycle |-> <<>>, cyc |-> 0, sz |-> 0, cnt |-> 0, blk |-> 0]
    /\ dec = [cycle |-> <<>>, cyc |-> 0, simple |-> 0, complex |-> 0]

-----------------------------------------------------------------------------
(* Micro-operations *)

Uop(type, rs0, rs1, rd0, rd1) == <<[type |-> type, rs |-> {rs0, rs1} \ {""}, rd |-> {rd0, rd1} \ {""}]>>
Exec(rs0, rs1, rd0, rd1) == Uop("GENERAL", rs0, rs1, rd0, rd1)
emitFence == Uop("FENCE", "", "", "", "")

\* The registers of an address are not operands, and no property tells them apart.
emitLoad(k, dest) == Uop("LOAD", "base", "index", IF dest = "" THEN LoadTemp[k] ELSE dest, "")

emitStore(k, src) ==
    Uop("STORE_ADDR", "base", "index", AddrTemp[k], "")
    \o Uop("STORE", AddrTemp[k], IF src = "" THEN StoreTemp[k] ELSE src, "", "")

emitLoads(i) == FlattenSeq([k \in 1 .. i.loads |-> emitLoad(k, "")])

emitStores(i) == FlattenSeq([k \in 1 .. i.stores |-> emitStore(k, "")])

\* populateRegArrays: memory operands stand first, and two empty registers last.
Srcs(i) == SubSeq(LoadTemp, 1, i.loads) \o i.ins \o <<"", "">>
Dsts(i) == SubSeq(StoreTemp, 1, i.stores) \o i.outs \o <<"", "">>
NumSrcs(i) == i.loads + Len(i.ins)
NumDsts(i) == i.stores + Len(i.outs)

\* Faulty form: an instruction with a memory operand as source and destination
\* (add m, r) is taken for a load.
emitBasicOp_NoStores(i) == emitLoads(i) \o Exec(Srcs(i)[1], Srcs(i)[2], Dsts(i)[1], Dsts(i)[2])

emitBasicOp(i) == emitLoads(i) \o Exec(Srcs(i)[1], Srcs(i)[2], Dsts(i)[1], Dsts(i)[2]) \o emitStores(i)

emitBasicMove(i) ==
    LET inReg == IF Len(i.ins) = 1 THEN i.ins[1] ELSE "" IN
    CASE i.loads = 0 /\ i.stores = 0 -> Exec(inReg, "", i.outs[1], "")
      [] i.loads > 0 /\ i.stores = 0 -> emitLoad(1, i.outs[1])
      [] i.loads = 0 /\ i.stores > 0 -> emitStore(1, inReg)
      [] OTHER -> emitLoad(1, "") \o emitStore(1, LoadTemp[1])

\* An exchange with memory is locked, and ends with a fence unless the prefix that
\* adds one is there.
emitXchg(i) ==
    IF i.loads > 0
    THEN emitLoad(1, "") \o Exec(i.ins[1], "", ExecTemp[1], "") \o Exec(LoadTemp[1], "", i.outs[1], "")
         \o emitStore(1, ExecTemp[1]) \o (IF i.lock THEN <<>> ELSE emitFence)
    ELSE Exec(i.ins[1], "", ExecTemp[1], "") \o Exec(i.ins[2], "", i.outs[1], "") \o Exec(ExecTemp[1], "", i.outs[2], "")

\* With a memory operand the comparison takes a source of the load, and the load
\* waits for the comparison.
emitConditionalMove(i) ==
    IF i.loads > 0
    THEN Exec(i.ins[1], "index", ExecTemp[1], "") \o Uop("LOAD", "base", ExecTemp[1], LoadTemp[1], "")
    ELSE Exec(i.ins[2], i.ins[1], ExecTemp[1], "") \o Exec(i.outs[1], ExecTemp[1], i.outs[1], "")

emitCompareAndExchange(i) ==
    LET s == Srcs(i)  d == Dsts(i)  flags == d[3]  rax == d[2] IN
    emitLoads(i)
    \o Exec(s[1], rax, ExecTemp[1], flags)
    \o (IF i.loads = 0
        THEN Exec(s[2], flags, ExecTemp[2], "") \o Exec(s[3], flags, ExecTemp[3], "")
             \o Exec(ExecTemp[1], ExecTemp[2], d[1], "") \o Exec(ExecTemp[2], ExecTemp[3], rax, "")
        ELSE Exec(s[2], flags, d[1], "") \o Exec(s[3], ExecTemp[1], rax, ""))
    \o emitStores(i)

\* Every chain has two uops.
emitChainedOp(i) ==
    emitLoads(i) \o Exec(Srcs(i)[1], Srcs(i)[2], ExecTemp[1], "") \o Exec(ExecTemp[1], Srcs(i)[2], Dsts(i)[1], Dsts(i)[2])
    \o emitStores(i)

emitConvert2Op(i) ==
    IF i.stores > 0 \/ i.loads > 1 \/ Len(i.outs) # 1 \/ NumSrcs(i) # 1 THEN <<>>
    ELSE emitLoads(i) \o Exec(Srcs(i)[1], "", ExecTemp[1], "") \o Exec(ExecTemp[1], "", i.outs[1], "")

emitMul(i) ==
    IF NumDsts(i) # 3 THEN emitBasicOp(i)
    ELSE emitLoads(i) \o Exec(Srcs(i)[1], Srcs(i)[2], Dsts(i)[1], ExecTemp[1]) \o Exec(Srcs(i)[1], Srcs(i)[2], Dsts(i)[2], ExecTemp[2])
         \o Exec(ExecTemp[1], ExecTemp[2], Dsts(i)[3], "") \o emitStores(i)

emitDiv(i) ==
    CASE NumSrcs(i) = 3 /\ NumDsts(i) = 3 ->
            emitLoads(i) \o Exec(Srcs(i)[1], Srcs(i)[2], ExecTemp[1], "") \o Exec(Srcs(i)[1], Srcs(i)[3], ExecTemp[2], "")
            \o Exec(ExecTemp[1], ExecTemp[2], Dsts(i)[1], Dsts(i)[2]) \o Exec(ExecTemp[1], ExecTemp[2], Dsts(i)[3], "")
            \o emitStores(i)
      [] NumSrcs(i) <= 2 /\ NumDsts(i) <= 2 -> emitBasicOp(i)
      [] OTHER -> <<>>

-----------------------------------------------------------------------------
(* The switch of decodeInstr, category by category.  What it leaves empty   *)
(* is approximated below.                                                   *)

Moves(i) ==
    CASE i.op = "XCHG" -> emitXchg(i)
      [] i.op = "MOVH" -> emitBasicOp(i)       \* MOVHPS, MOVHPD, MOVLPS, MOVLPD
      [] OTHER -> emitBasicMove(i)

Arithmetic(i) ==
    CASE i.op \in {"ADC", "SHLD"} -> emitChainedOp(i)
      [] i.op = "MUL" -> emitMul(i)
      [] i.op = "DIV" -> emitDiv(i)
      [] OTHER -> emitBasicOp(i)

Flags(i) ==
    CASE i.op = "LAHF" -> emitBasicOp(i)
      [] i.op = "CLD" -> Exec("", "", ExecTemp[1], "") \o Exec(ExecTemp[1], "", "flags", "")
      [] OTHER -> <<>>

Semaphore(i) ==
    CASE i.op = "CMPXCHG" -> emitCompareAndExchange(i)
      [] i.op = "XADD" -> emitChainedOp(i)
      [] OTHER -> <<>>

\* SSE arithmetic and comparisons: one uop, whatever the opcode.
SSE(i) == emitBasicOp(i)

Convert(i) ==
    CASE i.op = "CVTPD2PS" -> emitConvert2Op(i)
      [] i.op = "CVTSS2SI" -> emitBasicOp(i)
      [] OTHER -> <<>>

\* Branches, calls and returns.
Control(i) == emitBasicOp(i)

Stack(i) ==
    CASE i.op = "PUSH" -> emitBasicMove(i)     \* and POP
      [] i.op = "POPF" -> emitBasicOp(i)
      [] i.op = "PUSHF" -> emitChainedOp(i)
      [] OTHER -> <<>>

Step(r) == Exec(r, "", r, "")

String(i) ==
    CASE i.op = "STOS" -> emitStore(1, "rax") \o Step("rdi")
      [] i.op = "LODS" -> emitLoad(1, "rax") \o Step("rsi")
      [] i.op = "MOVS" -> emitLoad(1, "rax") \o emitStore(1, "rax") \o Step("rsi") \o Step("rdi")
      [] i.op = "CMPS" -> emitLoad(1, LoadTemp[1]) \o emitLoad(1, LoadTemp[2])
                          \o Exec(LoadTemp[1], LoadTemp[2], "flags", "") \o Step("rsi") \o Step("rdi")
      [] OTHER -> <<>>

Misc(i) ==
    CASE i.op = "LEA" -> emitBasicOp(i)
      [] i.op = "PAUSE" -> FlattenSeq([k \in 1 .. 5 |-> Exec("", "", "", "")])
      [] OTHER -> <<>>

Category(i) ==
    CASE i.cat = "NOP" -> Exec("", "", "", "")
      [] i.cat = "DATAXFER" -> Moves(i)
      [] i.cat = "CMOV" -> emitConditionalMove(i)
      [] i.cat = "BINARY" -> Arithmetic(i)
      [] i.cat = "FLAGOP" -> Flags(i)
      [] i.cat = "SEMAPHORE" -> Semaphore(i)
      [] i.cat = "SSE" -> SSE(i)
      [] i.cat = "CONVERT" -> Convert(i)
      [] i.cat = "BRANCH" -> Control(i)
      [] i.cat = "STACK" -> Stack(i)
      [] i.cat = "PREFETCH" -> emitLoads(i)
      [] i.cat = "STRINGOP" -> String(i)
      [] i.cat = "MISC" -> Misc(i)
      [] OTHER -> <<>>

\* Faulty form: an instruction the decoder does not know is dropped.
Known_Only(i) == Category(i)

\* "Try to produce something approximate".
Known(i) == IF Category(i) = <<>> THEN emitBasicOp(i) ELSE Category(i)

decodeInstr(i) == IF i.atomic THEN emitFence \o Known(i) \o emitFence ELSE Known(i)

-----------------------------------------------------------------------------
(* Basic blocks *)

Compares(i) == i.op \in {"CMP", "TEST"} /\ ~i.imm

\* JCC stands for the branches on the zero and carry flags and on inequalities, JS
\* for those on overflow, parity and sign, which CMP does not fuse with; any other
\* conditional branch (LOOP) is never fused.
CanFuse(i, next) ==
    /\ Compares(i)
    /\ next.op = "JCC" \/ (next.op = "JS" /\ i.op = "TEST")

\* A comparison and the branch after it, decoded as one: the branch has no uops.
decodeFusedInstrs(i, branch) ==
    IF i.outs = <<"flags">> /\ branch.outs = <<"rip">> THEN emitBasicOp([i EXCEPT !.outs = Append(@, "rip")])
    ELSE emitBasicOp(i)

Address == Blocks[conf].offset + FoldLeft(LAMBDA a, b : a + b.bytes, 0, bbl)

\* Instruction i with uops `new`, and after it those that are fused with it.
AddInstrs(i, new, bytes, fused) ==
    /\ stage = "decode" /\ Len(bbl) + Len(fused) < Blocks[conf].length
    /\ bbl # <<>> => Last(bbl).form.cat # "BRANCH"
    /\ bbl' = bbl \o <<[form |-> i, bytes |-> bytes, addr |-> Address, uops |-> Len(new)]>>
                  \o [k \in 1 .. Len(fused) |-> [form |-> fused[k], bytes |-> bytes, addr |-> Address + bytes, uops |-> 0]]
    /\ uops' = uops \o [k \in 1 .. Len(new) |-> [uop |-> new[k], ins |-> Len(bbl) + 1]]
    /\ UNCHANGED <<conf, stage, pre, dec>>

\* A comparison before a branch that it fuses with is never decoded alone.
DecodeOne(i, bytes) ==
    /\ bbl # <<>> => ~CanFuse(Last(bbl).form, i)
    /\ AddInstrs(i, decodeInstr(i), bytes, <<>>)

DecodeFused(i, branch, bytes) ==
    /\ CanFuse(i, branch)
    /\ AddInstrs(i, decodeFusedInstrs(i, branch), bytes, <<branch>>)

\* A block ends with its first branch.
EndOfBbl ==
    /\ stage = "decode" /\ bbl # <<>>
    /\ stage' = "predecode"
    /\ UNCHANGED <<conf, bbl, uops, pre, dec>>

\* Faulty form: the bytes that do not fit are not carried to the next cycle.
Predecoded_Zero(p, n, blk) ==
    IF p.sz + n > BlockBytes \/ p.cnt + 1 > MaxPredecs \/ blk > p.blk
    THEN [p EXCEPT !.cyc = @ + 1, !.sz = 0, !.cnt = 0, !.blk = blk]
    ELSE [p EXCEPT !.sz = @ + n, !.cnt = @ + 1]

\* Sixteen bytes of one block, or six instructions, a cycle.
Predecoded(p, n, blk) ==
    IF p.sz + n > BlockBytes \/ p.cnt + 1 > MaxPredecs \/ blk > p.blk
    THEN [p EXCEPT !.cyc = @ + 1, !.sz = n, !.cnt = 1, !.blk = blk]
    ELSE [p EXCEPT !.sz = @ + n, !.cnt = @ + 1]

Predecode ==
    /\ stage = "predecode"
    /\ LET k == Len(pre.cycle) + 1
           start == (bbl[1].addr \div BlockBytes) * BlockBytes
           p == Predecoded(pre, bbl[k].bytes, (bbl[k].addr - start) \div BlockBytes)
       IN  /\ pre' = [p EXCEPT !.cycle = Append(@, p.cyc)]
           /\ stage' = IF k = Len(bbl) THEN "dispatch" ELSE stage
    /\ UNCHANGED <<conf, bbl, uops, dec>>

Simple(b) == b.uops = 1 /\ b.bytes < Small

NewCycle(d, cyc) == [d EXCEPT !.cyc = cyc, !.simple = 0, !.complex = 0]

\* Faulty form: the complex instruction waits for the small decoders only.
Stalled_Simple(d, simple) == IF simple /\ d.simple + d.complex = Width THEN NewCycle(d, d.cyc + 1) ELSE d

Stalled(d, simple) ==
    IF (simple /\ d.simple + d.complex = Width) \/ (~simple /\ d.complex = 1) THEN NewCycle(d, d.cyc + 1) ELSE d

Counted(d, simple) == IF simple THEN [d EXCEPT !.simple = @ + 1] ELSE [d EXCEPT !.complex = @ + 1]

\* The decoders: fused branches have no uops, and are skipped.
Dispatch ==
    /\ stage = "dispatch"
    /\ LET k == Len(dec.cycle) + 1
           d == IF pre.cycle[k] > dec.cyc THEN NewCycle(dec, pre.cycle[k]) ELSE dec
           e == IF bbl[k].uops = 0 THEN dec ELSE Counted(Stalled(d, Simple(bbl[k])), Simple(bbl[k]))
       IN  /\ dec' = [e EXCEPT !.cycle = Append(@, e.cyc)]
           /\ stage' = IF k = Len(bbl) THEN "done" ELSE stage
    /\ UNCHANGED <<conf, bbl, uops, pre>>

Next ==
    \/ \E i \in Blocks[conf].forms, n \in Blocks[conf].bytes : DecodeOne(i, n) \/ \E b \in Blocks[conf].forms : DecodeFused(i, b, n)
    \/ EndOfBbl \/ Predecode \/ Dispatch

Spec == Init /\ [][Next]_vars

-----------------------------------------------------------------------------
(* Properties *)

UopsOf(k, type) == {n \in 1 .. Len(uops) : uops[n].ins = k /\ uops[n].uop.type = type}

\* Every instruction has as many loads and stores as the calls Pin makes for its
\* operands: the core takes the addresses of these calls in the order of the uops,
\* so that one too many or too few shifts all those that follow (OOOCore::bbl).
MemUopsMatch ==
    \A k \in 1 .. Len(bbl) :
        /\ Cardinality(UopsOf(k, "LOAD")) = bbl[k].form.loads
        /\ Cardinality(UopsOf(k, "STORE")) = bbl[k].form.stores

\* A temporary register is read only after a uop of the same instruction wrote it.
Fresh(n) ==
    \A r \in uops[n].uop.rs \intersect Temps :
        \E m \in 1 .. n - 1 : uops[m].ins = uops[n].ins /\ r \in uops[m].uop.rd

\* "we set the input register to 0 so there is no dependence": no instruction waits
\* for what an unrelated one left in a temporary register (emitBasicMove, emitStore).
NoFalseDependence == \A n \in 1 .. Len(uops) : Fresh(n)

\* The same but for stores of an immediate, whose uop reads the temporary register
\* of the last instruction that stored something (emitStore).
TempsFresh ==
    \A n \in 1 .. Len(uops) : Fresh(n) \/ (uops[n].uop.type = "STORE" /\ bbl[uops[n].ins].form.ins = <<>>)

InCycle(cycles, c) == {k \in 1 .. Len(cycles) : cycles[k] = c}
Bytes(S) == MapThenSumSet(LAMBDA k : bbl[k].bytes, S)
BlockOf(k) == bbl[k].addr \div BlockBytes

\* The predecoder takes, in a cycle, at most six instructions and sixteen bytes of
\* one block; and the decoders take instructions in order, none before it is
\* predecoded, with at most one complex instruction a cycle (decodeBbl).
DecodersInOrder ==
    /\ \A c \in ToSet(pre.cycle) :
          LET S == InCycle(pre.cycle, c) IN
          /\ Cardinality(S) <= MaxPredecs
          /\ Bytes(S) <= BlockBytes
          /\ \A j, k \in S : BlockOf(j) = BlockOf(k)
    /\ \A k \in 1 .. Len(dec.cycle) : bbl[k].uops > 0 =>
          /\ dec.cycle[k] >= pre.cycle[k]
          /\ k > 1 => dec.cycle[k] >= dec.cycle[k - 1]
    /\ \A c \in ToSet(dec.cycle) : Cardinality({k \in InCycle(dec.cycle, c) : bbl[k].uops > 0 /\ ~Simple(bbl[k])}) <= 1

\* "4-1-1-1 rules": there are four decoders, so that no cycle takes more than four
\* instructions (decodeBbl).
FourDecoders ==
    \A c \in ToSet(dec.cycle) : Cardinality({k \in InCycle(dec.cycle, c) : bbl[k].uops > 0}) <= Width
=============================================================================
