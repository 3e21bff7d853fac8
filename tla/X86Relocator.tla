---------------------------- MODULE X86Relocator ----------------------------
(***************************************************************************)
(* How hooxx86relocator.c classifies and rewrites an instruction it moves, *)
(* for what the decoder (hx_disasm_x86.c) tells it of the instruction.     *)
(*                                                                         *)
(* An instruction has an id and a size; a branch has the displacement of   *)
(* its target, any other instruction that has a memory operand the operand *)
(* and its register.  The displacements of code are kept small: Reach      *)
(* stands for 2^31, ShortReach for 2^7.                                    *)
(***************************************************************************)
EXTENDS Processor

CONSTANTS Reach, ShortReach

ASSUME X86Assumption == Reach \in Nat /\ ShortReach \in 1 .. Reach

-----------------------------------------------------------------------------
(* The instructions *)

X86Imm(disp) == [kind |-> "imm", disp |-> disp]
X86Reg(r) == [kind |-> "reg", reg |-> r]
X86Mem(base, disp) == [kind |-> "mem", base |-> base, disp |-> disp]

\* reg: the other register; implicit: the registers it uses unnamed.
X86(id, size, op, reg) ==
  [arch |-> "x86", id |-> id, size |-> size, op |-> op, reg |-> reg,
   implicit |-> {}, thunk |-> none]

X86CallThunk(reg, disp) ==
  [X86("call", 5, X86Imm(disp), none) EXCEPT !.thunk = reg]

X86Push(r) == <<AddConstant("rsp", "rsp", -8), Store("rsp", 0, r)>>
X86Pop(r) == <<Load(r, "rsp", 0), AddConstant("rsp", "rsp", 8)>>

\* The address of a memory operand goes to the register "address"; one that is
\* relative to eip has 32 bits.
X86Address(op) ==
  CASE op.base = "rip" -> FormAddress("address", op.disp)
    [] op.base = "eip" -> FormModulo("address", op.disp, 2 * Reach)
    [] OTHER -> AddConstant("address", op.base, op.disp)

X86Target(op) ==
  CASE op.kind = "imm" -> <<GotoNear(op.disp)>>
    [] op.kind = "reg" -> <<Goto(op.reg, 0)>>
    [] op.kind = "mem" -> <<X86Address(op), Load("address", "address", 0), Goto("address", 0)>>

\* What the processor does on an instruction.
X86Effects(i) ==
  CASE i.id = "jcc" -> <<IfFlag(TRUE), GotoNear(i.op.disp)>>
    [] i.id = "jrcxz" -> <<IfZero("rcx", TRUE), GotoNear(i.op.disp)>>
    [] i.id = "loop" -> <<AddConstant("rcx", "rcx", -1), IfZero("rcx", FALSE),
                          GotoNear(i.op.disp)>>
    [] i.id = "jmp" -> X86Target(i.op)
    [] i.id = "call" /\ i.thunk # none -> <<FormAddress(i.thunk, 0)>>
    [] i.id = "call" -> <<FormAddress("return", 0)>> \o X86Push("return") \o X86Target(i.op)
    [] i.id = "ret" -> X86Pop("return") \o <<Goto("return", 0)>>
    [] i.id = "load" -> <<X86Address(i.op), Load(i.reg, "address", 0)>>
    [] i.id = "lea" -> <<X86Address(i.op), Copy(i.reg, "address")>>
    [] i.id = "store" -> <<X86Address(i.op), Store("address", 0, i.reg)>>
    [] i.id = "push" -> <<X86Address(i.op), Load("word", "address", 0)>> \o X86Push("word")
    [] i.id = "pop" -> X86Pop("word") \o <<X86Address(i.op), Store("address", 0, "word")>>
    [] i.id = "mul" -> <<X86Address(i.op), Load("word", "address", 0),
                         Compute("rdx", "rax", "word", 1, 0), Copy("rax", "word")>>
    [] i.id = "cmpxchg" -> <<X86Address(i.op), Load("word", "address", 0),
                             Store("address", 0, i.reg), Copy("rax", "word")>>
    [] i.id = "other" -> <<AddConstant("rbx", "rbx", 1)>>
    [] OTHER -> <<SetFlag>>

X86Copied(i) == Insn(i.size, X86Effects(i))

-----------------------------------------------------------------------------
(* Reading *)

IsJcc(i) == i.id = "jcc"

X86CallIsToNext(i) == i.op.kind = "imm" /\ i.op.disp = 0
X86IsThunk(i, c) == c.cpu = "IA32" /\ i.thunk # none

X86EndsInput(i) == i.id \in {"jmp", "ret"}

\* can_relocate stops after these unless it runs while no thread can be inside.
X86StopsScan(i) == i.id \in {"call", "syscall", "sysenter", "int"}

-----------------------------------------------------------------------------
(* What the writer puts for the relocator; the first argument of some is the  *)
(* output's pc                                                                *)

Fits(distance, reach) == -reach <= distance /\ distance < reach

PutX86Push(r) == Insn(1, X86Push(r))
PutX86Pop(r) == Insn(1, X86Pop(r))
PutX86Mov(r, k) == Insn(10, <<Constant(r, k)>>)
PutX86MovFrom(r, base, k) == Insn(7, <<Load(r, base, k)>>)
PutX86MovTo(base, k, r) == Insn(8, <<Store(base, k, r)>>)
PutX86XchgTop(r) == Insn(4, <<Exchange(r, "rsp")>>)
PutX86Lea(r, k) == Insn(8, <<AddConstant(r, r, k)>>)
PutX86Ret == Insn(1, X86Pop("return") \o <<Goto("return", 0)>>)

PutX86JmpAddress(pc, a, c) ==
  CASE Fits(a - (pc + 2), ShortReach) -> <<Insn(2, <<Goto(none, a)>>)>>
    [] Fits(a - (pc + 5), Reach) -> <<Insn(5, <<Goto(none, a)>>)>>
    [] c.cpu = "AMD64" -> <<Insn(16, <<Goto(none, a)>>)>>
    [] OTHER -> <<>>

PutX86CallAddress(pc, a, c) ==
  LET call == <<FormAddress("return", 0)>> \o X86Push("return") \o <<Goto(none, a)>> IN
  CASE Fits(a - (pc + 5), Reach) -> <<Insn(5, call)>>
    [] c.cpu = "AMD64" ->
         <<Insn(6, call), Insn(2, <<GotoLabel(<<pc, "carry on">>)>>), Insn(8, <<>>),
           Label(<<pc, "carry on">>)>>
    [] OTHER -> <<>>

PutX86JccLabel(i, id) ==
  Insn(2, CASE i.id = "jrcxz" -> <<IfZero("rcx", TRUE), GotoLabel(id)>>
            [] OTHER -> <<IfFlag(TRUE), GotoLabel(id)>>)

-----------------------------------------------------------------------------
(* Rewriting: i.at is where i was read, pc where its output goes *)

After(i) == i.at + i.size

\* call to the next instruction: only its address is pushed.
X86PushPc(i, c) ==
  IF c.cpu = "AMD64"
  THEN <<PutX86Push("rax"), PutX86Mov("rax", After(i)), PutX86XchgTop("rax")>>
  ELSE <<Insn(5, <<Constant("word", After(i))>> \o X86Push("word"))>>

\* Every instruction written has a label.
X86LabelOf(a) == <<a, "instruction">>

\* jcc.  start .. cur is what has been read.
RewriteJccOutOfRange(i, c, pc, start, cur) ==
  LET target == After(i) + i.op.disp
      yes == <<pc, "true">>
      no == <<pc, "false">> IN
  IF i.id # "jrcxz" /\ Fits(target - (pc + 6), Reach)
  THEN <<Insn(6, <<IfFlag(TRUE), Goto(none, target)>>)>>
  ELSE <<PutX86JccLabel(i, yes), Insn(2, <<GotoLabel(no)>>), Label(yes)>>
         \o PutX86JmpAddress(pc + 4, target, c) \o <<Label(no)>>

RewriteJcc(i, c, pc, start, cur) ==
  LET target == After(i) + i.op.disp IN
  IF start <= target /\ target < cur
  THEN <<PutX86JccLabel(i, X86LabelOf(target))>>
  ELSE RewriteJccOutOfRange(i, c, pc, start, cur)

\* A memory operand that stays within reach.
Redisplaced(i, disp) == <<X86Copied([i EXCEPT !.op.disp = disp])>>
Wrapped(n) == ((n + Reach) % (2 * Reach)) - Reach

RewriteIndirectFar(i, c, pc) ==
  LET returnTo(a) == <<PutX86Push("rax"), PutX86Mov("rax", a), PutX86XchgTop("rax")>>
      jump == <<PutX86Push("rax"), PutX86Mov("rax", After(i) + i.op.disp),
                Insn(3, <<Load("rax", "rax", 0)>>), PutX86XchgTop("rax"), PutX86Ret>> IN
  IF i.id = "call" THEN returnTo(pc + Size(returnTo(0) \o jump)) \o jump ELSE jump

\* The register that takes the place of rip.
X86Scratch == <<"rax", "rcx", "rdx", "rbx", "rbp", "rsi", "rdi">>
AnyRegister(i) == "rax"
FreeRegister(i) ==
  LET free(r) == /\ r # i.reg /\ r \notin i.implicit
                 /\ ~(i.id = "cmpxchg" /\ r = "rax") IN
  SelectSeq(X86Scratch, free)[1]

RedZoneSize == 128
RedZone(c) == IF c.abi = "UNIX" THEN RedZoneSize ELSE 0

RewriteFar(i, c) ==
  LET r == FreeRegister(i)
      skip == IF RedZone(c) # 0 THEN <<PutX86Lea("rsp", -RedZone(c))>> ELSE <<>>
      unskip == IF RedZone(c) # 0 THEN <<PutX86Lea("rsp", RedZone(c))>> ELSE <<>>
      used == IF i.id = "push"
              THEN <<PutX86MovFrom(r, r, i.op.disp), PutX86MovTo("rsp", 8 + RedZone(c), r)>>
              ELSE <<X86Copied([i EXCEPT !.op.base = r])>> IN
  (IF i.id = "push" THEN <<PutX86Push("rax")>> ELSE <<>>)
    \o skip \o <<PutX86Push(r), PutX86Mov(r, After(i))>> \o used
    \o <<PutX86Pop(r)>> \o unskip

RewriteRipRelative(i, c, pc) ==
  LET offset == After(i) + i.op.disp - (pc + i.size) IN
  CASE i.op.kind # "mem" -> <<X86Copied(i)>>
    [] i.op.base = "eip" -> Redisplaced(i, Wrapped(offset))
    [] i.op.base # "rip" -> <<X86Copied(i)>>
    [] Fits(offset, Reach) -> Redisplaced(i, offset)
    [] i.id \in {"call", "jmp"} -> RewriteIndirectFar(i, c, pc)
    [] OTHER -> RewriteFar(i, c)

RewriteUnconditional(i, c, pc) ==
  CASE i.id = "call" /\ X86CallIsToNext(i) -> X86PushPc(i, c)
    [] i.id = "call" /\ X86IsThunk(i, c) -> <<Insn(5, <<Constant(i.thunk, After(i))>>)>>
    [] i.op.kind = "imm" ->
         IF i.id = "call" THEN PutX86CallAddress(pc, After(i) + i.op.disp, c)
         ELSE PutX86JmpAddress(pc, After(i) + i.op.disp, c)
    [] i.op.kind = "mem" /\ c.cpu = "AMD64" -> RewriteRipRelative(i, c, pc)
    [] OTHER -> <<X86Copied(i)>>

\* write_one; on Linux a SYSCALL of 32-bit code is left out.
X86RewriteOne(i, c, pc, start, cur) ==
  CASE i.id \in {"call", "jmp"} -> RewriteUnconditional(i, c, pc)
    [] i.id = "jrcxz" \/ IsJcc(i) -> RewriteJcc(i, c, pc, start, cur)
    [] i.id = "syscall" /\ c.cpu = "IA32" -> <<>>
    [] c.cpu = "AMD64" -> RewriteRipRelative(i, c, pc)
    [] OTHER -> <<X86Copied(i)>>

X86Rewritten(i, c, pc, start, cur) ==
  <<Label(X86LabelOf(i.at))>> \o X86RewriteOne(i, c, pc, start, cur)
=============================================================================
