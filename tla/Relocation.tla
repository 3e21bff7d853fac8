----------------------------- MODULE Relocation -----------------------------
(***************************************************************************)
(* Making room for a redirect at the start of a function: the relocators'  *)
(* can_relocate, the backends' choice of how much to overwrite, and the    *)
(* copy of the overwritten instructions they make, which                   *)
(* on_invoke_trampoline runs in place of the originals.                    *)
(*                                                                         *)
(* An input gives the function's code from the address `from' on, with     *)
(* what follows it, where the copy goes and what the caller asked for.     *)
(* Beyond that code nothing refers to it.                                  *)
(***************************************************************************)
EXTENDS X86Relocator, Arm64Relocator, ArmRelocator, ThumbRelocator

CONSTANTS Inputs,         \* the functions, see Input
          SearchBudget    \* bytes a search for branches reads

EndOf(i) == i.at + i.size

\* One instruction after another.
LaidOut(code, from) ==
  /\ code \in Seq(Range(code))
  /\ \A k \in DOMAIN code :
       /\ code[k].size \in Nat \ {0}
       /\ code[k].at = IF k = 1 THEN from ELSE EndOf(code[k - 1])

\* Distances are numbers, of the instructions a search can follow as well.
RelocationAssumption ==
  /\ SearchBudget \in Nat
  /\ \A f \in Inputs :
       /\ f.arch \in {"x86", "arm64", "arm", "thumb"}
       /\ f.from \in Nat /\ f.redirect \in Nat \ {0} /\ f.force \in BOOLEAN
       /\ LaidOut(f.code, f.from)
       /\ f.arch \in {"arm64", "thumb"} => \A k \in DOMAIN f.code : f.code[k].disp \in Int

ASSUME InputsAreCode == RelocationAssumption

VARIABLES input,      \* the function hooked
          phase,      \* what the code is at
          inpos,      \* instructions read by the relocator in use
          eoi,        \* it has read an end of the input
          n,          \* bytes can_relocate finds can be moved
          start,      \* where a search starts, behind what was read
          at,         \* the address a search is at
          budget,     \* bytes it may still read
          checked,    \* branch targets it has read or is to read from
          pending,    \* those it is to read from
          size,       \* bytes the redirect overwrites
          scratch,    \* the register it may change
          chunks      \* the code written for each instruction

search == <<start, at, budget, checked, pending>>
plan == <<size, scratch>>
vars == <<input, phase, inpos, eoi, n, search, plan, chunks>>

-----------------------------------------------------------------------------
(* The input *)

Arch == input.arch

Code == input.code
ReadBytes == IF inpos = 0 THEN 0 ELSE EndOf(Code[inpos]) - input.from

EndsInput(i) ==
  CASE Arch = "x86" -> X86EndsInput(i)
    [] Arch = "arm64" -> Arm64EndsInput(i)
    [] Arch = "arm" -> ArmEndsInput(i)
    [] Arch = "thumb" -> ThumbEndsInput(i)

IsSupported(i) ==
  CASE Arch = "arm" -> ArmIsSupported(i)
    [] Arch = "thumb" -> ThumbIsSupported(i)
    [] OTHER -> TRUE

\* Only code that no thread can be inside goes on behind a call.
StopsScan(i) ==
  /\ input.scenario = "online"
  /\ CASE Arch = "x86" -> X86StopsScan(i)
       [] Arch = "arm64" -> Arm64StopsScan(i)
       [] Arch = "arm" -> FALSE
       [] Arch = "thumb" -> ThumbStopsScan(i)

\* The bytes of a redirect to anywhere, and those of the shorter ones.
FullSize ==
  CASE Arch = "x86" -> input.redirect
    [] Arch = "arm64" -> 16
    [] Arch = "arm" -> 8
    [] Arch = "thumb" -> IF input.from % 4 # 0 THEN 10 ELSE 8
ShorterSizes ==
  CASE Arch = "x86" -> {}
    [] Arch = "arm64" -> IF input.fast THEN {} ELSE {4, 8}
    [] Arch = "arm" -> {4}
    [] Arch = "thumb" -> {4, 6}

-----------------------------------------------------------------------------
(* can_relocate *)

CanRead(k) == k <= Len(Code) /\ Code[k].id # "undecodable"

\* Reads one instruction, if there is need for one.
Scan ==
  /\ phase = "scan" /\ ~eoi /\ CanRead(inpos + 1)
  /\ inpos' = inpos + 1
  /\ LET i == Code[inpos + 1] IN
     /\ eoi' = EndsInput(i)
     /\ n' = IF IsSupported(i) THEN EndOf(i) - input.from ELSE n
     /\ phase' = IF ~IsSupported(i) THEN "plan"
                 ELSE IF StopsScan(i) \/ EndOf(i) - input.from >= FullSize THEN "scanned"
                 ELSE "scan"
  /\ UNCHANGED <<input, search, plan, chunks>>

ScanEnds ==
  /\ phase = "scan" /\ (eoi \/ ~CanRead(inpos + 1))
  /\ phase' = "scanned"
  /\ UNCHANGED <<input, inpos, eoi, n, search, plan, chunks>>

\* Thumb: a function of half a word less, with padding behind it.
Padded ==
  LET last == Code[inpos] IN
  /\ n < FullSize
  /\ last.at % 4 = 0 /\ last.size = 2
  /\ inpos < Len(Code) /\ Code[inpos + 1].id = "nop"

MaySearch == Arch = "thumb" \/ (Arch = "arm64" /\ input.policy = "checked")
Searches == ~eoi /\ MaySearch

BeginSearch ==
  /\ phase = "scanned"
  /\ n' = IF Arch = "thumb" /\ eoi /\ Padded THEN n + 2 ELSE n
  /\ phase' = IF Searches THEN "search" ELSE "plan"
  /\ start' = input.from + ReadBytes
  /\ at' = start'
  /\ budget' = SearchBudget
  /\ checked' = IF Searches THEN {start'} ELSE {}
  /\ pending' = {}
  /\ UNCHANGED <<input, inpos, eoi, plan, chunks>>

\* What a search that is at an address reads there, if anything.
Here(a) == {i \in Range(Code) : i.at = a}

Follows(i) == IF Arch = "thumb" THEN ThumbLooksAt(i) ELSE Arm64Follows(i)
Target(i) == IF Arch = "thumb" THEN ThumbTarget(i) ELSE Arm64Target(i)
EndsStretch(i) == IF Arch = "thumb" THEN ThumbEndsSearch(i) ELSE Arm64EndsStretch(i)

\* A target inside what would be moved limits it.
Inside(a, bytes) == input.from < a /\ a < input.from + bytes
LimitedBy(targets, bytes) ==
  LET inside == {a \in targets : Inside(a, bytes)} IN
  IF inside = {} THEN bytes ELSE Min(inside) - input.from

SearchUnbudgeted ==
  /\ phase = "search"
  /\ \E i \in Here(at) :
       /\ budget' = budget - i.size
       /\ IF Follows(i) /\ Target(i) \notin checked
          THEN /\ checked' = checked \cup {Target(i)}
               /\ pending' = IF Arch = "arm64" THEN pending \cup {Target(i)} ELSE {}
          ELSE UNCHANGED <<checked, pending>>
       /\ IF EndsStretch(i) THEN phase' = "next" /\ at' = at
          ELSE at' = EndOf(i) /\ phase' = phase
  /\ UNCHANGED <<input, inpos, eoi, n, start, plan, chunks>>

Search ==
  /\ phase = "search"
  /\ \E i \in Here(at) :
       /\ i.size <= budget
       /\ budget' = budget - i.size
       /\ IF Follows(i) /\ Target(i) \notin checked
          THEN /\ checked' = checked \cup {Target(i)}
               /\ pending' = IF Arch = "arm64" THEN pending \cup {Target(i)} ELSE {}
          ELSE UNCHANGED <<checked, pending>>
       /\ IF EndsStretch(i) THEN phase' = "next" /\ at' = at
          ELSE at' = EndOf(i) /\ phase' = phase
  /\ UNCHANGED <<input, inpos, eoi, n, start, plan, chunks>>

SearchStops ==
  /\ phase = "search"
  /\ \A i \in Here(at) : i.size > budget
  /\ phase' = "next"
  /\ UNCHANGED <<input, inpos, eoi, n, search, plan, chunks>>

\* Goes on at any target that is left.
SearchNext ==
  /\ phase = "next" /\ pending # {}
  /\ \E a \in pending : at' = a /\ pending' = pending \ {a}
  /\ phase' = "search"
  /\ UNCHANGED <<input, inpos, eoi, n, start, budget, checked, plan, chunks>>

SearchEnds ==
  /\ phase = "next" /\ pending = {}
  /\ n' = LimitedBy(checked, n)
  /\ phase' = "plan"
  /\ UNCHANGED <<input, inpos, eoi, search, plan, chunks>>

-----------------------------------------------------------------------------
(* prepare_trampoline *)

\* The largest redirect there is room for.
SizeFor(bytes) ==
  IF bytes >= FullSize \/ input.force THEN FullSize
  ELSE LET fit == {k \in ShorterSizes : k <= bytes} IN
       IF fit = {} THEN 0 ELSE Max(fit)

InsnsWithin(bytes) == {i \in Range(Code) : EndOf(i) <= input.from + bytes}
ScratchFor(bytes) ==
  IF Arch # "arm64" THEN none
  ELSE LET free == Arm64ScratchRegister(InsnsWithin(bytes)) IN
       IF free = none /\ input.force THEN "x16" ELSE free

Prepare ==
  /\ phase = "plan"
  /\ size' = SizeFor(n)
  /\ scratch' = ScratchFor(n)
  /\ phase' = IF size' = 0 \/ (Arch = "arm64" /\ scratch' = none) THEN "refused" ELSE "read"
  /\ inpos' = 0 /\ eoi' = FALSE
  /\ UNCHANGED <<input, n, search, chunks>>

-----------------------------------------------------------------------------
(* create_trampoline *)

Read ==
  /\ phase = "read" /\ ~eoi /\ CanRead(inpos + 1)
  /\ inpos' = inpos + 1
  /\ eoi' = EndsInput(Code[inpos + 1])
  /\ phase' = IF EndOf(Code[inpos + 1]) - input.from < size THEN "read" ELSE "write"
  /\ UNCHANGED <<input, n, search, plan, chunks>>

\* Bytes that are not to be read are taken to be moved.
ReadEnds ==
  /\ phase = "read" /\ (eoi \/ ~CanRead(inpos + 1)) /\ inpos > 0
  /\ phase' = "write"
  /\ UNCHANGED <<input, inpos, eoi, n, search, plan, chunks>>

RelocBytes == IF ReadBytes < size THEN size ELSE ReadBytes

Moved == SubSeq(Code, 1, inpos)
Signature == [k \in 1 .. inpos |-> Code[k].id]

\* A function that passes its caller on: the copy reads the caller's address
\* in place of lr, which an invocation has changed.
PassesCallerOn ==
  CASE Arch = "arm64" ->
         \/ Signature = <<"mov", "b">>
         \/ IsPrefix(<<"stp", "mov", "mov", "bl">>, Signature)
    [] Arch = "thumb" ->
         \/ Signature \in {<<"mov", "b">>, <<"mov", "bx">>}
         \/ IsPrefix(<<"push", "mov", "bl">>, Signature)
    [] OTHER -> FALSE
ReadsCaller(i) == PassesCallerOn /\ i.id = "mov" /\ i.src = "lr"

\* Which of the saved registers is written with the answer.
SavedRegister(r) ==
  IF Arch # "arm64" THEN r ELSE CASE r = "x29" -> "x0" [] r = "lr" -> "x1" [] OTHER -> r

\* Thumb: a call that comes last returns to where it was made from.
IsTrailingCall(k) ==
  /\ Arch = "thumb" /\ k = inpos /\ ~PassesCallerOn
  /\ Code[k].id = "bl"
TrailingCall(i) ==
  <<Insn(4, <<Constant("lr", EndOf(i) + 1)>>),
    Insn(4, <<Constant("address", ThumbTarget(i) + 1), Interwork("address")>>)>>

OutputPc == input.to + Size(FlattenSeq(chunks))

CodeFor(k) ==
  LET i == Code[k] IN
  CASE ReadsCaller(i) -> <<Insn(4, <<Caller(SavedRegister(i.reg))>>)>>
    [] IsTrailingCall(k) -> TrailingCall(i)
    [] Arch = "x86" ->
         X86Rewritten(i, [cpu |-> input.cpu, abi |-> input.abi], OutputPc,
                      input.from, input.from + ReadBytes)
    [] Arch = "arm64" -> Arm64Rewritten(i, OutputPc)
    [] Arch = "arm" -> ArmRewritten(i, OutputPc)
    [] Arch = "thumb" -> ThumbRewritten(i)

Write ==
  /\ phase = "write" /\ Len(chunks) < inpos
  /\ chunks' = Append(chunks, CodeFor(Len(chunks) + 1))
  /\ UNCHANGED <<input, phase, inpos, eoi, n, search, plan>>

\* The way back, which comes after the last instruction.
Resume ==
  LET a == input.from + RelocBytes IN
  CASE Arch = "x86" -> PutX86JmpAddress(OutputPc, a, [cpu |-> input.cpu, abi |-> input.abi])
    [] Arch = "arm64" -> <<PutArm64LdrAddress(scratch, a), PutArm64BrReg(scratch)>>
    [] Arch = "arm" -> <<PutArmLdrAddress("pc", a)>>
    [] Arch = "thumb" ->
         <<Insn(2, <<AddConstant("sp", "sp", -8), Store("sp", 0, "r0"), Store("sp", 4, "r1")>>),
           PutThumbLdrAddress("r0", a + 1)>> \o PutThumbPopAndGo("r0")

Finish ==
  /\ phase = "write" /\ Len(chunks) = inpos
  /\ chunks' = IF eoi \/ IsTrailingCall(inpos) THEN chunks ELSE Append(chunks, Resume)
  /\ phase' = "done"
  /\ UNCHANGED <<input, inpos, eoi, n, search, plan>>

-----------------------------------------------------------------------------
Init ==
  /\ input \in Inputs
  /\ phase = "scan" /\ inpos = 0 /\ eoi = FALSE /\ n = 0
  /\ start = 0 /\ at = 0 /\ budget = 0 /\ checked = {} /\ pending = {}
  /\ size = 0 /\ scratch = none
  /\ chunks = <<>>

Ended == phase \in {"done", "refused"} /\ UNCHANGED vars

Next ==
  \/ Scan \/ ScanEnds
  \/ BeginSearch \/ Search \/ SearchStops \/ SearchNext \/ SearchEnds
  \/ Prepare
  \/ Read \/ ReadEnds \/ Write \/ Finish
  \/ Ended

Spec == Init /\ [][Next]_vars

-----------------------------------------------------------------------------
(* Properties *)

RelocationTypeOK ==
  /\ Arch \in {"x86", "arm64", "arm", "thumb"}
  /\ phase \in {"scan", "scanned", "search", "next", "plan", "read", "write", "done", "refused"}
  /\ inpos \in 0 .. Len(Code)
  /\ eoi \in BOOLEAN
  /\ n \in Nat /\ start \in Nat /\ at \in Int /\ size \in Nat
  /\ budget \in 0 .. SearchBudget
  /\ pending \subseteq checked
  /\ Len(chunks) <= inpos + 1
  /\ phase = "done" => Len(chunks) \in {inpos, inpos + 1}

StackPointer == IF Arch = "x86" THEN "rsp" ELSE "sp"
Registers ==
  CASE Arch = "x86" -> <<"rax", "rcx", "rdx", "rbx", "rbp", "rsi", "rdi">>
    [] Arch = "arm64" -> <<"x0", "x1", "x2", "x16", "x17", "x29", "lr", "d0">>
    [] OTHER -> <<"r0", "r1", "r2", "lr", "d0">>
Internal == {"address", "word", "return"}

StackTop == 700000
CallerAddress == IF Arch = "thumb" THEN 600001 ELSE 600000
LeaveTrampoline == 610000

\* A state in which an instruction may be reached: every register holds a
\* number of its own, but for one that may be zero.
Reached(pc, flag, zero) ==
  [pc |-> pc, flag |-> flag, skip |-> FALSE, thumb |-> Arch = "thumb",
   caller |-> CallerAddress, spoiled |-> {}, mem |-> <<>>,
   regs |-> [r \in Range(Registers) \cup Internal \cup {StackPointer} |->
               CASE r = StackPointer -> StackTop
                 [] r = "lr" -> CallerAddress
                 [] r = zero \/ r \in Internal -> 0
                 [] OTHER -> 400 * (CHOOSE k \in DOMAIN Registers : Registers[k] = r)]]

\* In the copy's world the original's bytes are gone and lr may be changed.
Overwritten(s) == [s EXCEPT !.spoiled = input.from .. input.from + size - 1]
Trapped(s) ==
  IF PassesCallerOn THEN [s EXCEPT !.regs["lr"] = LeaveTrampoline] ELSE s

Output == FlattenSeq(chunks)
ChunkPlaces == Places([k \in DOMAIN chunks |-> Insn(Size(chunks[k]), <<>>)], input.to)
ChunkStarts == {ChunkPlaces[k] : k \in 1 .. inpos}

\* Where a place in the copy is in the original.
InOriginal(a) ==
  IF a \in ChunkStarts
  THEN Code[CHOOSE k \in 1 .. inpos : ChunkPlaces[k] = a].at
  ELSE a

RunCopy(s) == RunUntil(Output, input.to, s, ChunkStarts)

OriginalCode(i) ==
  CASE Arch = "x86" -> <<X86Copied(i)>>
    [] Arch = "arm64" -> <<Arm64Copied(i)>>
    [] Arch = "arm" -> <<ArmCopied(i)>>
    [] Arch = "thumb" -> ThumbCode(i)

\* An address of code, without the mark of Thumb code.
CodeAddress(v) == IF Arch = "thumb" THEN Even(v) ELSE v

\* What the copy may leave changed: the register of a jump out of it, on arm64
\* x16 and on the way back the one chosen; and lr if it stands for a caller.
Scratches(o) ==
  (IF Arch # "arm64" THEN {}
   ELSE IF o.pc = input.from + RelocBytes THEN {scratch}
   ELSE IF o.pc \in {Code[k].at : k \in 1 .. inpos} THEN {} ELSE {"x16"})
    \cup (IF PassesCallerOn THEN {"lr"} ELSE {})

\* Memory that is in use: above the stack pointer, and below it the red zone
\* unless the function has called or left.
InUse(o, a) ==
  a >= o.regs[StackPointer] -
         (IF Arch = "x86" /\ input.cpu = "AMD64" /\ o.pc \in input.from .. input.from + RelocBytes
          THEN RedZone([abi |-> input.abi]) ELSE 0)

SameStates(o, c, Same(_, _)) ==
  /\ InOriginal(c.pc) = o.pc
  /\ c.flag = o.flag /\ c.thumb = o.thumb
  /\ \A r \in DOMAIN o.regs \ (Internal \cup Scratches(o)) : Same(o.regs[r], c.regs[r])
  /\ \A a \in DOMAIN o.mem \cup DOMAIN c.mem : InUse(o, a) => Same(Word(o, a), Word(c, a))

\* A return address in the copy is as good as the original if returning to it
\* leads to what the original is the address of, and changes nothing.
Equal(v, w) == v = w
ReturnsAlike(v, w) ==
  LET o == Reached(CodeAddress(v), TRUE, none)
      c == [o EXCEPT !.pc = CodeAddress(w)] IN
  /\ w >= input.to /\ w < OutputPc
  /\ \/ InOriginal(c.pc) = o.pc
     \/ SameStates(o, RunCopy(c), Equal)
Alike(v, w) == v = w \/ ReturnsAlike(v, w)

KeepsItsMeaning(k, flag, zero) ==
  LET i == Code[k]
      s == Reached(i.at, flag, zero)
      o == RunUntil(OriginalCode(i), i.at, s, {})
      c == RunCopy(Trapped([Overwritten(s) EXCEPT !.pc = ChunkPlaces[k]])) IN
  SameStates(o, c, Alike)

\* Whatever instruction of the function is moved, on each of the processors:
\* from the same state its copy leads to the same state as the instruction
\* itself, in place - to the copy of the instruction that comes next, or out
\* of the copy to the same address -, with the same registers, flags and
\* memory, and with return addresses that lead back to where the original's
\* do.  (The relocators and the end of create_trampoline; a relocator is
\* tested instruction by instruction against the bytes it should write.)
InstructionsKeepTheirMeaning ==
  phase = "done" =>
    \A k \in 1 .. inpos, flag \in BOOLEAN, zero \in {none, input.zero} :
      KeepsItsMeaning(k, flag, zero)

\* The copy of a load from below the pc loads what the load does: the comment in
\* rewrite_ldr of A32 says that it handles both signs.
LoadsKeepTheirPlace ==
  phase = "done" =>
    \A k \in 1 .. inpos :
      Arch = "arm" /\ Code[k].id = "ldr" /\ Code[k].subtracted => KeepsItsMeaning(k, TRUE, none)

\* The places from which there is code to reach, on arm64 by branches as well;
\* on Thumb calls are as good as branches.
Branches(i) ==
  IF Arch = "thumb" THEN i.id \in {"b", "bl", "blx"} /\ ThumbIsToPlace(i)
  ELSE i.id \in {"b", "cbz", "cbnz", "tbz", "tbnz"}
Successors(i) ==
  (IF EndsStretch(i) THEN {} ELSE {EndOf(i)})
    \cup (IF Arch = "arm64" /\ Branches(i) THEN {Target(i)} ELSE {})
Addresses == {i.at : i \in Range(Code)}
IsClosed(S) == \A i \in Range(Code) : i.at \in S => Successors(i) \cap Addresses \subseteq S
ReachableFrom(a) ==
  {x \in Addresses :
     \A S \in SUBSET Addresses : (a \in Addresses => a \in S) /\ IsClosed(S) => x \in S}

\* The search was made, and stopped nowhere for want of bytes.
SearchMade == checked # {}
HasNotRunOut == \A i \in Range(Code) : i.size <= budget

\* A redirect overwrites no instruction that is branched to from the code that
\* can be reached behind what was read to plan it, when that code is searched
\* and the search has not run out of bytes (can_relocate of arm64 and Thumb,
\* whose result and the size chosen from it must agree).
NoBranchIntoTheRedirect ==
  phase = "done" /\ SearchMade /\ ~input.force /\ HasNotRunOut =>
    \A i \in Range(Code) :
      Branches(i) /\ Inside(Target(i), size) => i.at \notin ReachableFrom(start)

\* The same of all code the copy may go on to, not only of what the search
\* looks at: less may be moved than was read, and an end of the input among
\* what was read is taken for the end of the function (can_relocate).
NoBranchFromBehindTheRedirect ==
  phase = "done" /\ MaySearch /\ ~eoi /\ ~input.force /\ HasNotRunOut =>
    \A i \in Range(Code) :
      Branches(i) /\ Inside(Target(i), size) => i.at \notin ReachableFrom(input.from + RelocBytes)

\* A redirect overwrites only what has been moved, except for the padding
\* behind a function of Thumb that ends there (can_relocate, which finds how
\* much can be moved, and create_trampoline, which reads the code again).
OnlyMovedCodeIsOverwritten ==
  phase = "done" /\ ~input.force =>
    \/ size <= ReadBytes
    \/ /\ Arch = "thumb" /\ eoi /\ size <= ReadBytes + 2
       /\ inpos < Len(Code) /\ Code[inpos + 1].id = "nop"

\* A call that has yet to return when a function is hooked does not return
\* into its redirect: nothing that may be waited in is moved but at the end,
\* where threads may be inside (can_relocate's online scenario, which the
\* relocator of A32 does not know).
Waits(i) ==
  i.id \in CASE Arch = "x86" -> {"call", "syscall", "sysenter", "int"}
              [] Arch = "arm64" -> {"bl", "blr", "svc"}
              [] Arch \in {"arm", "thumb"} -> {"bl", "blx", "svc"}
NoReturnIntoTheRedirect ==
  phase = "done" /\ input.scenario = "online" /\ ~input.force /\ Arch # "arm" =>
    \A k \in 1 .. inpos : Waits(Code[k]) => ~Inside(EndOf(Code[k]), RelocBytes)
=============================================================================
