---------------------------- MODULE MCRelocation ----------------------------
(***************************************************************************)
(* The functions Relocation is checked with: each instruction the          *)
(* relocators rewrite, next to the start of a function and behind another, *)
(* in code moved to a near and to a far place; and functions with code     *)
(* behind that branches back.                                              *)
(***************************************************************************)
EXTENDS Relocation

Start == 10000
Near == 20000
Far == 500000

\* The instructions with their addresses.
Placed(code, from) ==
  [k \in DOMAIN code |-> code[k] @@ [at |-> from + Size(SubSeq(code, 1, k - 1))]]

Plain(arch, code) ==
  [arch |-> arch, code |-> code, from |-> Start, to |-> Far, scenario |-> "online",
   policy |-> "checked", force |-> FALSE, fast |-> FALSE, zero |-> none,
   cpu |-> "AMD64", abi |-> "UNIX", redirect |-> 16]

\* An instruction first, or behind one that is of no interest.
Around(insn, filler) ==
  {<<insn>> \o filler, <<filler[1], insn>> \o filler, <<filler[1], filler[2], insn>> \o filler}

-----------------------------------------------------------------------------
X86Filler == X86("other", 4, X86Reg(none), none)
X86Fill == <<X86Filler, X86Filler, X86Filler, X86Filler>>
X86Rip == X86Mem("rip", 300)
X86ByReg == X86Mem("rcx", 8)

X86Plain32 ==
  {X86("jcc", 2, X86Imm(100), none), X86("jcc", 2, X86Imm(-2), none),
   X86("jrcxz", 2, X86Imm(100), none), X86("jrcxz", 2, X86Imm(-2), none),
   X86("jmp", 5, X86Imm(300), none), X86("jmp", 2, X86Reg("rax"), none),
   X86("jmp", 3, X86ByReg, none),
   X86("call", 5, X86Imm(300), none), X86("call", 5, X86Imm(0), none),
   X86("call", 2, X86Reg("rax"), none), X86("call", 3, X86ByReg, none),
   X86("ret", 1, X86Reg(none), none), X86("test", 2, X86Reg(none), none),
   X86("load", 4, X86ByReg, "rax"), X86("pop", 4, X86ByReg, none)}

X86Only64 ==
  {X86("jmp", 6, X86Rip, none), X86("call", 6, X86Rip, none),
   X86("load", 7, X86Rip, "rax"), X86("load", 7, X86Rip, "rcx"),
   X86("load", 8, X86Mem("eip", 300), "rcx"), X86("lea", 7, X86Rip, "rax"),
   X86("store", 7, X86Rip, "rax"), X86("push", 6, X86Rip, none),
   X86("push", 4, X86ByReg, none), X86("syscall", 2, X86Reg(none), none),
   [X86("mul", 7, X86Rip, none) EXCEPT !.implicit = {"rax", "rdx"}],
   X86("cmpxchg", 8, X86Rip, "rcx")}

X86Inputs ==
  {[Plain("x86", code) EXCEPT !.to = to, !.cpu = "IA32", !.redirect = 5, !.scenario = scenario,
                              !.zero = "rcx"] :
     code \in UNION {Around(i, X86Fill) : i \in X86Plain32 \cup {X86CallThunk("rbx", 300)}},
     to \in {10200, Near}, scenario \in {"online", "offline"}}
  \cup
  {[Plain("x86", code) EXCEPT !.to = to, !.abi = abi, !.redirect = bytes, !.scenario = scenario,
                              !.zero = "rcx"] :
     code \in UNION {Around(i, X86Fill) : i \in X86Plain32 \cup X86Only64},
     to \in {Near, Far}, abi \in {"UNIX", "WINDOWS"}, bytes \in {5, 16},
     scenario \in {"online", "offline"}}

-----------------------------------------------------------------------------
Arm64Filler == Arm64("add", "x1", 0)
Arm64Fill == <<Arm64Filler, Arm64Filler, Arm64Filler, Arm64Filler>>

Arm64Palette ==
  {Arm64("ldr", "x1", 96), Arm64("ldr", "d0", 96), Arm64("ldrsw", "x1", 96),
   Arm64("adr", "x1", 96), Arm64("adrp", "x1", 128),
   Arm64("b", none, 96), Arm64Cond(96, "ne"), Arm64Cond(96, "al"),
   Arm64("cbz", "x1", 96), Arm64("cbnz", "x1", 96), Arm64("tbz", "x1", 96), Arm64("tbnz", "x1", 96),
   Arm64("bl", none, 96), Arm64("blr", "x1", 0), Arm64("br", "x17", 0), Arm64("ret", "lr", 0),
   Arm64Mov("x16", "lr"), Arm64Mov("x2", "x0"), Arm64("svc", none, 0)}

Arm64Behind ==
  {<<Arm64("ret", "lr", 0)>>, <<Arm64Cond(-12, "ne")>>,
   <<Arm64("tbz", "x1", -8), Arm64("br", "x1", 0)>>,
   <<Arm64("cbnz", "x1", 12), Arm64("ret", "lr", 0), Arm64Filler, Arm64("b", none, -20)>>,
   <<Arm64("b", none, 8), Arm64("b", none, -8), Arm64("ret", "lr", 0)>>}

Arm64PassingOn ==
  {<<Arm64Mov("x1", "lr"), Arm64("b", none, 96)>>,
   <<Arm64("stp", none, 0), Arm64Mov("x29", "x0"), Arm64Mov("x2", "lr"), Arm64("bl", none, 96)>>}

Arm64Inputs ==
  {[Plain("arm64", code) EXCEPT !.scenario = scenario, !.zero = "x1", !.fast = fast] :
     code \in UNION {Around(i, Arm64Fill) : i \in Arm64Palette} \cup Arm64PassingOn,
     scenario \in {"online", "offline"}, fast \in BOOLEAN}
  \cup
  {[Plain("arm64", Arm64Fill \o code) EXCEPT !.policy = policy, !.force = force, !.zero = "x1"] :
     code \in Arm64Behind, policy \in {"checked", "relaxed"}, force \in BOOLEAN}
  \cup
  {[Plain("arm64", <<Arm64Mov("x16", "x17")>> \o Arm64Fill) EXCEPT !.force = force] : force \in BOOLEAN}

-----------------------------------------------------------------------------
ArmFiller == ArmData("add", "r1", "r1", ArmImm(1))
ArmFill == <<ArmFiller, ArmFiller, ArmFiller>>

\* r2 holds the number that makes the address one the input may refer to.
ArmPalette ==
  {ArmData("ldr", dst, "pc", right) : dst \in {"r0", "r1", "pc"},
                                      right \in {ArmImm(96), ArmReg("r2"), ArmShifted("r2", 4)}}
  \cup {[ArmData("ldr", "r0", "pc", ArmReg("r2")) EXCEPT !.writeback = TRUE],
        [ArmData("ldr", "r0", "pc", ArmReg("r2")) EXCEPT !.subtracted = TRUE],
        ArmData("ldr", "r0", "r1", ArmImm(4)),
        ArmData("mov", "r0", none, ArmPc), ArmData("mov", "pc", none, ArmReg("r1")),
        ArmData("mov", "r0", none, ArmReg("r1"))}
  \cup {ArmData("add", dst, "pc", right) : dst \in {"r0", "r2"},
                                           right \in {ArmImm(96), ArmReg("r2"), ArmShifted("r2", 4)}}
  \cup {ArmData("add", "pc", "pc", right) : right \in {ArmImm(96), ArmShifted("r2", 4)}}
  \cup {ArmData("add", dst, "r2", ArmPc) : dst \in {"r0", "r2"}}
  \cup {ArmData("sub", dst, "pc", right) : dst \in {"r0", "r2"},
                                           right \in {ArmImm(96), ArmShifted("r2", 4)}}
  \cup {ArmData("sub", "r2", "pc", ArmReg("r2")), ArmData("sub", "r2", "r2", ArmPc)}
  \cup {ArmBranch("b", ArmImm(96), cc) : cc \in {"al", "ne"}}
  \cup {ArmBranch("bl", ArmImm(96), "al"), ArmBranch("blx", ArmImm(96), "al"),
        ArmBranch("blx", ArmReg("r1"), "al"), ArmBranch("bx", ArmReg("lr"), "al"),
        ArmBranch("pop", ArmImm(0), "al"), ArmBranch("unsupported", ArmImm(0), "al"),
        ArmData("cmp", none, "r0", ArmImm(0))}

ArmInputs ==
  {[Plain("arm", code) EXCEPT !.scenario = "offline"] :
     code \in UNION {Around([i EXCEPT !.dst = IF i.id = "pop" THEN "pc" ELSE @], ArmFill) :
                       i \in ArmPalette}}

\* Loads from below the pc.
LoadsBelow ==
  {[Plain("arm", Placed(code, Start)) EXCEPT !.scenario = "offline"] :
     code \in UNION {Around(i, ArmFill) : i \in {ArmLdrBefore("r0", 96), ArmLdrBefore("pc", 4)}}}

-----------------------------------------------------------------------------
ThumbFiller == Thumb("movs", 2, "r1", 5)
ThumbFill == <<ThumbFiller, ThumbFiller, ThumbFiller, ThumbFiller, ThumbFiller>>

ThumbRewritable ==
  {Thumb("ldr", 2, "r0", 96), Thumb("ldr", 4, "r1", 96), Thumb("vldr", 4, "d0", 96),
   Thumb("adr", 2, "r0", 96), Thumb("adr", 2, "r1", 96), Thumb("add pc", 2, "r0", 0),
   Thumb("add pc", 2, "r1", 0), ThumbMov("r2", "r1"), Thumb("movw", 4, "r2", 7)}

ThumbPalette ==
  ThumbRewritable \cup
  {Thumb("ldr", 4, "pc", 96), Thumb("b", 2, none, 96), ThumbCond(96), Thumb("bl", 4, none, 96),
   Thumb("blx", 4, none, 96), Thumb("blx", 2, "r1", 0), Thumb("bx", 2, "lr", 0),
   Thumb("cbz", 2, "r1", 96), Thumb("cbnz", 2, "r1", 96), Thumb("pop pc", 2, none, 0),
   Thumb("cmp", 2, none, 0), Thumb("unsupported", 4, none, 0), Thumb("add pc", 2, "pc", 0),
   Thumb("svc", 2, "r0", 0)}

ThumbBlocks ==
  {ThumbIt("eq", <<<<i, TRUE>>, <<Thumb("movw", 4, "r2", 9), then>>>>) :
     i \in ThumbRewritable, then \in BOOLEAN}
  \cup {ThumbIt("eq", <<<<Thumb(id, 4, none, 96), TRUE>>>>) : id \in {"b", "bl"}}
  \cup {ThumbIt("al", <<<<Thumb("ldr", 2, "r0", 96), TRUE>>, <<ThumbMov("r2", "r0"), TRUE>>>>)}

ThumbBehind ==
  {<<Thumb("bx", 2, "lr", 0)>>, <<Thumb("nop", 2, none, 0)>>,
   <<ThumbCond(-10), Thumb("pop pc", 2, none, 0)>>, <<Thumb("bl", 4, none, -10)>>,
   <<ThumbMov("r2", "r1"), Thumb("b", 2, none, -12)>>}

ThumbPassingOn ==
  {<<ThumbMov("r1", "lr"), Thumb("b", 2, none, 96)>>, <<ThumbMov("r1", "lr"), Thumb("bx", 2, "r2", 0)>>,
   <<Thumb("push", 2, none, 0), ThumbMov("r1", "lr"), Thumb("bl", 4, none, 96)>>}

ThumbShort == {<<ThumbFiller, ThumbFiller, ThumbFiller, Thumb("nop", 2, none, 0)>>,
               <<ThumbFiller, ThumbMov("r2", "r1"), Thumb("bx", 2, "lr", 0), Thumb("nop", 2, none, 0)>>,
               <<ThumbFiller, ThumbFiller, Thumb("bx", 2, "lr", 0), Thumb("undecodable", 2, none, 0)>>}

ThumbInputs ==
  {[Plain("thumb", code) EXCEPT !.from = from, !.zero = "r1", !.scenario = "offline"] :
     code \in UNION {Around(i, ThumbFill) : i \in ThumbPalette \cup ThumbBlocks}
                \cup ThumbPassingOn \cup ThumbShort,
     from \in {Start, Start + 2}}
  \cup
  {[Plain("thumb", code) EXCEPT !.zero = "r1"] :
     code \in UNION {Around(i, ThumbFill) : i \in ThumbPalette} \cup ThumbPassingOn \cup ThumbShort}
  \cup
  {[Plain("thumb", ThumbFill \o code) EXCEPT !.from = from] :
     code \in ThumbBehind, from \in {Start, Start + 2}}

\* Branches back from what is read but not moved: a function that ends in one,
\* and one of which the search takes back what was read.
BranchingBack ==
  {[Plain("arm64", Placed(code, Start)) EXCEPT !.zero = "x1"] :
     code \in {<<Arm64Filler, Arm64Filler, Arm64("b", none, -4)>>,
              <<Arm64Filler, Arm64Filler, Arm64("cbz", "x1", -4), Arm64Filler,
                Arm64Cond(-4, "ne"), Arm64("ret", "lr", 0)>>}}

-----------------------------------------------------------------------------
Unplaced == X86Inputs \cup Arm64Inputs \cup ArmInputs \cup ThumbInputs
MCInputs == {[f EXCEPT !.code = Placed(f.code, f.from)] : f \in Unplaced} \cup BranchingBack
=============================================================================
