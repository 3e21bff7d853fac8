--------------------------- MODULE ThumbRelocator ---------------------------
(***************************************************************************)
(* How hooxthumbrelocator.c classifies and rewrites an instruction of the  *)
(* Thumb state it moves.                                                   *)
(*                                                                         *)
(* The pc an instruction reads is its address and four.  An IT instruction *)
(* comes with the one to four that follow it and that it makes             *)
(* conditional, which the relocator reads and rewrites with it.            *)
(***************************************************************************)
EXTENDS Processor

-----------------------------------------------------------------------------
(* The instructions *)

Thumb(id, size, reg, disp) ==
  [arch |-> "thumb", id |-> id, size |-> size, reg |-> reg, disp |-> disp,
   cc |-> "al", block |-> <<>>, src |-> none]
ThumbMov(reg, src) == [Thumb("mov", 2, reg, 0) EXCEPT !.src = src]
ThumbCond(disp) == [Thumb("b", 2, none, disp) EXCEPT !.cc = "ne"]

\* BLX to a register, where disp has no meaning, and to a place.
ThumbIsToPlace(i) == i.reg = none

\* The block is of instructions and whether each belongs to the condition.
ThumbIt(cc, block) ==
  [Thumb("it", 2 + FoldLeft(LAMBDA n, b : n + b[1].size, 0, block), none, 0)
     EXCEPT !.cc = cc, !.block = block]

\* k bytes from the pc, or from the pc rounded down to a word
ThumbNear(i, k) == k + 4 - i.size
ThumbForm(r, i, k) == FormAligned(r, 4 - i.size, 4, k)

\* What an instruction does, in an IT block or not.
ThumbTakes(i, inBlock) ==
  CASE i.id = "ldr" -> <<ThumbForm("address", i, i.disp), Load("word", "address", 0)>>
                         \o (IF i.reg = "pc" THEN <<Interwork("word")>> ELSE <<Copy(i.reg, "word")>>)
    [] i.id = "vldr" -> <<ThumbForm("address", i, i.disp), Load(i.reg, "address", 0)>>
    [] i.id = "adr" -> <<ThumbForm(i.reg, i, i.disp)>>
    [] i.id = "add pc" -> <<FormAddress("address", ThumbNear(i, 0)),
                            Compute(i.reg, i.reg, "address", 1, 0)>>
    [] i.id = "b" -> <<GotoNear(ThumbNear(i, i.disp))>>
    [] i.id = "bl" -> <<FormAddress("lr", 1), GotoNear(ThumbNear(i, i.disp))>>
    [] i.id = "blx" /\ ThumbIsToPlace(i) ->
         <<FormAddress("lr", 1), ThumbForm("address", i, i.disp), Goto("address", 0),
           SetThumb(FALSE)>>
    [] i.id = "blx" -> <<Copy("address", i.reg), FormAddress("lr", 1), Interwork("address")>>
    [] i.id = "bx" -> <<Interwork(i.reg)>>
    [] i.id = "cbz" -> <<IfZero(i.reg, TRUE), GotoNear(ThumbNear(i, i.disp))>>
    [] i.id = "cbnz" -> <<IfZero(i.reg, FALSE), GotoNear(ThumbNear(i, i.disp))>>
    [] i.id = "pop pc" -> <<Load("address", "sp", 0), AddConstant("sp", "sp", 4), Interwork("address")>>
    [] i.id = "mov" -> <<Copy(i.reg, i.src)>>
    [] i.id = "movw" -> <<Constant(i.reg, i.disp)>>
    [] i.id = "movs" -> <<Constant(i.reg, i.disp)>> \o (IF inBlock THEN <<>> ELSE <<SetFlag>>)
    [] OTHER -> <<SetFlag>>

ThumbEffects(i) == (IF i.cc = "al" THEN <<>> ELSE <<IfFlag(TRUE)>>) \o ThumbTakes(i, FALSE)

ThumbCopied(i) == Insn(i.size, ThumbEffects(i))

\* What the processor runs: an IT instruction's block is under its condition.
ThumbCode(i) ==
  IF i.id # "it" THEN <<ThumbCopied(i)>>
  ELSE <<Insn(2, <<>>)>>
         \o [n \in DOMAIN i.block |->
               Insn(i.block[n][1].size,
                    (IF i.cc = "al" THEN <<>> ELSE <<IfFlag(i.block[n][2])>>)
                      \o ThumbTakes(i.block[n][1], TRUE))]

-----------------------------------------------------------------------------
(* Reading *)

ThumbIsUnconditional(i) == i.cc = "al"

\* In an IT block nothing ends the input.
ThumbEndsInput(i) ==
  CASE i.id \in {"b", "bx"} -> ThumbIsUnconditional(i)
    [] i.id \in {"mov", "ldr"} -> i.reg = "pc"
    [] OTHER -> i.id \in {"pop pc", "tbb"}

ThumbIsSupported(i) ==
  /\ i.id # "unsupported"
  /\ ~(i.id = "add pc" /\ i.reg = "pc")
  /\ ~(i.id = "mov" /\ i.src = "pc")
  /\ \A n \in DOMAIN i.block : i.block[n][1].id # "unsupported"

\* can_relocate stops after these unless it runs while no thread can be inside.
ThumbStopsScan(i) == i.id \in {"bl", "blx", "svc"}

\* The search for branches into the code to move, in the kilobyte after it:
\* the branches it looks at, and what ends it.
ThumbLooksAt(i) == i.id \in {"b", "bl", "blx"} /\ ThumbIsToPlace(i)
ThumbEndsSearch(i) == (i.id \in {"b", "bx"} /\ ThumbIsUnconditional(i)) \/ i.id = "pop pc"

\* Where the decoder says a branch read at i.at goes.
ThumbPcOf(i) == i.at + 4
ThumbTarget(i) ==
  IF i.id = "blx" THEN RoundedDown(ThumbPcOf(i) + i.disp, 4) ELSE ThumbPcOf(i) + i.disp

-----------------------------------------------------------------------------
(* What the writer puts for the relocator *)

PutThumbPush(r) == Insn(2, <<AddConstant("sp", "sp", -4), Store("sp", 0, r)>>)
PutThumbPop(r) == Insn(2, <<Load(r, "sp", 0), AddConstant("sp", "sp", 4)>>)
PutThumbPushWithPc(r) ==
  Insn(2, <<AddConstant("sp", "sp", -8), Store("sp", 0, r),
            FormAddress("address", 2), Store("sp", 4, "address")>>)
PutThumbLdrAddress(r, a) == Insn(2, <<Constant(r, a)>>)
PutThumbLdr(r, base) == Insn(2, <<Load(r, base, 0)>>)
PutThumbAdd(r, s) == Insn(2, <<Compute(r, r, s, 1, 0)>>)
PutThumbMov(r, s) == Insn(2, <<Copy(r, s)>>)
PutThumbBlx(r) == Insn(2, ThumbTakes(Thumb("blx", 2, r, 0), FALSE))
PutThumbTest(test, id) == Insn(2, <<test, GotoLabel(id)>>)
PutThumbBLabel(id) == Insn(2, <<GotoLabel(id)>>)

\* str r, [sp, #4]; pop { r, pc }
PutThumbPopAndGo(r) ==
  <<Insn(2, <<Store("sp", 4, r)>>),
    Insn(2, <<Load(r, "sp", 0), Load("address", "sp", 4), AddConstant("sp", "sp", 8),
              Interwork("address")>>)>>

\* Goes to an address, without a register to spare.
ThumbGo(a) ==
  <<PutThumbPush("r0"), PutThumbPush("r0"), PutThumbLdrAddress("r0", a)>> \o PutThumbPopAndGo("r0")

-----------------------------------------------------------------------------
(* Rewriting *)

ThumbWordOf(i) == RoundedDown(ThumbPcOf(i), 4)

ThumbRewriteLdr(i) ==
  LET load(r) == <<PutThumbLdrAddress(r, ThumbWordOf(i) + i.disp), PutThumbLdr(r, r)>> IN
  IF i.reg = "pc"
  THEN <<PutThumbPushWithPc("r0")>> \o load("r0") \o PutThumbPopAndGo("r0")
  ELSE load(i.reg)

ThumbRewriteVldr(i) ==
  <<PutThumbPush("r0"), PutThumbLdrAddress("r0", ThumbWordOf(i) + i.disp),
    PutThumbLdr(i.reg, "r0"), PutThumbPop("r0")>>

ThumbTemp(i) == IF i.reg # "r0" THEN "r0" ELSE "r1"

ThumbRewriteAdr(i) ==
  LET temp == ThumbTemp(i) IN
  <<PutThumbPush(temp), PutThumbLdrAddress(i.reg, ThumbWordOf(i)),
    PutThumbLdrAddress(temp, i.disp), PutThumbAdd(i.reg, temp), PutThumbPop(temp)>>

ThumbRewriteAdd(i) ==
  LET temp == ThumbTemp(i) IN
  <<PutThumbPush(temp), PutThumbLdrAddress(temp, ThumbPcOf(i)), PutThumbAdd(i.reg, temp),
    PutThumbPop(temp)>>

ThumbRewriteB(i) == ThumbGo(ThumbTarget(i) + 1)

ThumbRewriteTest(i, test) ==
  <<PutThumbTest(test, <<i.at, "true">>), PutThumbBLabel(<<i.at, "false">>),
    Label(<<i.at, "true">>)>> \o ThumbGo(ThumbTarget(i) + 1) \o <<Label(<<i.at, "false">>)>>

ThumbRewriteBl(i) ==
  IF ThumbIsToPlace(i)
  THEN <<PutThumbPush("r0"),
         PutThumbLdrAddress("r0", IF i.id = "bl" THEN ThumbTarget(i) + 1 ELSE ThumbTarget(i)),
         PutThumbMov("lr", "r0"), PutThumbPop("r0"), PutThumbBlx("lr")>>
  ELSE <<ThumbCopied(i)>>

\* write_instruction; in an IT block the condition of a branch is the block's.
ThumbRewriteOne(i) ==
  CASE i.id = "ldr" -> ThumbRewriteLdr(i)
    [] i.id = "vldr" -> ThumbRewriteVldr(i)
    [] i.id = "adr" -> ThumbRewriteAdr(i)
    [] i.id = "add pc" -> ThumbRewriteAdd(i)
    [] i.id = "b" /\ ~ThumbIsUnconditional(i) -> ThumbRewriteTest(i, IfFlag(TRUE))
    [] i.id = "b" -> ThumbRewriteB(i)
    [] i.id \in {"bl", "blx"} -> ThumbRewriteBl(i)
    [] i.id = "cbz" -> ThumbRewriteTest(i, IfZero(i.reg, TRUE))
    [] i.id = "cbnz" -> ThumbRewriteTest(i, IfZero(i.reg, FALSE))
    [] OTHER -> <<ThumbCopied(i)>>

\* The instructions of a block, each with its address.
ThumbPlaced(i) ==
  [n \in DOMAIN i.block |->
     [insn |-> i.block[n][1] @@
               [at |-> i.at + 2 + FoldLeft(LAMBDA k, b : k + b[1].size, 0, SubSeq(i.block, 1, n - 1))],
      then |-> i.block[n][2]]]

ThumbRegion(i, then) ==
  FoldLeft(LAMBDA code, b : IF b.then = then THEN code \o ThumbRewriteOne(b.insn) ELSE code,
           <<>>, ThumbPlaced(i))

\* First those the condition excludes, then those it includes.
ThumbRewriteItFallingThrough(i) ==
  <<PutThumbTest(IfFlag(TRUE), <<i.at, "then">>)>> \o ThumbRegion(i, FALSE)
    \o <<Label(<<i.at, "then">>)>> \o ThumbRegion(i, TRUE)

ThumbRewriteIt(i) ==
  IF i.cc = "al" THEN ThumbRegion(i, FALSE) \o ThumbRegion(i, TRUE)
  ELSE <<PutThumbTest(IfFlag(TRUE), <<i.at, "then">>)>> \o ThumbRegion(i, FALSE)
         \o <<PutThumbBLabel(<<i.at, "end">>), Label(<<i.at, "then">>)>>
         \o ThumbRegion(i, TRUE) \o <<Label(<<i.at, "end">>)>>

\* write_one, and for a block as many as it has
ThumbRewritten(i) == IF i.id = "it" THEN ThumbRewriteIt(i) ELSE ThumbRewriteOne(i)
=============================================================================
