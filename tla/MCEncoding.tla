------------------------------ MODULE MCEncoding ------------------------------
(***************************************************************************)
(* The requests Encoding is checked with: every request of the four        *)
(* writers, with registers of each bank, operands at both ends of what an  *)
(* instruction can say and the first ones past them; and what each should  *)
(* read as, from the architectures' manuals.                               *)
(***************************************************************************)
EXTENDS Encoding

Start == 2^28
Arch(isa, mode64, windows, auth) ==
  [isa |-> isa, mode64 |-> mode64, windows |-> windows, auth |-> auth]
MCArchs ==
  {Arch("arm64", FALSE, FALSE, FALSE), Arch("arm64", FALSE, FALSE, TRUE),
   Arch("arm", FALSE, FALSE, FALSE), Arch("thumb", FALSE, FALSE, FALSE),
   Arch("x86", TRUE, FALSE, FALSE), Arch("x86", TRUE, TRUE, FALSE),
   Arch("x86", FALSE, FALSE, FALSE)}
Arm64Only == {a \in MCArchs : a.isa = "arm64" /\ ~a.auth}
NoThreads(a, pc) == {}
NoCalls(a) == {}

\* A request that reads as these instructions, and one that is refused.
Good(ask, pieces, insns) == Case(ask, pieces, [i \in DOMAIN insns |-> Reading(insns[i])])
One(ask, pieces, insn) == Good(ask, pieces, <<insn>>)
Bad(ask, pieces) == Case(<<"refused">> \o ask, pieces, <<>>)
ToLabel(ask, pieces, insn, id) == Case(ask, pieces, <<[Reading(insn) EXCEPT !.to = id]>>)
Loading(ask, pieces, insn, value) == Case(ask, pieces, <<[Reading(insn) EXCEPT !.loads = value]>>)

L1 == <<"l">>

-----------------------------------------------------------------------------
(* arm64 *)

\* How far a branch of so many bits goes, and one instruction further.
Ends(bits) == {4, 4 * (2^(bits - 1) - 1), -4 * 2^(bits - 1)}
Past(bits) == {2, 4 * 2^(bits - 1), -4 * 2^(bits - 1) - 4}
Signature(auth) == IF auth THEN A64!Arm64Space ELSE 0
Other(regs) == Decoded("other", regs)
XNum(r) == Reg("x", r.n)
W(n) == Reg("w", n)
SomeX == {A64!X(0), A64!X(17), A64!X(30)}
SomeGp == SomeX \cup {W(1), W(29)}
SomeVectors == {Reg("q", 31), Reg("d", 9), Reg("s", 8)}
Mixed == {<<A64!X(1), W(2)>>, <<W(2), A64!X(1)>>}
Alike == {<<A64!X(1), A64!X(2)>>, <<A64!X(30), A64!X(0)>>, <<W(3), W(4)>>}
LikeVectors == {<<Reg("q", 30), Reg("q", 31)>>, <<Reg("d", 8), Reg("d", 9)>>}

A64Branches(pc, auth) ==
  LET sign == Signature(auth)
  IN  {One(<<"b", d>>, A64!PutBImm(pc, pc + d + sign, auth), DecodedTo("b", <<>>, pc + d)) : d \in Ends(26)}
      \cup {One(<<"bl", d>>, A64!PutBlImm(pc, pc + d + sign, auth), DecodedTo("bl", <<>>, pc + d)) : d \in Ends(26)}
      \cup {Bad(<<"b", d>>, A64!PutBImm(pc, pc + d, auth)) : d \in Past(26)}
      \cup {Bad(<<"bl", d>>, A64!PutBlImm(pc, pc + d, auth)) : d \in Past(26)}
      \cup {One(<<"br", r.n>>, A64!PutBrReg(r, auth), Decoded(IF auth THEN "braaz" ELSE "br", <<r>>)) : r \in SomeX}
      \cup {One(<<"blr", r.n>>, A64!PutBlrReg(r, auth), Decoded(IF auth THEN "blraaz" ELSE "blr", <<r>>)) : r \in SomeX}
      \cup {One(<<"ret", r.n>>, A64!PutRetReg(r), Decoded("ret", <<r>>)) : r \in SomeX}
      \cup {Bad(<<"br", 1>>, A64!PutBrReg(W(1), auth)), Bad(<<"blr", 1>>, A64!PutBlrReg(W(1), auth)),
            Bad(<<"ret", 1>>, A64!PutRetReg(W(1)))}
      \cup {One(<<"cbx", op, r, d>>, A64!PutCbxRegImm(op, r, pc, pc + d),
                DecodedTo(IF op = 0 THEN "cbz" ELSE "cbnz", <<r>>, pc + d)) :
              op \in {0, 1}, r \in {A64!X(30), W(1)}, d \in Ends(19)}
      \cup {Bad(<<"cbx", d>>, A64!PutCbxRegImm(0, A64!X(1), pc, pc + d)) : d \in Past(19)}
      \cup {One(<<"tbx", op, bit, d>>, A64!PutTbxRegImmImm(op, A64!X(30), bit, pc, pc + d),
                [DecodedTo(IF op = 0 THEN "tbz" ELSE "tbnz",
                           <<IF bit >= 32 THEN A64!X(30) ELSE W(30)>>, pc + d) EXCEPT !.n = bit]) :
              op \in {0, 1}, bit \in {0, 31, 32, 63}, d \in Ends(14)}
      \cup {Bad(<<"tbx", d>>, A64!PutTbxRegImmImm(0, A64!X(1), 1, pc, pc + d)) : d \in Past(14)}
      \cup {Bad(<<"tbx-bit", 64>>, A64!PutTbxRegImmImm(0, A64!X(1), 64, pc, pc + 4)),
            Bad(<<"tbx-bit", 32>>, A64!PutTbxRegImmImm(0, W(1), 32, pc, pc + 4))}

A64Literals(pc) ==
  {One(<<"ldr_ptr", r, d>>, A64!PutLdrRegPtr(r, IF r.bank = "x" THEN 64 ELSE 32, pc, pc + d),
       DecodedTo("ldr", <<r>>, pc + d)) : r \in {A64!X(17), W(29)}, d \in Ends(19)}
  \cup {Bad(<<"ldr_ptr", d>>, A64!PutLdrRegPtr(A64!X(1), 64, pc, pc + d)) : d \in Past(19)}
  \cup {Bad(<<"ldr_ptr", 64>>, A64!PutLdrRegPtr(W(1), 64, pc, pc + 4)),
        Bad(<<"ldr_ptr", 32>>, A64!PutLdrRegPtr(A64!X(1), 32, pc, pc + 4)),
        Bad(<<"ldr_u32", 64>>, A64!PutLdrRegU32(A64!X(1), <<7>>)),
        Bad(<<"ldr_u64", 32>>, A64!PutLdrRegU64(W(1), <<7, 8>>)),
        One(<<"zero", 64>>, A64!PutLdrRegU64(A64!X(3), <<0, 0>>), Decoded("mov", <<A64!X(3), A64!XZR>>)),
        One(<<"zero", 32>>, A64!PutLdrRegU32(W(3), <<0>>), Decoded("mov", <<W(3), A64!WZR>>))}
  \cup {Loading(<<"ldr_u32", r>>, A64!PutLdrRegU32(r, <<7>>), DecodedTo("ldr", <<r>>, 0), <<7>>) :
          r \in {W(29), Reg("s", 8)}}
  \cup {Loading(<<"ldr_u64", r>>, A64!PutLdrRegU64(r, <<7, 8>>), DecodedTo("ldr", <<r>>, 0), <<7, 8>>) :
          r \in {A64!X(30), Reg("d", 9)}}

\* Loads and stores: what their offset may be is in words of the operand.
A64Pairs ==
  {One(<<"push", p>>, A64!PutPushRegReg(p[1], p[2]),
       IF p[1].bank \in {"x", "w"} THEN Decoded("stp", p \o <<A64!XZR>>)
       ELSE Other(<<XNum(p[1]), XNum(p[2]), A64!XZR>>)) : p \in Alike \cup LikeVectors}
  \cup {One(<<"pop", p>>, A64!PutPopRegReg(p[1], p[2]), Other(<<XNum(p[1]), XNum(p[2]), A64!XZR>>)) :
          p \in Alike \cup LikeVectors}
  \cup {One(<<"stp", a, offset, mode>>,
            A64!PutLoadStorePair(FALSE, a, [a EXCEPT !.n = 3], A64!X(5), offset * (A64!Width(a) \div 8), mode),
            IF a.bank = "q" THEN Other(<<XNum(a), A64!X(3), A64!X(5)>>)
            ELSE Decoded("stp", <<a, [a EXCEPT !.n = 3], A64!X(5)>>)) :
          a \in {A64!X(30), W(1), Reg("q", 31)}, offset \in {-64, 1, 63}, mode \in 1..3}
  \cup {One(<<"ldp", a, offset, mode>>,
            A64!PutLoadStorePair(TRUE, a, [a EXCEPT !.n = 3], A64!X(5), offset * (A64!Width(a) \div 8), mode),
            Other(<<XNum(a), A64!X(3), A64!X(5)>>)) :
          a \in {A64!X(30), W(1), Reg("q", 31)}, offset \in {-64, 1, 63}, mode \in 1..3}
  \cup {Bad(<<"push", p>>, A64!PutPushRegReg(p[1], p[2])) : p \in Mixed}
  \cup {Bad(<<"pop", p>>, A64!PutPopRegReg(p[1], p[2])) : p \in Mixed}
A64Transfers ==
  LET Bytes(r) == A64!Width(r) \div 8
      Uses(r, base) == Other(<<XNum(r), XNum(base)>>)
  IN  {One(<<"ldr", r, base, offset>>, A64!PutLdrRegRegOffset(r, base, offset * Bytes(r)), Uses(r, base)) :
         r \in SomeGp \cup SomeVectors, base \in {A64!X(5), A64!SP}, offset \in {0, 1, 4095}}
      \cup {One(<<"str", r, base, offset>>, A64!PutStrRegRegOffset(r, base, offset * Bytes(r)), Uses(r, base)) :
              r \in SomeGp \cup SomeVectors, base \in {A64!X(5), A64!SP}, offset \in {0, 1, 4095}}
      \cup {One(<<"ldr_mode", r, offset, mode>>, A64!PutLdrRegRegOffsetMode(r, A64!X(5), offset, mode), Uses(r, A64!X(5))) :
              r \in {A64!X(30), Reg("q", 31)}, offset \in {-256, 8, 255}, mode \in {1, 3}}
      \cup {One(<<"str_mode", r, offset, mode>>, A64!PutStrRegRegOffsetMode(r, A64!X(5), offset, mode), Uses(r, A64!X(5))) :
              r \in {A64!X(30), Reg("q", 31)}, offset \in {-256, 8, 255}, mode \in {1, 3}}
      \cup {One(<<"ldrsw", offset>>, A64!PutLdrswRegRegOffset(A64!X(1), A64!X(2), offset), Uses(A64!X(1), A64!X(2))) :
              offset \in {0, 4, 16380}}
      \cup {Bad(<<"ldrsw", offset>>, A64!PutLdrswRegRegOffset(A64!X(1), A64!X(2), offset)) : offset \in {16384, -4}}
      \cup {Bad(<<"ldr_mode", offset>>, A64!PutLdrRegRegOffsetMode(A64!X(1), A64!X(2), offset, 1)) : offset \in {-257, 256}}
      \cup {Bad(<<"str_mode", offset>>, A64!PutStrRegRegOffsetMode(A64!X(1), A64!X(2), offset, 3)) : offset \in {-257, 256}}
      \cup {Bad(<<"ldr", 32>>, A64!PutLdrRegRegOffset(A64!X(1), W(2), 0)), Bad(<<"str", 32>>, A64!PutStrRegRegOffset(A64!X(1), W(2), 0)),
            Bad(<<"ldrsw", 32>>, A64!PutLdrswRegRegOffset(W(1), A64!X(2), 0))}

A64Arithmetic(pc, auth) ==
  {One(<<"mov", p>>, A64!PutMovRegReg(p[1], p[2]), Decoded("mov", p)) : p \in Alike}
  \cup {One(<<"mov_sp", p>>, A64!PutMovRegReg(p[1], p[2]), Other(<<XNum(p[1]), XNum(p[2])>>)) :
          p \in {<<A64!X(1), A64!SP>>, <<A64!SP, A64!X(1)>>}}
  \cup {One(<<"add_imm", p, n>>, A64!PutAddRegRegImm(p[1], p[2], n), Other(<<XNum(p[1]), XNum(p[2])>>)) :
          p \in Alike, n \in {0, 1, 4095}}
  \cup {One(<<"sub_imm", p, n>>, A64!PutSubRegRegImm(p[1], p[2], n), Other(<<XNum(p[1]), XNum(p[2])>>)) :
          p \in Alike, n \in {0, 1, 4095}}
  \cup {One(<<"add", p>>, A64!PutAddRegRegReg(p[1], p[2], p[2]), Other(<<XNum(p[1]), XNum(p[2])>>)) : p \in Alike}
  \cup {One(<<"sub", p>>, A64!PutSubRegRegReg(p[1], p[2], p[2]), Other(<<XNum(p[1]), XNum(p[2])>>)) : p \in Alike}
  \cup {One(<<"eor", p>>, A64!PutEorRegRegReg(p[1], p[1], p[2]), Other(<<XNum(p[1]), XNum(p[2])>>)) : p \in Alike}
  \cup {One(<<"lsl", p, n>>, A64!PutLslRegImm(p[1], p[2], n), Other(<<XNum(p[1]), XNum(p[2])>>)) : p \in Alike, n \in {1, 31}}
  \cup {One(<<"lsr", p, n>>, A64!PutLsrRegImm(p[1], p[2], n), Other(<<XNum(p[1]), XNum(p[2])>>)) : p \in Alike, n \in {1, 31}}
  \cup {One(<<"uxtw", n>>, A64!PutUxtwRegReg(A64!X(n), W(3)), Other(<<A64!X(n), A64!X(3)>>)) : n \in {0, 30}}
  \cup {One(<<"nzcv", op, n>>, IF op = 0 THEN A64!PutMovRegNzcv(A64!X(n)) ELSE A64!PutMovNzcvReg(A64!X(n)), Other(<<A64!X(n)>>)) :
          op \in {0, 1}, n \in {0, 30}}
  \cup {One(<<"mrs", system>>, A64!PutMrs(A64!X(9), system), Other(<<A64!X(9)>>)) : system \in {1, 2^15 - 1}}
  \cup {One(<<"brk", n>>, A64!PutBrkImm(n), Other(<<>>)) : n \in {0, 1, 65535}}
  \cup {One(<<"xpaci", 3>>, A64!PutXpaciReg(A64!X(3)), Other(<<A64!X(3)>>)), One(<<"nop", 0>>, A64!PutNop, Other(<<>>))}
  \cup {One(<<"adrp", pages>>,
            A64!PutAdrpRegAddress(A64!X(16), pc, AlignedDown(pc, 4096) + 4096 * pages + Signature(auth), auth),
            DecodedTo("adrp", <<A64!X(16)>>, pc \div 4096 + pages)) : pages \in {0, 1, -65536, 65535}}
  \cup {Bad(<<"adrp", 1>>, A64!PutAdrpRegAddress(A64!X(1), pc, AlignedDown(pc, 4096) + 1, auth)),
        Bad(<<"adrp", 32>>, A64!PutAdrpRegAddress(W(1), pc, AlignedDown(pc, 4096), auth)),
        Bad(<<"mrs", 32>>, A64!PutMrs(A64!X(1), 2^15)), Bad(<<"mrs", 33>>, A64!PutMrs(W(1), 1)),
        Bad(<<"lsl", 64>>, A64!PutLslRegImm(A64!X(1), A64!X(2), 64)),
        Bad(<<"lsl", 32>>, A64!PutLslRegImm(W(1), W(2), 32)), Bad(<<"lsr", 32>>, A64!PutLsrRegImm(W(1), W(2), 32)),
        Bad(<<"uxtw", 64>>, A64!PutUxtwRegReg(A64!X(1), A64!X(2)))}
  \cup UNION {{Bad(<<"mov", p>>, A64!PutMovRegReg(p[1], p[2])), Bad(<<"add", p>>, A64!PutAddRegRegReg(p[1], p[1], p[2])),
               Bad(<<"add_imm", p>>, A64!PutAddRegRegImm(p[1], p[2], 1)), Bad(<<"sub", p>>, A64!PutSubRegRegReg(p[1], p[1], p[2])),
               Bad(<<"sub_imm", p>>, A64!PutSubRegRegImm(p[1], p[2], 1)), Bad(<<"eor", p>>, A64!PutEorRegRegReg(p[1], p[1], p[2])),
               Bad(<<"cmp", p>>, A64!PutCmpRegReg(p[1], p[2]))} : p \in Mixed}

\* For UsedRegistersAreReported: an instruction whose second operand is X16 or X17,
\* the registers a trampoline would use.
BusyCases(a, pc) ==
  {One(<<"cmp", r>>, A64!PutCmpRegReg(A64!X(1), r), Other(<<A64!X(1), r>>)) : r \in {A64!X(16), A64!X(17)}}

\* Runs of ones of each element size, and values that are not such runs.
Runs == {[size |-> size, from |-> from, ones |-> ones] : size \in {2, 8, 32, 64}, from \in {0, 1, 30, 63}, ones \in {1, 5, 31, 63}}
Repeated(run) == {i \in 0..63 : (i - run.from) % run.size < run.ones}
Masks64 == {Repeated(run) : run \in {r \in Runs : r.from < r.size}}
Masks ==
  Masks64 \cup {value \cap (0..31) : value \in Masks64}
    \cup {{0, 2}, {0, 1, 5}, {0, 31, 40}, {3, 4, 7, 8, 63}, (0..63) \ {3, 5}}
A64Masked ==
  {Case(<<"and", 64, value>>, A64!PutAndRegRegImm(A64!X(1), A64!X(2), value),
        IF A64!PutAndRegRegImm(A64!X(1), A64!X(2), value) = <<>> THEN <<>> ELSE <<Reading(Other(<<A64!X(1), A64!X(2)>>))>>) :
     value \in Masks}
  \cup {Case(<<"tst", 32, value>>, A64!PutTstRegImm(W(3), value),
             IF A64!PutTstRegImm(W(3), value) = <<>> THEN <<>> ELSE <<Reading(Other(<<A64!X(3)>>))>>) : value \in Masks}

A64Cases(pc, auth) ==
  A64Branches(pc, auth) \cup A64Literals(pc) \cup A64Pairs \cup A64Transfers
    \cup A64Arithmetic(pc, auth) \cup A64Masked

-----------------------------------------------------------------------------
(* A32 *)

R(n) == Reg("r", n)
SomeR == {R(0), R(7), R(8), R(12), R(14)}
Cond(cc, insn) == [insn EXCEPT !.cc = cc]
Unconditional(insn) == Cond(15, insn)
A32Ends(pc) == {pc + 8 + 4 * d : d \in {0, -2, 2^23 - 1, -(2^23)}}
A32Past(pc) == {pc + 8 + 4 * d : d \in {2^23, -(2^23) - 1}}
Listed(list) == D32!Listed(list)
\* Vectors pushed together, and those that are not one range of one kind.
VectorRanges ==
  {<<Reg("q", 0), Reg("q", 7)>>, <<Reg("q", 8), Reg("q", 15)>>, <<Reg("d", 3), Reg("d", 3)>>,
   <<Reg("d", 17), Reg("d", 31)>>, <<Reg("s", 0), Reg("s", 3)>>}
NoRanges ==
  {<<Reg("q", 0), Reg("q", 8)>>, <<Reg("d", 3), Reg("d", 2)>>, <<Reg("d", 0), Reg("d", 16)>>, <<Reg("s", 0), Reg("d", 3)>>}
Lists == {{0}, {4, 14}, 0..12, {0, 15}, {8, 15}}

A32Branches(pc) ==
  {One(<<"b", cc, target>>, A32!PutArmBCondImm(cc, pc, target), Cond(cc, DecodedTo("b", <<>>, target))) :
     cc \in 1..15, target \in A32Ends(pc)}
  \cup {One(<<"bl", target>>, A32!PutArmBlImm(pc, target), Unconditional(DecodedTo("bl", <<>>, target))) : target \in A32Ends(pc)}
  \cup {One(<<"blx", target>>, A32!PutArmBlxImm(pc, target), DecodedTo("blx", <<>>, target)) :
          target \in A32Ends(pc) \cup {a + 2 : a \in A32Ends(pc)}}
  \cup UNION {{Bad(<<"b", target>>, A32!PutArmBCondImm(15, pc, target)), Bad(<<"bl", target>>, A32!PutArmBlImm(pc, target)),
               Bad(<<"blx", target>>, A32!PutArmBlxImm(pc, target))} : target \in A32Past(pc)}
  \cup {One(<<"bx", r>>, A32!PutArmBxReg(r), Unconditional(Decoded("bx", <<r>>))) : r \in SomeR}
  \cup {One(<<"blx_reg", r>>, A32!PutArmCallReg(r, TRUE), Unconditional(Decoded("blx", <<r>>))) : r \in SomeR}
  \cup {Good(<<"bl_reg", r>>, A32!PutArmCallReg(r, FALSE),
             <<Unconditional(Decoded("add", <<R(14), R(15)>>)), Unconditional(Decoded("add", <<R(15), r>>))>>) : r \in SomeR}
  \cup {One(<<"ret", 0>>, A32!PutArmRet, Unconditional(Decoded("mov", <<R(15), R(14)>>)))}

\* An addition or subtraction of a number, byte by byte.
Summed(id, r, value, bytes) ==
  [i \in 1..bytes |->
     [Unconditional(Decoded(id, <<r, r>>))
        EXCEPT !.bits = Field(value, 32, 0) \cap ((8 * (bytes - i))..(8 * (bytes - i) + 7))]]
A32Arithmetic ==
  {One(<<"add_imm", r, n>>, A32!PutArmAddRegRegImm(r, R(3), n),
       [Unconditional(Decoded("add", <<r, R(3)>>)) EXCEPT !.bits = Field(n, 8, 0)]) : r \in SomeR, n \in {1, 255}}
  \cup {One(<<"sub_imm", r, n>>, A32!PutArmSubRegRegImm(r, R(3), n),
            [Unconditional(Decoded("sub", <<r, R(3)>>)) EXCEPT !.bits = Field(n, 8, 0)]) : r \in SomeR, n \in {1, 255}}
  \cup {One(<<"mov", r>>, A32!PutArmMovRegReg(r, R(3)), Unconditional(Decoded("add", <<r, R(3)>>))) : r \in SomeR}
  \cup {Good(<<"mov-self", r>>, A32!PutArmMovRegReg(r, r), <<>>) : r \in SomeR}
  \cup {Good(<<"add_u16", n>>, A32!PutArmAddRegU16(R(13), n), Summed("add", R(13), n, 2)) : n \in {\h0101, \hffff}}
  \cup {Good(<<"sub_u16", n>>, A32!PutArmSubRegU16(R(13), n), Summed("sub", R(13), n, 2)) : n \in {\h0101, \hffff}}
  \cup {Good(<<"add_u32", n>>, A32!PutArmAddRegU32(R(2), n), Summed("add", R(2), n, 4)) : n \in {\h01020304, \h7fffffff}}
  \cup {Good(<<"sub_u32", n>>, A32!PutArmSubRegU32(R(2), n), Summed("sub", R(2), n, 4)) : n \in {\h01020304, \h7fffffff}}
  \cup {One(<<"mov_shift", shift, n>>, A32!PutArmMovRegRegShift(R(1), R(2), shift, n),
            [Unconditional(Decoded("mov", <<R(1), R(2)>>)) EXCEPT !.n = n, !.bits = kind]) :
          <<shift, kind>> \in {<<"lsl", {}>>, <<"lsr", {5}>>, <<"asr", {6}>>, <<"ror", {5, 6}>>}, n \in {1, 31}}
  \cup {One(<<"add_shift", n>>, A32!PutArmAddRegRegRegShift(R(1), R(2), R(3), "lsl", n),
            [Unconditional(Decoded("add", <<R(1), R(2), R(3)>>)) EXCEPT !.n = n]) : n \in {1, 31}}
  \cup {One(<<"add", r>>, A32!PutArmAddRegRegReg(R(1), r, R(2)), Unconditional(Decoded("add", <<R(1), r, R(2)>>))) : r \in SomeR}
  \cup {One(<<"sub", r>>, A32!PutArmSubRegRegReg(R(1), r, R(2)), Unconditional(Decoded("sub", <<R(1), r, R(2)>>))) : r \in SomeR}
  \cup {One(<<"rsb", r, n>>, A32!PutArmRsbRegRegImm(r, R(2), n), Decoded("other", <<>>)) : r \in SomeR, n \in {0, 255}}
  \cup {One(<<"ands", r, n>>, A32!PutArmAndsRegRegImm(r, R(2), n), Decoded("other", <<>>)) : r \in SomeR, n \in {1, 255}}
  \cup {One(<<"cmp", r, n>>, A32!PutArmCmpRegImm(r, n), Decoded("other", <<>>)) : r \in SomeR, n \in {0, 255}}
  \cup {One(<<"msr", r>>, A32!PutArmMovCpsrReg(r), Decoded("other", <<>>)) : r \in SomeR}
  \cup {One(<<"brk", n>>, A32!PutArmBrkImm(n), Decoded("other", <<>>)) : n \in {0, 17, 4095}}
  \cup {One(<<"nop", 0>>, A32!PutArmNop, Unconditional(Decoded("mov", <<R(0), R(0)>>)))}

A32Transfers ==
  {One(<<"ldr", cc, base, offset>>, A32!PutArmLdrCondRegRegOffset(cc, R(7), base, offset),
       Cond(cc, [Decoded("ldr", <<R(7), base>>) EXCEPT !.n = offset])) :
     cc \in {1, 15}, base \in {R(1), R(13), R(15)}, offset \in {0, 4095, -4095}}
  \cup {One(<<"str", cc, base, offset>>, A32!PutArmStrCondRegRegOffset(cc, R(7), base, offset), Decoded("other", <<>>)) :
          cc \in {1, 15}, base \in {R(1), R(13)}, offset \in {0, 4095, -4095}}
  \cup UNION {{Bad(<<"ldr", offset>>, A32!PutArmLdrCondRegRegOffset(15, R(7), R(1), offset)),
               Bad(<<"str", offset>>, A32!PutArmStrCondRegRegOffset(15, R(7), R(1), offset))} : offset \in {4096, -4096}}
  \cup {One(<<"ldmia", list>>, A32!PutArmLdmia(R(1), list), Unconditional(Decoded("ldm", <<R(1)>> \o Listed(list)))) : list \in Lists}
  \cup {One(<<"ldmia_wb", list>>, A32!PutArmLdmiaWb(R(1), list), Unconditional(Decoded("ldm", <<R(1)>> \o Listed(list)))) : list \in Lists}
  \cup {One(<<"push", list>>, A32!PutArmPushRegs({R(n) : n \in list}), Unconditional(Decoded("push", <<>>))) : list \in Lists}
  \cup {One(<<"pop", list>>, A32!PutArmPopRegs({R(n) : n \in list}), Unconditional(Decoded("pop", Listed(list)))) : list \in Lists}
  \cup {One(<<"vpush", v>>, A32!PutArmVpushRange(v[1], v[2]), Decoded("other", <<>>)) : v \in VectorRanges}
  \cup {One(<<"vpop", v>>, A32!PutArmVpopRange(v[1], v[2]), Decoded("other", <<>>)) : v \in VectorRanges}
  \cup {Bad(<<"vpush", v>>, A32!PutArmVpushRange(v[1], v[2])) : v \in NoRanges}
  \cup {Bad(<<"vpop", v>>, A32!PutArmVpopRange(v[1], v[2])) : v \in NoRanges}
  \cup {Loading(<<"ldr_u32", r>>, A32!PutArmLdrU32(r, <<7>>), Unconditional(Decoded("ldr", <<r, R(15)>>)), <<7>>) : r \in SomeR}

\* Through the stack, with and without a return address.
A32Far(target) ==
  <<Reading(Unconditional(Decoded("push", <<>>))),
    [Reading(Unconditional(Decoded("ldr", <<R(0), R(15)>>))) EXCEPT !.loads = <<target>>],
    Reading(Decoded("other", <<>>)), Reading(Unconditional(Decoded("pop", <<R(0), R(15)>>)))>>
A32Calls(pc) ==
  {One(<<"call", target>>, A32!PutArmCallAddressBody(pc, target), Unconditional(DecodedTo("bl", <<>>, target))) : target \in {pc + 4, pc + 2^25 - 4}}
  \cup {One(<<"call", target>>, A32!PutArmCallAddressBody(pc, target), DecodedTo("blx", <<>>, target - 1)) : target \in {pc + 5, pc + 7, pc + 2^25 - 3}}
  \cup {Case(<<"call", target>>, A32!PutArmCallAddressBody(pc, target),
             <<Reading([Unconditional(Decoded("add", <<R(14), R(15)>>)) EXCEPT !.bits = {2, 3}])>> \o A32Far(target)) :
          target \in {pc + 2^26, 5}}
  \cup {Case(<<"branch", target>>, A32!PutArmBranchAddress(pc, target), A32Far(target)) : target \in {pc + 2^26 + 1, 5}}
  \cup {One(<<"branch", target>>, A32!PutArmBranchAddress(pc, target), Unconditional(DecodedTo("b", <<>>, target))) : target \in {pc + 4, pc + 2^25 - 4}}
A32Cases(pc) == A32Branches(pc) \cup A32Arithmetic \cup A32Transfers \cup A32Calls(pc)

-----------------------------------------------------------------------------
(* Thumb *)

T32Ends(pc, reach) == {pc + 4 + d : d \in {0, -4, reach - 4, -reach}}
Nothing == Decoded("other", <<>>)
Low == {R(0), R(7)}
\* The narrow forms that would set the flags come behind an IT AL.
Quiet(ask, pieces) == Good(ask, pieces, <<Cond(15, Decoded("it", <<>>)), Nothing>>)
\* One instruction put as two halfwords.
Split(ask, pieces, insn) == Case(ask, pieces, <<[Reading(insn) EXCEPT !.tail = -2], Part>>)

\* The decoder does not know a BLX of a register.
T32Branches(pc) ==
  {One(<<"b", target>>, T32!PutThumbBImm(pc, target), DecodedTo("b", <<>>, target)) : target \in T32Ends(pc, 2^24)}
  \cup {One(<<"bl", target>>, T32!PutThumbBlImm(pc, target + 1), DecodedTo("bl", <<>>, target)) : target \in T32Ends(pc, 2^24)}
  \cup {One(<<"blx", target>>, T32!PutThumbBlxImm(pc, target), DecodedTo("blx", <<>>, target)) : target \in T32Ends(pc, 2^24)}
  \cup {One(<<"bx", r>>, T32!PutThumbBxReg(r), Decoded("bx", <<r>>)) : r \in SomeR}
  \cup {One(<<"blx_reg", r>>, T32!PutThumbBlxReg(r), Nothing) : r \in SomeR}
  \cup {One(<<"b", target>>, T32!PutThumbBranchAddress(pc, target + 1), DecodedTo("b", <<>>, target)) :
          target \in {pc + 4, pc + 2^23 - 2, pc - 2^23 + 2}}
  \cup {Case(<<"branch", target>>, T32!PutThumbBranchAddress(pc, target),
             <<Reading(Decoded("push", <<>>)),
               [Reading(Decoded("ldr", <<R(0), R(15)>>)) EXCEPT !.loads = <<target + 1>>],
               Reading(Nothing), Reading(Decoded("pop", <<R(0), R(15)>>))>>) : target \in {pc + 2^23, 4}}

T32Transfers ==
  {One(<<"push", list>>, T32!PutThumbPushRegs({R(n) : n \in list}), Decoded("push", <<>>)) : list \in {{0}, 0..7, {3, 14}, {14}}}
  \cup {Split(<<"push", list>>, T32!PutThumbPushRegs({R(n) : n \in list}), Decoded("push", <<>>)) : list \in {{8}, 0..12, {4, 12, 14}}}
  \cup {One(<<"pop", list>>, T32!PutThumbPopRegs({R(n) : n \in list}), Decoded("pop", Listed(list))) : list \in {{0}, 0..7, {3, 15}, {15}}}
  \cup {Split(<<"pop", list>>, T32!PutThumbPopRegs({R(n) : n \in list}), Decoded("pop", Listed(list))) : list \in {{8}, 0..12, {4, 12, 15}}}
  \cup {Bad(<<"push", {}>>, T32!PutThumbPushRegs({})), Bad(<<"pop", {}>>, T32!PutThumbPopRegs({}))}
  \cup {One(<<"vpush", v>>, T32!PutThumbVpushRange(v[1], v[2]), Decoded("other", <<>>)) : v \in {<<Reg("q", 0), Reg("q", 7)>>}}
  \cup {One(<<"vpop", v>>, T32!PutThumbVpopRange(v[1], v[2]), Decoded("other", <<>>)) : v \in {<<Reg("q", 0), Reg("q", 7)>>}}
  \cup {Bad(<<"vpush", v>>, T32!PutThumbVpushRange(v[1], v[2])) : v \in NoRanges}
  \cup {Loading(<<"ldr_u32", r>>, T32!PutThumbLdrU32(r, <<7>>), Decoded("ldr", <<r, R(15)>>), <<7>>) : r \in SomeR}
  \cup {One(<<"ldr", r, base, offset>>, T32!PutThumbLdrRegRegOffset(r, base, offset), Nothing) :
          r \in {R(7), R(8)}, base \in {R(1), R(12), R(13)}, offset \in {0, 124, 128, 1020, 1024, 4095}}
  \cup {One(<<"str", r, base, offset>>, T32!PutThumbStrRegRegOffset(r, base, offset), Nothing) :
          r \in {R(7), R(8)}, base \in {R(1), R(12), R(13)}, offset \in {0, 124, 128, 1020, 1024, 4095}}
  \cup {Bad(<<"ldr", 4096>>, T32!PutThumbLdrRegRegOffset(R(1), R(2), 4096)), Bad(<<"str", 4096>>, T32!PutThumbStrRegRegOffset(R(1), R(2), 4096))}
  \cup {One(<<"ldrb", r>>, T32!PutThumbLdrbRegReg(r, R(2)), Nothing) : r \in Low}
  \cup {One(<<"ldrh", r>>, T32!PutThumbLdrhRegReg(r, R(2)), Nothing) : r \in Low}
  \cup {One(<<"vldr", v, offset>>, T32!PutThumbVldr(v, R(15), offset), [Decoded("vldr", <<v, R(15)>>) EXCEPT !.n = offset]) :
          v \in {Reg("s", 0), Reg("s", 31), Reg("s", 2), Reg("d", 1), Reg("d", 16), Reg("d", 31)}, offset \in {0, 1020, -1020}}
  \cup {Bad(<<"vldr", offset>>, T32!PutThumbVldr(Reg("d", 1), R(15), offset)) : offset \in {1024, -1024}}
  \cup {One(<<"ldmia", list>>, T32!PutThumbLdmia(R(1), list), Decoded("ldm", <<R(1)>> \o Listed(list))) : list \in Lists}
  \cup {One(<<"ldmia_sp", list>>, T32!PutThumbLdmia(R(13), list), Decoded("pop", Listed(list))) : list \in {{0, 15}, {3}, {4, 14}}}

T32Arithmetic ==
  {One(<<"mov", p>>, T32!PutThumbMovRegReg(p[1], p[2]), Decoded("mov", p)) : p \in {<<R(8), R(0)>>, <<R(0), R(14)>>, <<R(12), R(13)>>}}
  \cup {Quiet(<<"mov", p>>, T32!PutThumbMovRegReg(p[1], p[2])) : p \in {<<R(7), R(0)>>, <<R(0), R(7)>>}}
  \cup {Quiet(<<"mov_u8", r, n>>, T32!PutThumbMovRegU8(r, n)) : r \in Low, n \in {0, 255}}
  \cup {Split(<<"mov_cpsr", r>>, T32!PutThumbMovRegCpsr(r), Nothing) : r \in Low}
  \cup {Split(<<"cpsr_mov", r>>, T32!PutThumbMovCpsrReg(r), Nothing) : r \in Low}
  \cup {One(<<"mrs", r>>, T32!PutThumbMrs(r), Nothing) : r \in {R(1), R(12)}}
  \cup {One(<<"msr", r>>, T32!PutThumbMsr(r), Nothing) : r \in {R(1), R(12)}}
  \cup {Bad(<<"mrs", 13>>, T32!PutThumbMrs(R(13))), Bad(<<"msr", 13>>, T32!PutThumbMsr(R(13)))}
  \cup {One(<<"add_sp", n>>, T32!PutThumbAddRegImm(R(13), n), Nothing) : n \in {0, 4, 508}}
  \cup {One(<<"sub_sp", n>>, T32!PutThumbSubRegImm(R(13), n), Nothing) : n \in {4, 508}}
  \cup {Bad(<<"add_sp", n>>, T32!PutThumbAddRegImm(R(13), n)) : n \in {2, -2}}
  \cup {Quiet(<<"add_imm", r, n>>, T32!PutThumbAddRegImm(r, n)) : r \in Low, n \in {1, 255}}
  \cup {Quiet(<<"sub_imm", r, n>>, T32!PutThumbSubRegImm(r, n)) : r \in Low, n \in {1, 255}}
  \cup {Bad(<<"add_imm", 8>>, T32!PutThumbAddRegImm(R(8), 1))}
  \cup {One(<<"add", p>>, T32!PutThumbAddRegRegReg(p[1], p[1], p[2]), Nothing) : p \in {<<R(0), R(8)>>, <<R(8), R(0)>>, <<R(1), R(2)>>}}
  \cup {Quiet(<<"add_other", r>>, T32!PutThumbAddRegRegReg(r, R(1), R(2))) : r \in Low}
  \cup {One(<<"adr", r, n>>, T32!PutThumbAddRegRegImm(r, R(15), n), [Decoded("adr", <<r>>) EXCEPT !.n = n]) : r \in Low, n \in {0, 1020}}
  \cup {One(<<"add_sp_to", r, n>>, T32!PutThumbAddRegRegImm(r, R(13), n), Nothing) : r \in Low, n \in {0, 1020}}
  \cup {Bad(<<"add_sp_to", n>>, T32!PutThumbAddRegRegImm(R(1), R(13), n)) : n \in {-4, 2}}
  \cup {Quiet(<<"add_three", r, n>>, T32!PutThumbAddRegRegImm(r, R(1), n)) : r \in Low, n \in {1, 7}}
  \cup {Quiet(<<"sub_three", r, n>>, T32!PutThumbSubRegRegImm(r, R(1), n)) : r \in Low, n \in {1, 7}}
  \cup {Bad(<<"add_three", n>>, T32!PutThumbAddRegRegImm(R(2), R(1), n)) : n \in {8, -8}}
  \cup {Quiet(<<"sub", r>>, T32!PutThumbSubRegRegReg(r, R(1), R(2))) : r \in Low}
  \cup {One(<<"and", r, n>>, T32!PutThumbAndRegRegImm(r, R(2), n), Nothing) : r \in SomeR, n \in {0, 255}}
  \cup {One(<<"or", r, n>>, T32!PutThumbOrRegRegImm(r, R(2), n), Nothing) : r \in SomeR, n \in {0, 255}}
  \cup {Bad(<<"and", 256>>, T32!PutThumbAndRegRegImm(R(1), R(2), 256)), Bad(<<"or", -1>>, T32!PutThumbOrRegRegImm(R(1), R(2), -1))}
  \cup {One(<<"lsls", r, n>>, T32!PutThumbLsls(r, R(2), n), Nothing) : r \in Low, n \in {1, 31}}
  \cup {Quiet(<<"lsl", r, n>>, T32!PutThumbLsl(r, R(2), n)) : r \in Low, n \in {1, 31}}
  \cup {One(<<"lsrs", r, n>>, T32!PutThumbLsrs(r, R(2), n), Nothing) : r \in Low, n \in {1, 31}}
  \cup {Bad(<<"lsls", n>>, T32!PutThumbLsls(R(1), R(2), n)) : n \in {0, 32}}
  \cup {Bad(<<"lsrs", n>>, T32!PutThumbLsrs(R(1), R(2), n)) : n \in {0, 32}}
  \cup {One(<<"cmp", r, n>>, T32!PutThumbCmpRegImm(r, n), Nothing) : r \in Low, n \in {0, 255}}
  \cup {One(<<"nop", 0>>, T32!PutThumbNop, Nothing), One(<<"breakpoint", 1>>, T32!PutThumbBreakpoint(TRUE), Nothing)}
  \cup {Good(<<"breakpoint", 0>>, T32!PutThumbBreakpoint(FALSE), <<Nothing, Decoded("bx", <<R(14)>>)>>)}
  \cup {One(<<"bkpt", n>>, T32!PutThumbBkptImm(n), Nothing) : n \in {1, 255}}
T32Cases(pc) == T32Branches(pc) \cup T32Transfers \cup T32Arithmetic

-----------------------------------------------------------------------------
(* x86 *)

XInsn(id, operand, target) == [id |-> id, cc |-> 0, operand |-> operand, target |-> target]
On(n) == [DX86!NoOperand EXCEPT !.reg = Reg("r", n)]
Mem(n, disp) == [DX86!NoOperand EXCEPT !.base = Reg("r", n), !.disp = disp]
\* An address: from the end of the instruction, or absolute.
Named4(t, end, address) ==
  IF t.mode64 THEN [DX86!NoOperand EXCEPT !.base = Reg("rip", 0), !.disp = address - end]
  ELSE [DX86!NoOperand EXCEPT !.disp = address]
Plain(id) == XInsn(id, DX86!NoOperand, -1)
Of(id, n) == XInsn(id, On(n), -1)
At(id, n, disp) == XInsn(id, Mem(n, disp), -1)
To(id, target) == XInsn(id, DX86!NoOperand, target)
JccTo(cc, target) == [To("jcc", target) EXCEPT !.cc = cc]

Full(t) == IF t.mode64 THEN "r" ELSE "e"
GpNumbers(t) == IF t.mode64 THEN {0, 1, 4, 5, 8, 12, 13} ELSE {0, 1, 4, 5}
Pointers(t) == {Reg(bank, n) : bank \in {Full(t), "x"}, n \in GpNumbers(t)}
Wide(t) == {Reg(Full(t), n) : n \in GpNumbers(t)}
Operands(t) == Wide(t) \cup {Reg("e", n) : n \in GpNumbers(t)}
\* R12 as a base needs a SIB byte which these requests do not put.
Bases(t) == {r \in Wide(t) : r.n # 12}
PlainBases(t) == {r \in Bases(t) : r.n # 13}
Offsets == {0, 127, -128, 128, -129}
\* Registers that this target does not have, and one of the wrong width.
NotHere(t) == IF t.mode64 THEN {} ELSE {Reg("r", 0), Reg("e", 8)}
NotPointers(t) == IF t.mode64 THEN {Reg("e", 0)} ELSE {Reg("r", 0), Reg("e", 8)}
OutOfReach == <<4096, 1>>

X86Branches(t, pc) ==
  LET T(n) == <<n, 0>>
      Shorts == {pc + 2, pc + 129, pc - 126}
      Nears == {pc + 130, pc - 127, pc + 2^24}
      Hinted(hint) == IF hint = "none" THEN 0 ELSE 1
  IN  {One(<<"jmp", a>>, X86!PutX86JmpAddress(t, pc, T(a)), To("jmp", a)) : a \in Shorts \cup Nears}
      \cup {One(<<"jmp", a>>, X86!PutX86ShortJmp(pc, T(a)), To("jmp", a)) : a \in Shorts}
      \cup {Bad(<<"short_jmp", a>>, X86!PutX86ShortJmp(pc, T(a))) : a \in Nears}
      \cup {One(<<"jmp", a>>, X86!PutX86NearJmp(t, pc, T(a)), To("jmp", a)) : a \in Nears}
      \cup {One(<<"near_jmp", a>>, X86!PutX86NearJmp(t, pc, T(a)), To("jmp", a)) : a \in Shorts}
      \cup {One(<<"call", a>>, X86!PutX86CallAddress(t, pc, T(a)), To("call", a)) : a \in Shorts \cup Nears}
      \cup {One(<<"jcc", cc, a, hint>>, X86!PutX86JccShort(pc, cc, T(a + Hinted(hint)), hint), JccTo(cc, a + Hinted(hint))) :
              cc \in 0..15, a \in Shorts, hint \in {"none", "likely", "unlikely"}}
      \cup {One(<<"jcc_near", cc, a, hint>>, X86!PutX86JccNear(pc, cc, T(a), hint), JccTo(cc, a)) :
              cc \in 0..15, a \in Nears, hint \in {"none", "likely", "unlikely"}}
      \cup {One(<<"call_indirect", a>>, X86!PutX86CallIndirect(t, pc, T(a)), XInsn("call", Named4(t, pc + 6, a), -1)) : a \in Nears}
      \cup {Case(<<"jmp_near_ptr", a>>, X86!PutX86JmpNearPtr(t, pc, T(a)),
                 <<[Reading(XInsn("jmp", Named4(t, pc + 6, a), -1)) EXCEPT !.tail = 2]>>) : a \in Nears}
      \cup {Case(<<"jmp_reg", r.n>>, X86!PutX86JmpReg(t, r), <<[Reading(Of("jmp", r.n)) EXCEPT !.tail = 2]>>) : r \in Pointers(t)}
      \cup {Case(<<"jmp_reg_ptr", r>>, X86!PutX86JmpRegPtr(t, r), <<[Reading(At("jmp", r.n, 0)) EXCEPT !.tail = 2]>>) :
              r \in {s \in Wide(t) : s.n \notin {5, 12, 13}}}
      \cup {Case(<<"jmp_reg_offset_ptr", r, d>>, X86!PutX86JmpRegOffsetPtr(t, r, d), <<[Reading(At("jmp", r.n, d)) EXCEPT !.tail = 2]>>) :
              r \in Wide(t), d \in Offsets}
      \cup {One(<<"call_reg", r.n>>, X86!PutX86CallReg(t, r), Of("call", r.n)) : r \in Pointers(t)}
      \cup {One(<<"call_reg_offset_ptr", r, d>>, X86!PutX86CallRegOffsetPtr(t, r, d), At("call", r.n, d)) : r \in Wide(t), d \in Offsets}
      \cup UNION {{Bad(<<"jmp_reg", r.n, r.bank>>, X86!PutX86JmpReg(t, r)), Bad(<<"jmp_reg_ptr", r>>, X86!PutX86JmpRegPtr(t, r)),
                   Bad(<<"jmp_reg_offset_ptr", r>>, X86!PutX86JmpRegOffsetPtr(t, r, 8)), Bad(<<"call_reg", r.n, r.bank>>, X86!PutX86CallReg(t, r)),
                   Bad(<<"call_reg_offset_ptr", r>>, X86!PutX86CallRegOffsetPtr(t, r, 8))} : r \in NotPointers(t)}
      \cup {Bad(<<"short_jmp-far", 0>>, X86!PutX86ShortJmp(pc, OutOfReach)), Bad(<<"jmp_near_ptr-far", 0>>, X86!PutX86JmpNearPtr(t, pc, OutOfReach)),
            One(<<"ret", 0>>, X86!PutX86Ret, Plain("ret"))}
      \cup (IF t.mode64
            THEN {Case(<<"jmp-far", 0>>, X86!PutX86JmpAddress(t, pc, OutOfReach),
                       <<[Reading(XInsn("jmp", Named4(t, 0, 0), -1)) EXCEPT !.loads = OutOfReach, !.tail = 10]>>),
                  Case(<<"near_jmp-far", 0>>, X86!PutX86NearJmp(t, pc, OutOfReach),
                       <<[Reading(XInsn("jmp", Named4(t, 0, 0), -1)) EXCEPT !.loads = OutOfReach, !.tail = 10]>>),
                  Case(<<"call-far", 0>>, X86!PutX86CallAddress(t, pc, OutOfReach),
                       <<[Reading(XInsn("call", Named4(t, 0, 0), -1)) EXCEPT !.loads = OutOfReach],
                         Reading(To("jmp", pc + 16)), Part, Part, Part>>),
                  Bad(<<"call_indirect-far", 0>>, X86!PutX86CallIndirect(t, pc, OutOfReach))}
            ELSE {Bad(<<"jmp-far", 0>>, X86!PutX86JmpAddress(t, pc, OutOfReach)), Bad(<<"near_jmp-far", 0>>, X86!PutX86NearJmp(t, pc, OutOfReach)),
                  Bad(<<"call-far", 0>>, X86!PutX86CallAddress(t, pc, OutOfReach))})

\* With a full immediate, the accumulator is named by the opcode.
Accumulates(id, r) == IF r.n = 0 THEN Plain(id) ELSE Of(id, r.n)
Pairs(t) == {p \in Operands(t) \X Operands(t) : p[1].bank = p[2].bank}
Small == {0, 127, -128}
Large == {128, -129, 2^30}
X86Arithmetic(t, pc) ==
  {One(<<"add_imm", r, n>>, X86!PutX86AddRegImm(t, r, n), Of("add", r.n)) : r \in Operands(t), n \in Small}
  \cup {One(<<"add_imm", r, n>>, X86!PutX86AddRegImm(t, r, n), Accumulates("add", r)) : r \in Operands(t), n \in Large}
  \cup {One(<<"sub_imm", r, n>>, X86!PutX86SubRegImm(t, r, n), Of("sub", r.n)) : r \in Operands(t), n \in Small}
  \cup {One(<<"sub_imm", r, n>>, X86!PutX86SubRegImm(t, r, n), Accumulates("sub", r)) : r \in Operands(t), n \in Large}
  \cup {One(<<"and_u32", r, n>>, X86!PutX86AndRegU32(t, r, n), Accumulates("and", r)) : r \in Operands(t), n \in Large}
  \cup {One(<<"cmp_i32", r, n>>, X86!PutX86CmpRegI32(t, r, n), Accumulates("cmp", r)) : r \in Operands(t), n \in Large}
  \cup {One(<<"shl", r, n>>, X86!PutX86ShlRegU8(t, r, n), Of("other", r.n)) : r \in Operands(t), n \in {1, 31}}
  \cup {One(<<"add", p>>, X86!PutX86AddRegReg(t, p[1], p[2]), Of("add", p[1].n)) : p \in Pairs(t)}
  \cup {One(<<"mov", p>>, X86!PutX86MovRegReg(t, p[1], p[2]), Of("mov", p[1].n)) : p \in Pairs(t)}
  \cup {One(<<"test", p>>, X86!PutX86TestRegReg(t, p[1], p[2]), Of("test", p[1].n)) : p \in Pairs(t)}
  \cup {One(<<"and", p>>, X86!PutX86AndRegReg(t, p[1], p[2]), Of("and", p[1].n)) : p \in {q \in Pairs(t) : q[1].n < 8 /\ q[2].n < 8}}
  \cup {One(<<"inc", r>>, X86!PutX86IncReg(t, r), Of("inc", r.n)) : r \in Operands(t)}
  \cup {One(<<"dec", r>>, X86!PutX86DecReg(t, r), Of("dec", r.n)) : r \in Operands(t)}
  \cup {One(<<"xadd", dst, src>>, X86!PutX86LockXaddRegPtrReg(t, dst, src), At("other", dst.n, 0)) :
          dst \in PlainBases(t), src \in {r \in Operands(t) : ~X86!Extended(r)}}
  \cup {One(<<"lock_inc", a>>, X86!PutX86LockIncImm32Ptr(t, pc, <<a, 0>>), XInsn("inc", Named4(t, pc + 7, a), -1)) : a \in {pc + 4096}}
  \cup {One(<<"lock_dec", a>>, X86!PutX86LockDecImm32Ptr(t, pc, <<a, 0>>), XInsn("dec", Named4(t, pc + 7, a), -1)) : a \in {pc + 4096}}
  \cup {Bad(<<"lock_inc", 0>>, X86!PutX86LockIncImm32Ptr(t, pc, OutOfReach)), Bad(<<"lock_dec", 0>>, X86!PutX86LockDecImm32Ptr(t, pc, OutOfReach))}
  \cup UNION {{Bad(<<"add_imm", r>>, X86!PutX86AddRegImm(t, r, 1)), Bad(<<"sub_imm", r>>, X86!PutX86SubRegImm(t, r, 1)),
               Bad(<<"and_u32", r>>, X86!PutX86AndRegU32(t, r, 1)), Bad(<<"cmp_i32", r>>, X86!PutX86CmpRegI32(t, r, 1)),
               Bad(<<"shl", r>>, X86!PutX86ShlRegU8(t, r, 1)), Bad(<<"add", r>>, X86!PutX86AddRegReg(t, r, r)),
               Bad(<<"mov", r>>, X86!PutX86MovRegReg(t, r, r)), Bad(<<"test", r>>, X86!PutX86TestRegReg(t, r, r)),
               Bad(<<"inc", r>>, X86!PutX86IncReg(t, r)), Bad(<<"dec", r>>, X86!PutX86DecReg(t, r))} : r \in NotHere(t)}
  \cup (IF t.mode64
        THEN {Bad(<<"add-32">>, X86!PutX86AddRegReg(t, Reg("r", 1), Reg("e", 1))), Bad(<<"mov-32">>, X86!PutX86MovRegReg(t, Reg("r", 1), Reg("e", 1))),
              Bad(<<"test-32">>, X86!PutX86TestRegReg(t, Reg("e", 1), Reg("r", 1))),
              Bad(<<"and-8">>, X86!PutX86AndRegReg(t, Reg("r", 1), Reg("r", 8)))}
        ELSE {})

X86Moves(t, pc) ==
  LET T == <<pc + 4096, 0>>
      Low8(r) == ~X86!Extended(r)
  IN  {One(<<"mov_u32", r, n>>, X86!PutX86MovRegU32(t, r, n), Plain("mov")) : r \in {o \in Operands(t) : o.bank = "e"}, n \in {0, 2^30}}
      \cup {One(<<"mov_address", r>>, X86!PutX86MovRegAddress(t, r, <<7, 8>>), Plain("mov")) : r \in Wide(t)}
      \cup {One(<<"mov_to_u32", r, d>>, X86!PutX86MovRegOffsetPtrU32(t, r, d, 7), At("mov", r.n, d)) : r \in {o \in Wide(t) : Low8(o)}, d \in Offsets}
      \cup {One(<<"mov_to", r, d, src>>, X86!PutX86MovRegOffsetPtrReg(t, r, d, src), At("mov", r.n, d)) : r \in PlainBases(t), d \in Offsets, src \in Operands(t)}
      \cup {One(<<"mov_from", r, d, dst>>, X86!PutX86MovRegRegOffsetPtr(t, dst, r, d), At("mov", r.n, d)) : r \in Bases(t), d \in Offsets, dst \in Operands(t)}
      \cup {One(<<"mov_near", dst>>, X86!PutX86MovRegNearPtr(t, pc, dst, T),
                IF ~t.mode64 /\ dst.n = 0 THEN Plain("mov")
                ELSE XInsn("mov", Named4(t, pc + (IF dst.bank = "r" THEN 7 ELSE 6), pc + 4096), -1)) : dst \in {o \in Operands(t) : Low8(o)}}
      \cup {One(<<"near_mov", src>>, X86!PutX86MovNearPtrReg(t, pc, T, src),
                IF ~t.mode64 /\ src.n = 0 THEN Plain("mov")
                ELSE XInsn("mov", Named4(t, pc + (IF src.bank = "r" THEN 7 ELSE 6), pc + 4096), -1)) : src \in {o \in Operands(t) : Low8(o)}}
      \cup {One(<<"lea", dst, r, d>>, X86!PutX86LeaRegRegOffset(t, dst, r, d), At("lea", r.n, d)) :
              dst \in {o \in Operands(t) : Low8(o)}, r \in {o \in Operands(t) : Low8(o)}, d \in Offsets}
      \cup {One(<<"xchg", left, r>>, X86!PutX86XchgRegRegPtr(t, left, r), At("other", r.n, 0)) : left \in Operands(t), r \in {o \in Wide(t) : Low8(o)}}
      \cup {One(<<"cmp_at", r, d, b>>, X86!PutX86CmpRegOffsetPtrReg(t, r, d, b), At("cmp", r.n, d)) : r \in Wide(t), d \in Offsets, b \in Wide(t)}
      \cup {Bad(<<"mov_u32", 64>>, X86!PutX86MovRegU32(t, Reg("r", 1), 7)), Bad(<<"lea", 8>>, X86!PutX86LeaRegRegOffset(t, Reg("e", 8), Reg("e", 1), 0))}
      \cup UNION {{Bad(<<"mov_to", r>>, X86!PutX86MovRegOffsetPtrReg(t, r, 8, Reg("e", 1))), Bad(<<"mov_to_u32", r>>, X86!PutX86MovRegOffsetPtrU32(t, r, 8, 7)),
                   Bad(<<"mov_from", r>>, X86!PutX86MovRegRegOffsetPtr(t, Reg("e", 1), r, 8)), Bad(<<"xchg", r>>, X86!PutX86XchgRegRegPtr(t, Reg("e", 1), r))} :
                    r \in NotPointers(t) \ {Reg("e", 8)}}

X86Stack(t, pc) ==
  LET Pushed == <<Plain("push"), Plain("push"), Plain("push"), Plain("push")>>
  IN  {One(<<"push_u32", n>>, X86!PutX86PushU32(n), Plain("push")) : n \in {0, 2^30}}
      \cup {One(<<"push_near", 0>>, X86!PutX86PushNearPtr(t, pc, <<pc + 4096, 0>>), XInsn("push", Named4(t, pc + 6, pc + 4096), -1)),
            Bad(<<"push_near", 1>>, X86!PutX86PushNearPtr(t, pc, OutOfReach))}
      \cup {One(<<"push", r>>, X86!PutX86PushReg(t, r), Plain("push")) : r \in Wide(t)}
      \cup {One(<<"pop", r>>, X86!PutX86PopReg(t, r), Plain("pop")) : r \in Wide(t)}
      \cup UNION {{Bad(<<"push", r>>, X86!PutX86PushReg(t, r)), Bad(<<"pop", r>>, X86!PutX86PopReg(t, r)),
                   Bad(<<"fxsave", r>>, X86!PutX86FxsaveRegPtr(t, r)), Bad(<<"fxrstor", r>>, X86!PutX86FxrstorRegPtr(t, r))} : r \in NotPointers(t)}
      \cup {One(<<"fxsave", r>>, X86!PutX86FxsaveRegPtr(t, r), At("other", r.n, 0)) : r \in {o \in Wide(t) : o.n \notin {5, 13}}}
      \cup {One(<<"fxrstor", r>>, X86!PutX86FxrstorRegPtr(t, r), At("other", r.n, 0)) : r \in {o \in Wide(t) : o.n \notin {5, 13}}}
      \cup {One(<<"pushfx", 0>>, X86!PutX86Pushfx, Plain("other")), One(<<"popfx", 0>>, X86!PutX86Popfx, Plain("other")),
            One(<<"cld", 0>>, X86!PutX86Cld, Plain("other")), One(<<"nop", 0>>, X86!PutX86Nop, Plain("nop")),
            One(<<"int3", 0>>, X86!PutX86Breakpoint, Plain("int3"))}
      \cup {Good(<<"pushax", 0>>, X86!PutX86Pushax(t),
                 IF ~t.mode64 THEN <<Plain("other")>>
                 ELSE Pushed \o <<At("lea", 4, 32), Plain("push"), At("mov", 4, 32)>>
                        \o [i \in 1..11 |-> Plain("push")]),
            Good(<<"popax", 0>>, X86!PutX86Popax(t),
                 IF ~t.mode64 THEN <<Plain("other")>>
                 ELSE [i \in 1..11 |-> Plain("pop")] \o <<At("lea", 4, 8)>> \o [i \in 1..4 |-> Plain("pop")])}

\* Padding of n bytes: no-operations, all but the last of nine bytes.
Padding(n) ==
  LET operand(size) == IF size < 3 THEN DX86!NoOperand ELSE [DX86!NoOperand EXCEPT !.base = Reg("r", 0), !.index = IF size \in {5, 6, 8, 9} THEN Reg("r", 0) ELSE NoReg]
  IN  Good(<<"padding", n>>, X86!PutX86NopPadding(n),
           [i \in 1..((n + 8) \div 9) |-> XInsn("nop", operand(IF i <= n \div 9 THEN 9 ELSE n % 9), -1)])
X86Cases(t, pc) ==
  X86Branches(t, pc) \cup X86Arithmetic(t, pc) \cup X86Moves(t, pc) \cup X86Stack(t, pc)
    \cup {Padding(n) : n \in 2..20}

-----------------------------------------------------------------------------
MCCases(a, pc) ==
  CASE a.isa = "arm64" -> A64Cases(pc, a.auth)
    [] a.isa = "arm" -> A32Cases(pc)
    [] a.isa = "thumb" -> T32Cases(pc)
    [] a.isa = "x86" -> X86Cases(a, pc)

\* Branches to a label, and loads of literals, two of them with one value.
MCThreads(a, pc) ==
  CASE a.isa = "arm64" ->
         IF a.auth THEN {}
         ELSE {ToLabel(<<"b">>, A64!PutBLabel(L1), DecodedTo("b", <<>>, 0), L1),
               ToLabel(<<"bl">>, A64!PutBlLabel(L1), DecodedTo("bl", <<>>, 0), L1),
               ToLabel(<<"b_cond">>, A64!PutBCondLabel(2, L1), Cond(2, DecodedTo("b", <<>>, 0)), L1),
               ToLabel(<<"cbz">>, A64!PutCbxRegLabel(0, A64!X(3), L1), DecodedTo("cbz", <<A64!X(3)>>, 0), L1),
               ToLabel(<<"tbnz">>, A64!PutTbxRegImmLabel(1, A64!X(3), 33, L1), [DecodedTo("tbnz", <<A64!X(3)>>, 0) EXCEPT !.n = 33], L1),
               Loading(<<"x">>, A64!PutLdrRegU64(A64!X(2), <<7, 8>>), DecodedTo("ldr", <<A64!X(2)>>, 0), <<7, 8>>),
               Loading(<<"d">>, A64!PutLdrRegU64(Reg("d", 2), <<7, 9>>), DecodedTo("ldr", <<Reg("d", 2)>>, 0), <<7, 9>>)}
              \* A short literal waits for less long than the pool's limit has it.
              \cup (IF pc < Start + 2^15 THEN {}
                    ELSE {Loading(<<"w">>, A64!PutLdrRegU32(W(1), <<8>>), DecodedTo("ldr", <<W(1)>>, 0), <<8>>)})
    [] a.isa = "arm" ->
         {ToLabel(<<"b">>, A32!PutArmBCondLabel(15, L1), Unconditional(DecodedTo("b", <<>>, 0)), L1),
          ToLabel(<<"b_cond">>, A32!PutArmBCondLabel(2, L1), Cond(2, DecodedTo("b", <<>>, 0)), L1),
          ToLabel(<<"bl">>, A32!PutArmBlLabel(L1), Unconditional(DecodedTo("bl", <<>>, 0)), L1),
          Loading(<<"7">>, A32!PutArmLdrU32(R(2), <<7>>), Unconditional(Decoded("ldr", <<R(2), R(15)>>)), <<7>>),
          Loading(<<"8">>, A32!PutArmLdrU32(R(3), <<8>>), Unconditional(Decoded("ldr", <<R(3), R(15)>>)), <<8>>)}
    [] a.isa = "thumb" ->
         {ToLabel(<<"b">>, T32!PutThumbBLabel(L1), DecodedTo("b", <<>>, 0), L1),
          ToLabel(<<"b_wide">>, T32!PutThumbBLabelWide(L1), DecodedTo("b", <<>>, 0), L1),
          ToLabel(<<"bl">>, T32!PutThumbBlLabel(L1), DecodedTo("bl", <<>>, 0), L1),
          ToLabel(<<"b_cond">>, T32!PutThumbBCondLabel(2, L1), Cond(2, DecodedTo("b", <<>>, 0)), L1),
          ToLabel(<<"b_cond_wide">>, T32!PutThumbBCondLabelWide(2, L1), Cond(2, DecodedTo("b", <<>>, 0)), L1),
          ToLabel(<<"cbz">>, T32!PutThumbCbzRegLabel(R(3), L1), DecodedTo("cbz", <<R(3)>>, 0), L1),
          ToLabel(<<"cbnz">>, T32!PutThumbCbnzRegLabel(R(3), L1), DecodedTo("cbnz", <<R(3)>>, 0), L1),
          Loading(<<"7">>, T32!PutThumbLdrU32(R(2), <<7>>), Decoded("ldr", <<R(2), R(15)>>), <<7>>),
          Loading(<<"8">>, T32!PutThumbLdrU32(R(8), <<8 + 2^20>>), Decoded("ldr", <<R(8), R(15)>>), <<8 + 2^20>>)}
    [] a.isa = "x86" ->
         {ToLabel(<<"jmp">>, X86!PutX86JmpShortLabel(pc, L1), To("jmp", 0), L1),
          ToLabel(<<"jcc">>, X86!PutX86JccShortLabel(pc, 3, L1, "likely"), JccTo(3, 0), L1),
          ToLabel(<<"jcc_near">>, X86!PutX86JccNearLabel(pc, 4, L1, "none"), JccTo(4, 0), L1),
          ToLabel(<<"call">>, X86!PutX86CallNearLabel(pc, L1), To("call", 0), L1),
          ToLabel(<<"call_indirect">>, X86!PutX86CallIndirectLabel(a, pc, L1), XInsn("call", [Named4(a, 0, 0) EXCEPT !.disp = 0], -1), L1)}
MCLabels(a) == {L1}
\* As far as each kind of label reaches, and as literals may wait.
MCGaps(a) ==
  CASE a.isa = "arm64" -> {32756, 2^20 - 24}
    [] a.isa = "arm" -> {4076, 4080, 4088}
    [] a.isa = "thumb" -> {2, 120, 250, 1010}
    [] a.isa = "x86" -> {122, 128}

Given(n) == [kind |-> "register", literal |-> <<>>, reg |-> n]
Literal(n) == [kind |-> "address", literal |-> n, reg |-> NoReg]
Source(bank, n) == Given(Reg(bank, n))
\* Registers that no argument before them needs.
ArmArgs(count) ==
  SubSeq(<<Literal(<<7>>), Source("r", 5), Source("r", 2), Source("r", 12), Literal(<<8>>), Source("r", 6),
           Source("r", 7), Literal(<<9>>)>>, 1, count)
X86Args(a, count) ==
  LET bank == IF a.mode64 THEN "r" ELSE "e"
  IN  SubSeq(<<Literal(<<7, 0>>), Source(bank, 5), Source("e", 3), Source(bank, IF a.windows THEN 9 ELSE 1), Literal(<<8, 0>>),
               Source(bank, IF a.mode64 THEN 12 ELSE 7), Literal(<<9, 0>>), Source(bank, 0), Literal(<<10, 0>>)>>, 1, count)
MCCalls(a) ==
  CASE a.isa = "arm64" ->
         LET args == <<Literal(<<7, 8>>), Source("x", 9), Source("w", 10), Source("x", 3), Literal(<<0, 0>>),
                       Source("x", 29), Literal(<<9, 10>>), Source("w", 12)>>
         IN  {Called(A64!CallAddressWithArguments(func, SubSeq(args, 1, count)), SubSeq(args, 1, count), TRUE, 0) :
                func \in {Start + 4096, 5 * 2^26}, count \in 0..8}
             \cup {Called(A64!CallRegWithArguments(A64!X(20), SubSeq(args, 1, count)), SubSeq(args, 1, count), TRUE, 0) : count \in 0..8}
    [] a.isa = "arm" ->
         {Called(A32!ArmCallAddressWithArguments(func, ArmArgs(count)), ArmArgs(count), TRUE, 0) :
            func \in {Start + 4096, Start + 4097, 2^30 + 1}, count \in 0..8}
         \cup {Called(A32!ArmCallRegWithArguments(R(9), ArmArgs(count)), ArmArgs(count), TRUE, 0) : count \in 0..8}
    [] a.isa = "thumb" ->
         {Called(T32!ThumbCallAddressWithArguments(Start + 4097, ArmArgs(count)), ArmArgs(count), TRUE, 0) : count \in 0..8}
         \cup {Called(T32!ThumbCallRegWithArguments(R(9), ArmArgs(count)), ArmArgs(count), TRUE, 0) : count \in 0..8}
    [] a.isa = "x86" ->
         LET Pops(capi, count) == IF a.mode64 \/ capi THEN 0 ELSE 4 * count
         IN  {Called(X86!PutX86CallAddressWithArguments(a, capi, func, X86Args(a, count)), X86Args(a, count), FALSE, Pops(capi, count)) :
                func \in {<<Start, 0>>} \cup (IF a.mode64 THEN {OutOfReach} ELSE {}), capi \in BOOLEAN, count \in 0..9}
             \cup {Called(X86!PutX86CallAddressWithAlignedArguments(a, capi, <<Start, 0>>, X86Args(a, count)), X86Args(a, count), TRUE, Pops(capi, count)) :
                      capi \in BOOLEAN, count \in 0..9}
             \cup {Called(X86!PutX86CallRegWithArguments(a, capi, Reg(Full(a), 3), X86Args(a, count)), X86Args(a, count), FALSE, Pops(capi, count)) :
                      capi \in BOOLEAN, count \in 0..9}
             \cup {Called(X86!PutX86CallRegOffsetPtrWithArguments(a, capi, Reg(Full(a), 3), 8, X86Args(a, count)), X86Args(a, count), FALSE, Pops(capi, count)) :
                      capi \in BOOLEAN, count \in 0..9}
=============================================================================
