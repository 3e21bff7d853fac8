------------------------- MODULE Relocation_proofs -------------------------
(***************************************************************************)
(* That a redirect is entered at its beginning only: no branch the search  *)
(* can find and no call that is under way leads into it, whatever the code *)
(* and the processor.                                                      *)
(***************************************************************************)
EXTENDS Relocation, WellFoundedInduction, TLAPS

-----------------------------------------------------------------------------
(* Least elements, and induction with them *)

LEMMA NatSetHasLeast ==
  ASSUME NEW T, T \subseteq Nat, T # {}
  PROVE  \E x \in T : \A y \in T : x <= y
<1>1. PICK x \in T : \A y \in T : ~ (<<y, x>> \in OpToRel(<, Nat))
  BY NatLessThanWellFounded, WFMin
<1>2. ASSUME NEW y \in T, y < x
      PROVE  FALSE
  <2> DEFINE pair == <<y, x>>
  <2>1. pair \in Nat \X Nat /\ pair[1] = y /\ pair[2] = x
    OBVIOUS
  <2>2. pair[1] < pair[2]
    BY <1>2, <2>1
  <2> HIDE DEF pair
  <2>3. pair \in OpToRel(<, Nat)
    BY <2>1, <2>2, Zenon DEF OpToRel
  <2> QED
    BY <1>1, <2>3 DEF pair
<1>3. \A y \in T : ~(y < x)
  BY <1>2
<1> QED
  BY <1>3

LEMMA MinIsLeast ==
  ASSUME NEW T, T \subseteq Nat, T # {}
  PROVE  Min(T) \in T /\ \A y \in T : Min(T) <= y
  BY NatSetHasLeast DEF Min

LEMMA SetOfAllNumbers ==
  ASSUME NEW S, 0 \in S, \A k \in Nat : k \in S => k + 1 \in S
  PROVE  \A k \in Nat : k \in S
<1>1. SUFFICES ASSUME Nat \ S # {} PROVE FALSE
  OBVIOUS
<1>2. PICK x \in Nat \ S : \A y \in Nat \ S : x <= y
  BY <1>1, NatSetHasLeast
<1> QED
  BY <1>2

-----------------------------------------------------------------------------
(* Code laid out *)

\* An instruction ends where the next begins or before.
LEMMA CodeIsInOrder ==
  ASSUME NEW code, NEW from \in Nat, LaidOut(code, from)
  PROVE  /\ Len(code) \in Nat /\ DOMAIN code = 1 .. Len(code)
         /\ \A k \in DOMAIN code : code[k].size \in Nat \ {0}
         /\ \A k \in DOMAIN code : code[k].at \in Nat /\ from <= code[k].at
         /\ \A j, k \in DOMAIN code : j < k => EndOf(code[j]) <= code[k].at
<1>1. Len(code) \in Nat /\ DOMAIN code = 1 .. Len(code)
  BY DEF LaidOut
<1>2. \A k \in DOMAIN code : code[k].size \in Nat \ {0}
  BY DEF LaidOut
<1>3. \A k \in DOMAIN code : k # 1 => code[k].at = code[k - 1].at + code[k - 1].size
  BY DEF LaidOut, EndOf
<1>4. 1 \in DOMAIN code => code[1].at = from
  BY DEF LaidOut
<1> DEFINE Placed ==
             {k \in Nat : k \in DOMAIN code =>
                /\ code[k].at \in Nat /\ from <= code[k].at
                /\ \A j \in DOMAIN code :
                     j < k => code[j].at \in Nat /\ code[j].at + code[j].size <= code[k].at}
<1>5. 0 \in Placed
  BY <1>1
<1>6. ASSUME NEW k \in Nat, k \in Placed
      PROVE  k + 1 \in Placed
  <2>1. SUFFICES ASSUME k + 1 \in DOMAIN code
                 PROVE  /\ code[k + 1].at \in Nat /\ from <= code[k + 1].at
                        /\ \A j \in DOMAIN code :
                             j < k + 1 => /\ code[j].at \in Nat
                                          /\ code[j].at + code[j].size <= code[k + 1].at
    OBVIOUS
  <2>2. CASE k = 0
    <3>1. \A j \in DOMAIN code : ~(j < k + 1)
      BY <1>1, <2>2
    <3> QED
      BY <1>4, <2>1, <2>2, <3>1
  <2>3. CASE k # 0
    <3>1. k \in DOMAIN code /\ k + 1 # 1 /\ (k + 1) - 1 = k
      BY <1>1, <2>1, <2>3
    <3>2. code[k + 1].at = code[k].at + code[k].size
      BY <1>3, <2>1, <3>1
    <3>3. /\ code[k].at \in Nat /\ from <= code[k].at
          /\ \A j \in DOMAIN code :
               j < k => code[j].at \in Nat /\ code[j].at + code[j].size <= code[k].at
      BY <1>6, <3>1
    <3>4. code[k].size \in Nat
      BY <1>2, <3>1
    <3>5. code[k + 1].at \in Nat /\ from <= code[k + 1].at
      BY <3>2, <3>3, <3>4
    <3>6. ASSUME NEW j \in DOMAIN code, j < k + 1
          PROVE  code[j].at \in Nat /\ code[j].at + code[j].size <= code[k + 1].at
      <4>1. CASE j = k
        BY <3>2, <3>3, <3>5, <4>1
      <4>2. CASE j < k
        <5>1. code[j].at \in Nat /\ code[j].at + code[j].size <= code[k].at
          BY <3>3, <4>2
        <5>2. code[j].size \in Nat
          BY <1>2
        <5> QED
          BY <3>2, <3>3, <3>4, <5>1, <5>2
      <4> QED
        BY <1>1, <3>6, <4>1, <4>2
    <3> QED
      BY <3>5, <3>6
  <2> QED
    BY <2>2, <2>3
<1> HIDE DEF Placed
<1>7. \A k \in Nat : k \in Placed
  BY <1>5, <1>6, SetOfAllNumbers
<1>8. \A k \in DOMAIN code : k \in Nat
  BY <1>1
<1> QED
  BY <1>1, <1>2, <1>7, <1>8 DEF Placed, EndOf
-----------------------------------------------------------------------------
(* The invariants *)

TypeInv ==
  /\ input \in Inputs
  /\ checked \subseteq Int
  /\ phase \in {"search", "next"} => MaySearch
  /\ chunks \in Seq(Range(chunks))
  /\ phase \notin {"write", "done"} => chunks = <<>>
  /\ RelocationTypeOK

BytesTo(k) == EndOf(Code[k]) - input.from

\* What is found to be movable ends where the first that may be waited in does,
\* or before.
Matters == input.scenario = "online" /\ Arch # "arm"
NoneWaited(bytes) ==
  Matters => \A k \in DOMAIN Code : Waits(Code[k]) => bytes <= BytesTo(k)
ScanInv ==
  /\ phase \in {"scan", "scanned"} => n = ReadBytes /\ checked = {}
  /\ phase \in {"scan", "scanned"} /\ eoi => inpos > 0 /\ EndsInput(Code[inpos])
  /\ phase = "scan" /\ Matters => \A k \in 1 .. inpos : ~Waits(Code[k])
  /\ phase # "scan" => NoneWaited(n)

\* What the trampoline moves is what the redirect takes, and no more than the
\* rest of the last instruction.
MoveInv ==
  phase \in {"read", "write", "done"} =>
    /\ size # 0
    /\ ~input.force => size <= n
    /\ \A k \in 1 .. inpos : phase = "read" \/ k < inpos => BytesTo(k) < size

\* The instructions up to k can be read, and there is nothing else to read
\* behind one that ends the input.
ReadableTo(k) ==
  /\ k \in 0 .. Len(Code)
  /\ \A j \in 1 .. k : Code[j].id # "undecodable" /\ (j < k => ~EndsInput(Code[j]))
PaddingBehind(k) ==
  /\ Arch = "thumb" /\ k > 0 /\ EndsInput(Code[k])
  /\ k < Len(Code) /\ Code[k + 1].id = "nop"
CoveredBy(k, bytes) ==
  \/ bytes = 0
  \/ k > 0 /\ bytes <= BytesTo(k)
  \/ PaddingBehind(k) /\ bytes <= BytesTo(k) + 2
Covered(bytes) == \E k \in 0 .. Len(Code) : ReadableTo(k) /\ CoveredBy(k, bytes)
CoverInv ==
  /\ phase \in {"scan", "scanned", "read", "write", "done"} =>
       /\ ReadableTo(inpos)
       /\ eoi => inpos > 0 /\ EndsInput(Code[inpos])
       /\ ~eoi /\ inpos > 0 => ~EndsInput(Code[inpos])
  /\ phase \notin {"scan", "scanned"} => Covered(n)
  /\ phase \in {"write", "done"} /\ ~input.force => CoveredBy(inpos, size)

\* The search: from each of the addresses in D it has followed the instruction
\* there, and it comes to every address it has not.
Open == pending \cup {a \in {at} : phase = "search"}
Ahead(D, a) == a \in D \cup Open \/ a \notin Addresses
Explored(D) ==
  /\ Ahead(D, start)
  /\ Arch = "arm64" => \A a \in checked : Ahead(D, a)
  /\ \A i \in Range(Code) :
       i.at \in D =>
         /\ Follows(i) => Target(i) \in checked
         /\ ~EndsStretch(i) => Ahead(D, EndOf(i))
NoneBranchedInto(bytes) ==
  \A i \in Range(Code) :
    Branches(i) /\ i.at \in ReachableFrom(start) => ~Inside(Target(i), bytes)
SearchInv ==
  /\ phase \in {"search", "next"} =>
       /\ Arch = "thumb" => pending = {}
       /\ HasNotRunOut => \E D \in SUBSET Addresses : Explored(D)
  /\ phase \in {"plan", "read", "write", "done"} /\ SearchMade =>
       /\ MaySearch
       /\ HasNotRunOut => NoneBranchedInto(n)

RelocationInv == TypeInv /\ ScanInv /\ MoveInv /\ CoverInv /\ SearchInv
-----------------------------------------------------------------------------
(* What the operators return *)

LEMMA InputFacts ==
  ASSUME input \in Inputs
  PROVE  /\ Arch \in {"x86", "arm64", "arm", "thumb"}
         /\ input.from \in Nat /\ input.redirect \in Nat \ {0} /\ input.force \in BOOLEAN
         /\ Len(Code) \in Nat /\ DOMAIN Code = 1 .. Len(Code)
         /\ \A k \in DOMAIN Code : Code[k].size \in Nat \ {0}
         /\ \A k \in DOMAIN Code : Code[k].at \in Nat /\ input.from <= Code[k].at
         /\ \A j, k \in DOMAIN Code : j < k => EndOf(Code[j]) <= Code[k].at
         /\ Arch \in {"arm64", "thumb"} => \A k \in DOMAIN Code : Code[k].disp \in Int
<1>1. /\ input.arch \in {"x86", "arm64", "arm", "thumb"}
      /\ input.from \in Nat /\ input.redirect \in Nat \ {0} /\ input.force \in BOOLEAN
      /\ LaidOut(input.code, input.from)
      /\ input.arch \in {"arm64", "thumb"} => \A k \in DOMAIN input.code : input.code[k].disp \in Int
  BY InputsAreCode DEF RelocationAssumption
<1> QED
  BY <1>1, CodeIsInOrder DEF Arch, Code

\* The instruction that ends at a number of bytes.
LEMMA BytesFacts ==
  ASSUME input \in Inputs
  PROVE  /\ \A k \in DOMAIN Code : BytesTo(k) \in Nat \ {0}
         /\ \A j, k \in DOMAIN Code : j < k => BytesTo(j) < BytesTo(k)
         /\ inpos \in 0 .. Len(Code) => ReadBytes \in Nat
<1> USE InputFacts
<1>1. \A k \in DOMAIN Code : BytesTo(k) \in Nat \ {0}
  BY DEF BytesTo, EndOf
<1>2. ASSUME NEW j \in DOMAIN Code, NEW k \in DOMAIN Code, j < k
      PROVE  BytesTo(j) < BytesTo(k)
  <2>1. EndOf(Code[j]) <= Code[k].at
    BY <1>2
  <2>2. /\ Code[k].at \in Nat /\ Code[k].size \in Nat \ {0} /\ EndOf(Code[j]) \in Nat
        /\ input.from \in Nat
    BY DEF EndOf
  <2>3. EndOf(Code[j]) < EndOf(Code[k]) /\ EndOf(Code[k]) \in Nat
    <3> HIDE InputFacts
    <3> QED
      BY <2>1, <2>2 DEF EndOf
  <2>4. EndOf(Code[j]) - input.from < EndOf(Code[k]) - input.from
    <3> HIDE InputFacts
    <3> QED
      BY <2>2, <2>3
  <2> QED
    BY <2>4, Zenon DEF BytesTo
<1>3. ASSUME inpos \in 0 .. Len(Code)
      PROVE  ReadBytes \in Nat
  BY <1>1, <1>3 DEF ReadBytes, BytesTo
<1> QED
  BY <1>1, <1>2, <1>3

LEMMA AddressesAreUnique ==
  ASSUME input \in Inputs, NEW i \in Range(Code), NEW j \in Range(Code), i.at = j.at
  PROVE  i = j
<1>1. PICK k \in DOMAIN Code : i = Code[k]
  BY DEF Range
<1>2. PICK m \in DOMAIN Code : j = Code[m]
  BY DEF Range
<1>3. ~(k < m) /\ ~(m < k)
  BY <1>1, <1>2, InputFacts DEF EndOf
<1> QED
  BY <1>1, <1>2, <1>3, InputFacts

\* Of an instruction of the code.
LEMMA InstructionFacts ==
  ASSUME input \in Inputs, NEW i \in Range(Code)
  PROVE  /\ i.at \in Nat /\ input.from <= i.at /\ i.size \in Nat \ {0} /\ EndOf(i) \in Nat
         /\ Arch \in {"arm64", "thumb"} => i.disp \in Int
<1>1. PICK k \in DOMAIN Code : i = Code[k]
  BY DEF Range
<1> QED
  BY <1>1, InputFacts DEF EndOf

LEMMA TargetsAreNumbers ==
  ASSUME input \in Inputs, MaySearch, NEW i \in Range(Code), Follows(i)
  PROVE  Target(i) \in Int
<1>1. i.at \in Nat /\ i.disp \in Int
  BY InstructionFacts DEF MaySearch
<1>2. CASE Arch = "thumb"
  <2> DEFINE to == ThumbPcOf(i) + i.disp
  <2>1. to \in Int
    BY <1>1 DEF ThumbPcOf
  <2> HIDE DEF to
  <2>2. to - (to % 4) \in Int
    BY <2>1
  <2> QED
    BY <1>2, <2>1, <2>2 DEF Target, ThumbTarget, RoundedDown, to
<1>3. CASE Arch = "arm64"
  <2>1. i.id # "adrp"
    BY <1>3 DEF Follows, Arm64Follows
  <2> QED
    BY <1>1, <1>3, <2>1 DEF Target, Arm64Target
<1> QED
  BY <1>2, <1>3 DEF MaySearch

LEMMA LimitedByTargets ==
  ASSUME input \in Inputs, NEW targets, targets \subseteq Int, NEW bytes \in Nat
  PROVE  /\ LimitedBy(targets, bytes) \in Nat
         /\ LimitedBy(targets, bytes) <= bytes
         /\ \A a \in targets : ~Inside(a, LimitedBy(targets, bytes))
<1> DEFINE inside == {a \in targets : Inside(a, bytes)}
<1>1. input.from \in Nat
  BY InputFacts
<1>2. inside \subseteq Nat
  <2>1. ASSUME NEW a \in targets, Inside(a, bytes)
        PROVE  a \in Nat
    <3>1. a \in Int /\ input.from < a
      BY <2>1 DEF Inside
    <3> QED
      BY <1>1, <3>1
  <2> QED
    BY <2>1
<1>3. CASE inside = {}
  <2>1. LimitedBy(targets, bytes) = bytes
    BY <1>3 DEF LimitedBy
  <2>2. \A a \in targets : ~Inside(a, bytes)
    BY <1>3
  <2> QED
    BY <2>1, <2>2
<1>4. CASE inside # {}
  <2>1. Min(inside) \in inside /\ \A a \in inside : Min(inside) <= a
    BY <1>2, <1>4, MinIsLeast
  <2>2. LimitedBy(targets, bytes) = Min(inside) - input.from
    BY <1>4 DEF LimitedBy
  <2> DEFINE least == Min(inside)
  <2>3. least \in Nat /\ input.from < least /\ least < input.from + bytes
    BY <1>2, <2>1 DEF Inside
  <2>4. ASSUME NEW a \in targets, Inside(a, LimitedBy(targets, bytes))
        PROVE  FALSE
    <3>1. a < least /\ input.from < a
      BY <1>1, <2>2, <2>3, <2>4 DEF Inside
    <3>2. a \in inside
      BY <1>1, <2>3, <3>1 DEF Inside
    <3> QED
      BY <1>2, <2>1, <3>1, <3>2
  <2> QED
    BY <1>1, <2>2, <2>3, <2>4
<1> QED
  BY <1>3, <1>4

LEMMA SizeFits ==
  ASSUME input \in Inputs, NEW bytes \in Nat
  PROVE  /\ FullSize \in Nat \ {0}
         /\ SizeFor(bytes) \in Nat
         /\ ~input.force => SizeFor(bytes) <= bytes
<1> DEFINE fit == {k \in ShorterSizes : k <= bytes}
<1>1. FullSize \in Nat \ {0}
  BY InputFacts DEF FullSize
<1>2. ShorterSizes \subseteq {4, 6, 8}
  BY InputFacts DEF ShorterSizes
<1>3. CASE bytes >= FullSize \/ input.force
  BY <1>1, <1>3 DEF SizeFor
<1>4. CASE ~(bytes >= FullSize \/ input.force) /\ fit = {}
  BY <1>1, <1>4 DEF SizeFor
<1>5. CASE ~(bytes >= FullSize \/ input.force) /\ fit # {}
  <2>1. fit \subseteq {4, 6, 8}
    BY <1>2
  <2>2. \E x \in fit : \A y \in fit : x >= y
    <3>1. CASE 8 \in fit
      BY <2>1, <3>1
    <3>2. CASE 8 \notin fit /\ 6 \in fit
      BY <2>1, <3>2
    <3>3. CASE 8 \notin fit /\ 6 \notin fit
      <4>1. 4 \in fit
        BY <1>5, <2>1, <3>3
      <4> QED
        BY <2>1, <3>3, <4>1
    <3> QED
      BY <3>1, <3>2, <3>3
  <2>3. Max(fit) \in fit
    BY <2>2 DEF Max
  <2>4. SizeFor(bytes) = Max(fit)
    BY <1>5 DEF SizeFor
  <2> QED
    BY <1>1, <2>1, <2>3, <2>4
<1> QED
  BY <1>1, <1>3, <1>4, <1>5
LEMMA EndsInputIsBoolean ==
  ASSUME input \in Inputs, NEW i
  PROVE  EndsInput(i) \in BOOLEAN
<1>1. X86EndsInput(i) \in BOOLEAN /\ Arm64EndsInput(i) \in BOOLEAN
  BY DEF X86EndsInput, Arm64EndsInput
<1>2. ArmEndsInput(i) \in BOOLEAN
  <2>1. CASE i.id \in {"b", "bx"}
    BY <2>1 DEF ArmEndsInput, ArmIsUnconditional
  <2>2. CASE i.id \in {"ldr", "mov", "add", "sub", "pop", "ldm"}
    BY <2>2 DEF ArmEndsInput
  <2>3. CASE i.id \notin {"b", "bx", "ldr", "mov", "add", "sub", "pop", "ldm"}
    BY <2>3 DEF ArmEndsInput
  <2> QED
    BY <2>1, <2>2, <2>3
<1>3. ThumbEndsInput(i) \in BOOLEAN
  <2>1. CASE i.id \in {"b", "bx"}
    BY <2>1 DEF ThumbEndsInput, ThumbIsUnconditional
  <2>2. CASE i.id \in {"mov", "ldr"}
    BY <2>2 DEF ThumbEndsInput
  <2>3. CASE i.id \notin {"b", "bx", "mov", "ldr"}
    <3>1. ThumbEndsInput(i) = (i.id \in {"pop pc", "tbb"})
      BY <2>3 DEF ThumbEndsInput
    <3>2. (i.id \in {"pop pc", "tbb"}) \in BOOLEAN
      OBVIOUS
    <3> QED
      BY <3>1, <3>2, Zenon
  <2> QED
    BY <2>1, <2>2, <2>3
<1>4. CASE Arch = "x86"
  BY <1>1, <1>4 DEF EndsInput
<1>5. CASE Arch = "arm64"
  BY <1>1, <1>5 DEF EndsInput
<1>6. CASE Arch = "arm"
  BY <1>2, <1>6 DEF EndsInput
<1>7. CASE Arch = "thumb"
  BY <1>3, <1>7 DEF EndsInput
<1> QED
  BY <1>4, <1>5, <1>6, <1>7, InputFacts

-----------------------------------------------------------------------------
(* Type correctness *)

\* The steps that only read or write code; they leave the search alone.
LEMMA TypeScan ==
  ASSUME TypeInv, Scan \/ ScanEnds \/ Read \/ ReadEnds
  PROVE  TypeInv'
<1>1. /\ UNCHANGED <<input, search, size, scratch, chunks>>
      /\ phase \in {"scan", "read"}
      /\ phase' \in {"scan", "scanned", "plan", "read", "write"}
  BY DEF Scan, ScanEnds, Read, ReadEnds, plan
<1>2. input' = input /\ Code' = Code /\ Arch' = Arch
  BY <1>1 DEF Code, Arch
<1>3. inpos' \in 0 .. Len(Code)
  BY InputFacts DEF TypeInv, RelocationTypeOK, Scan, ScanEnds, Read, ReadEnds, CanRead
<1>4. eoi' \in BOOLEAN
  <2>1. \A i : EndsInput(i) \in BOOLEAN
    BY EndsInputIsBoolean DEF TypeInv
  <2> QED
    BY <2>1 DEF TypeInv, RelocationTypeOK, Scan, ScanEnds, Read, ReadEnds
<1>5. n' \in Nat
  <2>1. CASE Scan
    <3>1. inpos + 1 \in DOMAIN Code
      BY <2>1, InputFacts DEF TypeInv, RelocationTypeOK, Scan, CanRead
    <3>2. BytesTo(inpos + 1) \in Nat
      BY <3>1, BytesFacts DEF TypeInv
    <3> QED
      BY <2>1, <3>2 DEF Scan, BytesTo, TypeInv, RelocationTypeOK
  <2>2. CASE ~Scan
    BY <2>2 DEF TypeInv, RelocationTypeOK, ScanEnds, Read, ReadEnds
  <2> QED
    BY <2>1, <2>2
<1>6. chunks = <<>> /\ chunks' = <<>>
  BY <1>1 DEF TypeInv
<1>7. phase' \notin {"search", "next", "done"}
  BY <1>1
<1>8. /\ start' \in Nat /\ at' \in Int /\ budget' \in 0 .. SearchBudget /\ pending' \subseteq checked'
      /\ checked' \subseteq Int /\ size' \in Nat
  BY <1>1 DEF TypeInv, RelocationTypeOK, search
<1>9. chunks' \in Seq(Range(chunks')) /\ Len(chunks') = 0
  BY <1>6
<1>10. Len(chunks') <= inpos' + 1
  <2>1. inpos' \in Nat
    BY <1>3, InputFacts DEF TypeInv
  <2>2. Len(chunks') = 0
    BY <1>9
  <2>3. \A k \in Nat : 0 <= k + 1
    OBVIOUS
  <2> QED
    BY <2>1, <2>2, <2>3
<1>11. RelocationTypeOK'
  BY <1>1, <1>2, <1>3, <1>4, <1>5, <1>7, <1>8, <1>10, InputFacts DEF RelocationTypeOK, TypeInv
<1> QED
  BY <1>1, <1>2, <1>6, <1>7, <1>8, <1>9, <1>11 DEF TypeInv
LEMMA TypeSearch ==
  ASSUME TypeInv, BeginSearch \/ Search \/ SearchStops \/ SearchNext \/ SearchEnds
  PROVE  TypeInv'
<1>1. /\ UNCHANGED <<input, inpos, eoi, size, scratch, chunks>>
      /\ phase \in {"scanned", "search", "next"}
      /\ phase' \in {"search", "next", "plan"}
  BY DEF BeginSearch, Search, SearchStops, SearchNext, SearchEnds, plan
<1>2. input' = input /\ Code' = Code /\ Arch' = Arch /\ MaySearch' = MaySearch
  BY <1>1 DEF Code, Arch, MaySearch
<1>3. phase' \in {"search", "next"} => MaySearch'
  BY <1>1, <1>2 DEF TypeInv, BeginSearch, Search, SearchStops, SearchNext, SearchEnds, Searches
<1>4. n' \in Nat
  <2>1. CASE SearchEnds
    BY <2>1, LimitedByTargets DEF SearchEnds, TypeInv, RelocationTypeOK
  <2>2. CASE ~SearchEnds
    BY <2>2 DEF TypeInv, RelocationTypeOK, BeginSearch, Search, SearchStops, SearchNext
  <2> QED
    BY <2>1, <2>2
<1>5. /\ start' \in Nat /\ at' \in Int /\ budget' \in 0 .. SearchBudget
      /\ checked' \subseteq Int /\ pending' \subseteq checked'
  <2>1. CASE BeginSearch
    <3>1. input.from + ReadBytes \in Nat
      BY BytesFacts, InputFacts DEF TypeInv, RelocationTypeOK
    <3>2. SearchBudget \in Nat
      BY InputsAreCode DEF RelocationAssumption
    <3> QED
      BY <2>1, <3>1, <3>2 DEF BeginSearch
  <2>2. CASE Search
    <3>1. PICK i \in Here(at) :
            /\ i.size <= budget
            /\ budget' = budget - i.size
            /\ IF Follows(i) /\ Target(i) \notin checked
               THEN /\ checked' = checked \cup {Target(i)}
                    /\ pending' = IF Arch = "arm64" THEN pending \cup {Target(i)} ELSE {}
               ELSE UNCHANGED <<checked, pending>>
            /\ IF EndsStretch(i) THEN phase' = "next" /\ at' = at
               ELSE at' = EndOf(i) /\ phase' = phase
      BY <2>2 DEF Search
    <3>2. i \in Range(Code)
      BY DEF Here
    <3>3. i.size \in Nat /\ EndOf(i) \in Nat
      BY <3>2, InstructionFacts DEF TypeInv
    <3>4. budget' \in 0 .. SearchBudget
      BY <3>1, <3>3, InputsAreCode DEF TypeInv, RelocationTypeOK, RelocationAssumption
    <3>5. Follows(i) => Target(i) \in Int
      BY <2>2, <3>2, TargetsAreNumbers DEF Search, TypeInv
    <3>6. start' = start
      BY <2>2 DEF Search
    <3>7. at' \in Int
      BY <3>1, <3>3 DEF TypeInv, RelocationTypeOK
    <3>8. checked' \subseteq Int /\ pending' \subseteq checked'
      <4>1. CASE Follows(i) /\ Target(i) \notin checked
        BY <3>1, <3>5, <4>1 DEF TypeInv, RelocationTypeOK
      <4>2. CASE ~(Follows(i) /\ Target(i) \notin checked)
        BY <3>1, <4>2 DEF TypeInv, RelocationTypeOK
      <4> QED
        BY <4>1, <4>2
    <3> QED
      BY <3>4, <3>6, <3>7, <3>8 DEF TypeInv, RelocationTypeOK
  <2>3. CASE SearchStops \/ SearchEnds
    BY <2>3 DEF SearchStops, SearchEnds, search, TypeInv, RelocationTypeOK
  <2>4. CASE SearchNext
    BY <2>4 DEF SearchNext, TypeInv, RelocationTypeOK
  <2> QED
    BY <2>1, <2>2, <2>3, <2>4
<1>6. chunks = <<>> /\ chunks' = <<>>
  BY <1>1 DEF TypeInv
<1>7. phase' # "done"
  BY <1>1
<1>8. RelocationTypeOK'
  BY <1>1, <1>2, <1>4, <1>5, <1>6, <1>7 DEF RelocationTypeOK, TypeInv
<1> QED
  BY <1>1, <1>2, <1>3, <1>5, <1>6, <1>8 DEF TypeInv

LEMMA TypeMove ==
  ASSUME TypeInv, Prepare \/ Write \/ Finish
  PROVE  TypeInv'
<1>1. /\ UNCHANGED <<input, n, search>>
      /\ phase \in {"plan", "write"}
      /\ phase' \in {"refused", "read", "write", "done"}
  BY DEF Prepare, Write, Finish, search
<1>2. input' = input /\ Code' = Code /\ Arch' = Arch
  BY <1>1 DEF Code, Arch
<1>3. inpos' \in 0 .. Len(Code) /\ eoi' \in BOOLEAN
  <2>1. 0 \in 0 .. Len(Code) /\ inpos \in 0 .. Len(Code) /\ eoi \in BOOLEAN
    BY InputFacts DEF TypeInv, RelocationTypeOK
  <2>2. (inpos' = 0 /\ eoi' = FALSE) \/ (inpos' = inpos /\ eoi' = eoi)
    BY DEF Prepare, Write, Finish
  <2> QED
    BY <2>1, <2>2
<1>4. size' \in Nat
  <2>1. CASE Prepare
    BY <2>1, SizeFits DEF Prepare, TypeInv, RelocationTypeOK
  <2>2. CASE ~Prepare
    BY <2>2 DEF Write, Finish, plan, TypeInv, RelocationTypeOK
  <2> QED
    BY <2>1, <2>2
<1>5. /\ chunks' \in Seq(Range(chunks'))
      /\ phase' \notin {"write", "done"} => chunks' = <<>>
      /\ Len(chunks') <= inpos' + 1
      /\ phase' = "done" => Len(chunks') \in {inpos', inpos' + 1}
  <2> DEFINE some == Range(chunks)
  <2>0. chunks \in Seq(some) /\ inpos \in Nat /\ inpos' \in Nat
    BY <1>3, InputFacts DEF TypeInv, RelocationTypeOK
  <2>1. CASE Prepare
    BY <2>0, <2>1, <1>1 DEF Prepare, TypeInv
  <2>2. ASSUME NEW c, chunks' = Append(chunks, c)
        PROVE  chunks' \in Seq(Range(chunks')) /\ Len(chunks') = Len(chunks) + 1
    <3>1. chunks' \in Seq(some \cup {c})
      BY <2>0, <2>2
    <3>2. Len(chunks') = Len(chunks) + 1
      BY <2>0, <2>2
    <3>3. \A k \in 1 .. Len(chunks') : chunks'[k] \in Range(chunks')
      BY <3>1 DEF Range
    <3> QED
      BY <3>1, <3>2, <3>3
  <2>3. CASE Write
    BY <2>0, <2>2, <2>3 DEF Write
  <2>4. CASE Finish
    <3>1. CASE chunks' = chunks
      BY <2>0, <2>4, <3>1 DEF Finish
    <3>2. CASE chunks' = Append(chunks, Resume)
      BY <2>0, <2>2, <2>4, <3>2 DEF Finish
    <3> QED
      BY <2>4, <3>1, <3>2 DEF Finish
  <2> QED
    BY <2>1, <2>3, <2>4
<1>6. /\ n' \in Nat /\ start' \in Nat /\ at' \in Int /\ budget' \in 0 .. SearchBudget
      /\ pending' \subseteq checked' /\ checked' \subseteq Int
  BY <1>1 DEF RelocationTypeOK, TypeInv, search
<1>7. Arch' \in {"x86", "arm64", "arm", "thumb"}
  BY <1>2, InputFacts DEF TypeInv
<1>8. Len(chunks') <= inpos' + 1 /\ (phase' = "done" => Len(chunks') \in {inpos', inpos' + 1})
  BY <1>5
<1>9. RelocationTypeOK'
  BY <1>1, <1>2, <1>3, <1>4, <1>6, <1>7, <1>8 DEF RelocationTypeOK
<1> QED
  BY <1>1, <1>2, <1>5, <1>6, <1>9 DEF TypeInv

LEMMA TypeStep ==
  ASSUME TypeInv, [Next]_vars
  PROVE  TypeInv'
<1>1. CASE UNCHANGED vars
  BY <1>1 DEF vars, search, plan, TypeInv, RelocationTypeOK, MaySearch, Arch, Code
<1>2. CASE Next
  BY <1>1, <1>2, TypeScan, TypeSearch, TypeMove DEF Next, Ended
<1> QED
  BY <1>1, <1>2

LEMMA TypeInit ==
  ASSUME Init
  PROVE  TypeInv
<1>1. input \in Inputs
  BY DEF Init
<1>2. SearchBudget \in Nat /\ Len(Code) \in Nat /\ Arch \in {"x86", "arm64", "arm", "thumb"}
  BY <1>1, InputFacts, InputsAreCode DEF RelocationAssumption
<1>3. chunks = <<>> /\ chunks \in Seq(Range(chunks)) /\ Len(chunks) = 0
  BY DEF Init
<1>4. inpos \in 0 .. Len(Code)
  BY <1>2 DEF Init
<1>5. Len(chunks) <= inpos + 1
  BY <1>3 DEF Init
<1>6. budget \in 0 .. SearchBudget
  BY <1>2 DEF Init
<1>7. /\ n = 0 /\ start = 0 /\ at = 0 /\ size = 0
      /\ eoi \in BOOLEAN /\ pending \subseteq checked /\ phase = "scan"
  BY DEF Init
<1>8. RelocationTypeOK
  BY <1>2, <1>4, <1>5, <1>6, <1>7 DEF RelocationTypeOK
<1> QED
  BY <1>1, <1>3, <1>8 DEF Init, TypeInv
-----------------------------------------------------------------------------
(* What is found to be movable *)

\* The invariant of the scan after a step, in terms of what the step assigns.
LEMMA ScanInvBecomes ==
  ASSUME input' = input,
         phase' \in {"scan", "scanned"} =>
           n' = (IF inpos' = 0 THEN 0 ELSE BytesTo(inpos')) /\ checked' = {},
         phase' \in {"scan", "scanned"} /\ eoi' => inpos' > 0 /\ EndsInput(Code[inpos']),
         phase' = "scan" /\ Matters => \A k \in 1 .. inpos' : ~Waits(Code[k]),
         phase' # "scan" => NoneWaited(n')
  PROVE  ScanInv'
<1>1. phase' \in {"scan", "scanned"} => (n = ReadBytes /\ checked = {})'
  BY DEF ReadBytes, BytesTo, Code
<1>2. phase' \in {"scan", "scanned"} /\ eoi' => (inpos > 0 /\ EndsInput(Code[inpos]))'
  BY DEF EndsInput, Code, Arch
<1>3. phase' = "scan" /\ Matters' => (\A k \in 1 .. inpos : ~Waits(Code[k]))'
  BY DEF Matters, Waits, Code, Arch
<1>4. phase' # "scan" => (NoneWaited(n))'
  BY DEF NoneWaited, Matters, Waits, BytesTo, Code, Arch
<1> QED
  BY <1>1, <1>2, <1>3, <1>4 DEF ScanInv

LEMMA WaitingStopsTheScan ==
  ASSUME input \in Inputs, Matters, NEW i
  PROVE  Waits(i) => StopsScan(i) /\ i.id # "nop" /\ (Arch = "thumb" => ~EndsInput(i))
<1>1. Arch \in {"x86", "arm64", "thumb"} /\ input.scenario = "online"
  BY InputFacts DEF Matters
<1>2. CASE Arch = "x86"
  BY <1>1, <1>2 DEF Waits, StopsScan, X86StopsScan
<1>3. CASE Arch = "arm64"
  BY <1>1, <1>3 DEF Waits, StopsScan, Arm64StopsScan
<1>4. CASE Arch = "thumb"
  BY <1>1, <1>4 DEF Waits, StopsScan, ThumbStopsScan, EndsInput, ThumbEndsInput
<1> QED
  BY <1>1, <1>2, <1>3, <1>4

\* While instructions are scanned none of those read is one that is waited in.
LEMMA ScanKeeps ==
  ASSUME TypeInv, ScanInv, Scan
  PROVE  ScanInv'
<1> DEFINE k == inpos + 1
           i == Code[k]
<1>1. /\ phase = "scan" /\ k <= Len(Code)
      /\ inpos' = k /\ eoi' = EndsInput(i)
      /\ n' = (IF IsSupported(i) THEN EndOf(i) - input.from ELSE n)
      /\ phase' = (IF ~IsSupported(i) THEN "plan"
                  ELSE IF StopsScan(i) \/ EndOf(i) - input.from >= FullSize THEN "scanned"
                  ELSE "scan")
      /\ input' = input /\ checked' = checked
  BY DEF Scan, CanRead, search
<1>2. input \in Inputs /\ inpos \in 0 .. Len(Code)
  BY DEF TypeInv, RelocationTypeOK
<1>3. k \in DOMAIN Code /\ k \in Nat /\ k > 0
  BY <1>1, <1>2, InputFacts
<1>4. n = ReadBytes /\ checked = {} /\ (Matters => \A j \in 1 .. inpos : ~Waits(Code[j]))
  BY <1>1 DEF ScanInv
<1>5. n <= BytesTo(k)
  <2>1. CASE inpos = 0
    BY <1>3, <1>4, <2>1, BytesFacts, <1>2 DEF ReadBytes
  <2>2. CASE inpos # 0
    <3>1. inpos \in DOMAIN Code /\ inpos < k
      BY <1>2, <2>2, InputFacts
    <3>2. BytesTo(inpos) < BytesTo(k) /\ BytesTo(inpos) \in Nat /\ BytesTo(k) \in Nat
      BY <1>2, <1>3, <3>1, BytesFacts
    <3>3. n = BytesTo(inpos)
      BY <1>4, <2>2 DEF ReadBytes, BytesTo
    <3> QED
      BY <3>2, <3>3
  <2> QED
    BY <2>1, <2>2
<1>6. \A j \in 1 .. k : j \in 1 .. inpos \/ j = k
  BY <1>2, InputFacts
<1> HIDE DEF k, i
<1>7. phase' \in {"scan", "scanned"} =>
        n' = (IF inpos' = 0 THEN 0 ELSE BytesTo(inpos')) /\ checked' = {}
  BY <1>1, <1>3, <1>4 DEF BytesTo, i
<1>8. phase' \in {"scan", "scanned"} /\ eoi' => inpos' > 0 /\ EndsInput(Code[inpos'])
  BY <1>1, <1>3 DEF i
<1>9. phase' = "scan" /\ Matters => \A j \in 1 .. inpos' : ~Waits(Code[j])
  <2>1. phase' = "scan" => ~StopsScan(i)
    BY <1>1
  <2> QED
    BY <1>1, <1>2, <1>4, <1>6, <2>1, WaitingStopsTheScan DEF i
<1>10. ASSUME Matters, NEW w \in DOMAIN Code, Waits(Code[w])
       PROVE  n' <= BytesTo(w)
  <2>1. w \notin 1 .. inpos
    BY <1>4, <1>10
  <2>2. w = k \/ k < w
    BY <1>2, <2>1, InputFacts DEF k
  <2>3. BytesTo(k) <= BytesTo(w) /\ BytesTo(k) \in Nat /\ BytesTo(w) \in Nat
    BY <1>2, <1>3, <2>2, BytesFacts
  <2>4. n' = BytesTo(k) \/ n' = n
    BY <1>1 DEF BytesTo, i
  <2>5. n \in Nat
    BY DEF TypeInv, RelocationTypeOK
  <2> QED
    BY <1>5, <2>3, <2>4, <2>5
<1>11. NoneWaited(n')
  BY <1>10 DEF NoneWaited
<1> QED
  BY <1>1, <1>7, <1>8, <1>9, <1>11, ScanInvBecomes

LEMMA NoneWaitedBehind ==
  ASSUME input \in Inputs, inpos \in 0 .. Len(Code),
         Matters => \A j \in 1 .. inpos : ~Waits(Code[j])
  PROVE  NoneWaited(ReadBytes)
<1>1. SUFFICES ASSUME Matters, NEW w \in DOMAIN Code, Waits(Code[w])
               PROVE  ReadBytes <= BytesTo(w)
  BY DEF NoneWaited
<1>2. BytesTo(w) \in Nat /\ inpos < w
  BY <1>1, BytesFacts, InputFacts
<1>3. CASE inpos = 0
  BY <1>2, <1>3 DEF ReadBytes
<1>4. CASE inpos # 0
  <2>1. inpos \in DOMAIN Code
    BY <1>4, InputFacts
  <2>2. BytesTo(inpos) < BytesTo(w) /\ BytesTo(inpos) \in Nat
    BY <1>2, <2>1, BytesFacts
  <2>3. ReadBytes = BytesTo(inpos)
    BY <1>4 DEF ReadBytes, BytesTo
  <2> QED
    BY <1>2, <2>2, <2>3
<1> QED
  BY <1>3, <1>4

LEMMA ScanEndsKeeps ==
  ASSUME TypeInv, ScanInv, ScanEnds
  PROVE  ScanInv'
<1>1. phase = "scan" /\ phase' = "scanned" /\ UNCHANGED <<input, inpos, eoi, n, checked>>
  BY DEF ScanEnds, search
<1>2. /\ n = ReadBytes /\ checked = {}
      /\ eoi => inpos > 0 /\ EndsInput(Code[inpos])
      /\ Matters => \A j \in 1 .. inpos : ~Waits(Code[j])
  BY <1>1 DEF ScanInv
<1>3. n = (IF inpos = 0 THEN 0 ELSE BytesTo(inpos))
  BY <1>2 DEF ReadBytes, BytesTo
<1>4. NoneWaited(n)
  BY <1>2, NoneWaitedBehind DEF TypeInv, RelocationTypeOK
<1> QED
  BY <1>1, <1>2, <1>3, <1>4, ScanInvBecomes

\* The half word taken in addition is padding.
LEMMA BeginSearchKeeps ==
  ASSUME TypeInv, ScanInv, BeginSearch
  PROVE  ScanInv'
<1>1. /\ phase = "scanned" /\ phase' \in {"search", "plan"} /\ UNCHANGED <<input, inpos, eoi>>
      /\ n' = IF Arch = "thumb" /\ eoi /\ Padded THEN n + 2 ELSE n
  BY DEF BeginSearch
<1>2. input \in Inputs /\ inpos \in 0 .. Len(Code) /\ n \in Nat
  BY DEF TypeInv, RelocationTypeOK
<1>3. n = ReadBytes /\ NoneWaited(n) /\ (eoi => inpos > 0 /\ EndsInput(Code[inpos]))
  BY <1>1 DEF ScanInv
<1>4. NoneWaited(n')
  <2>1. CASE ~(Arch = "thumb" /\ eoi /\ Padded)
    BY <1>1, <1>3, <2>1
  <2>2. CASE Arch = "thumb" /\ eoi /\ Padded
    <3>1. SUFFICES ASSUME Matters, NEW w \in DOMAIN Code, Waits(Code[w])
                   PROVE  n' <= BytesTo(w)
      BY DEF NoneWaited
    <3>2. inpos + 1 \in DOMAIN Code /\ inpos \in DOMAIN Code /\ Code[inpos + 1].id = "nop"
      BY <1>2, <1>3, <2>2, InputFacts DEF Padded
    <3>3. n = BytesTo(inpos) /\ n <= BytesTo(w)
      BY <1>3, <2>2, <3>1 DEF ReadBytes, BytesTo, NoneWaited
    <3>4. w # inpos /\ w # inpos + 1
      BY <1>2, <1>3, <2>2, <3>1, <3>2, WaitingStopsTheScan
    <3>5. w \in Nat /\ inpos \in Nat
      BY <1>2, InputFacts
    <3>6. ~(w < inpos)
      BY <1>2, <3>1, <3>2, <3>3, BytesFacts
    <3>7. inpos < inpos + 1 /\ inpos + 1 < w
      BY <3>4, <3>5, <3>6
    <3>8. BytesTo(inpos) < BytesTo(inpos + 1) /\ BytesTo(inpos + 1) < BytesTo(w)
      BY <1>2, <3>2, <3>7, BytesFacts
    <3>9. BytesTo(inpos + 1) \in Nat /\ BytesTo(w) \in Nat
      BY <1>2, <3>2, BytesFacts
    <3> QED
      BY <1>1, <1>2, <2>2, <3>3, <3>8, <3>9
  <2> QED
    BY <2>1, <2>2
<1> QED
  BY <1>1, <1>4, ScanInvBecomes

\* Behind the scan what can be moved only becomes less.
LEMMA ScanStep ==
  ASSUME TypeInv, ScanInv, [Next]_vars
  PROVE  ScanInv'
<1>1. ASSUME UNCHANGED <<input, inpos, eoi, n, checked, phase>>
      PROVE  ScanInv'
  <2>1. n = ReadBytes => n = (IF inpos = 0 THEN 0 ELSE BytesTo(inpos))
    BY DEF ReadBytes, BytesTo
  <2> QED
    BY <1>1, <2>1, ScanInvBecomes DEF ScanInv
<1>2. ASSUME phase # "scan", phase' \notin {"scan", "scanned"}, input' = input, n' \in Nat, n' <= n
      PROVE  ScanInv'
  <2>1. NoneWaited(n)
    BY <1>2 DEF ScanInv
  <2>2. NoneWaited(n')
    <3>1. SUFFICES ASSUME Matters, NEW w \in DOMAIN Code, Waits(Code[w])
                   PROVE  n' <= BytesTo(w)
      BY DEF NoneWaited
    <3>2. n <= BytesTo(w) /\ n \in Nat /\ BytesTo(w) \in Nat
      BY <2>1, <3>1, BytesFacts DEF NoneWaited, TypeInv, RelocationTypeOK
    <3> QED
      BY <1>2, <3>2
  <2> QED
    BY <1>2, <2>2, ScanInvBecomes
<1>3. n \in Nat /\ n <= n
  BY DEF TypeInv, RelocationTypeOK
<1>4. CASE UNCHANGED vars
  BY <1>1, <1>4 DEF vars, search
<1>5. CASE Search \/ SearchStops \/ SearchNext
  <2>1. phase \in {"search", "next"} /\ phase' \in {"search", "next"} /\ UNCHANGED <<input, n>>
    BY <1>5 DEF Search, SearchStops, SearchNext
  <2> QED
    BY <1>2, <1>3, <2>1
<1>6. CASE SearchEnds
  <2>1. phase = "next" /\ phase' = "plan" /\ input' = input /\ n' = LimitedBy(checked, n)
    BY <1>6 DEF SearchEnds
  <2>2. n' \in Nat /\ n' <= n
    BY <1>3, <2>1, LimitedByTargets DEF TypeInv
  <2> QED
    BY <1>2, <2>1, <2>2
<1>7. CASE Prepare \/ Read \/ ReadEnds \/ Write \/ Finish
  <2>1. /\ phase \in {"plan", "read", "write"}
        /\ phase' \in {"refused", "read", "write", "done"} /\ UNCHANGED <<input, n>>
    BY <1>7 DEF Prepare, Read, ReadEnds, Write, Finish
  <2> QED
    BY <1>2, <1>3, <2>1
<1> QED
  BY <1>4, <1>5, <1>6, <1>7, ScanKeeps, ScanEndsKeeps, BeginSearchKeeps DEF Next, Ended

-----------------------------------------------------------------------------
(* What is moved *)

LEMMA MoveInvBecomes ==
  ASSUME input' = input,
         phase' \in {"read", "write", "done"} =>
           /\ size' # 0
           /\ ~input.force => size' <= n'
           /\ \A k \in 1 .. inpos' : phase' = "read" \/ k < inpos' => BytesTo(k) < size'
  PROVE  MoveInv'
BY DEF MoveInv, BytesTo, Code

LEMMA MoveStep ==
  ASSUME TypeInv, MoveInv, [Next]_vars
  PROVE  MoveInv'
<1>0. input \in Inputs /\ inpos \in 0 .. Len(Code) /\ Len(Code) \in Nat /\ n \in Nat /\ size \in Nat
  BY InputFacts DEF TypeInv, RelocationTypeOK
<1>1. ASSUME UNCHANGED <<input, phase, inpos, n, size>>
      PROVE  MoveInv'
  BY <1>1, MoveInvBecomes DEF MoveInv
<1>2. ASSUME input' = input, phase' \notin {"read", "write", "done"}
      PROVE  MoveInv'
  BY <1>2, MoveInvBecomes
<1>3. CASE Prepare
  <2>1. /\ input' = input /\ n' = n /\ inpos' = 0 /\ size' = SizeFor(n)
        /\ phase' \in {"read", "write", "done"} => size' # 0
    BY <1>3 DEF Prepare
  <2>2. ~input.force => size' <= n'
    BY <1>0, <2>1, SizeFits
  <2>3. \A k \in 1 .. inpos' : FALSE
    BY <2>1
  <2> QED
    BY <2>1, <2>2, <2>3, MoveInvBecomes
<1>4. CASE Read
  <2> DEFINE k == inpos + 1
  <2>1. /\ phase = "read" /\ k <= Len(Code) /\ inpos' = k
        /\ phase' = IF BytesTo(k) < size THEN "read" ELSE "write"
        /\ input' = input /\ n' = n /\ size' = size
    BY <1>4 DEF Read, CanRead, plan, BytesTo
  <2>2. /\ size # 0 /\ (~input.force => size <= n)
        /\ \A j \in 1 .. inpos : BytesTo(j) < size
    BY <2>1 DEF MoveInv
  <2>3. ASSUME NEW j \in 1 .. inpos', phase' = "read" \/ j < inpos'
        PROVE  BytesTo(j) < size'
    <3>1. CASE j \in 1 .. inpos
      BY <2>1, <2>2, <3>1
    <3>2. CASE j = k
      <4>1. ~(j < inpos')
        BY <1>0, <2>1, <3>2
      <4> QED
        BY <2>1, <2>3, <3>2, <4>1
    <3> QED
      BY <1>0, <2>1, <3>1, <3>2
  <2> QED
    BY <2>1, <2>2, <2>3, MoveInvBecomes
<1>5. CASE ReadEnds \/ Write \/ Finish
  <2>1. /\ phase \in {"read", "write"} /\ phase' \in {"write", "done"}
        /\ UNCHANGED <<input, inpos, n, size>>
    BY <1>5 DEF ReadEnds, Write, Finish, plan
  <2>2. /\ size # 0 /\ (~input.force => size <= n)
        /\ \A j \in 1 .. inpos : j < inpos => BytesTo(j) < size
    BY <2>1 DEF MoveInv
  <2> QED
    BY <2>1, <2>2, MoveInvBecomes
<1>6. CASE Scan \/ ScanEnds
  BY <1>2, <1>6 DEF Scan, ScanEnds
<1>7. CASE BeginSearch \/ Search \/ SearchStops \/ SearchNext \/ SearchEnds
  <2>1. input' = input /\ phase' \in {"plan", "search", "next"}
    BY <1>7 DEF BeginSearch, Search, SearchStops, SearchNext, SearchEnds
  <2> QED
    BY <1>2, <2>1
<1> QED
  BY <1>1, <1>3, <1>4, <1>5, <1>6, <1>7 DEF Next, Ended, vars, plan

-----------------------------------------------------------------------------
(* What is overwritten *)

LEMMA CoverInvBecomes ==
  ASSUME input' = input,
         phase' \in {"scan", "scanned", "read", "write", "done"} =>
           /\ ReadableTo(inpos')
           /\ eoi' => inpos' > 0 /\ EndsInput(Code[inpos'])
           /\ ~eoi' /\ inpos' > 0 => ~EndsInput(Code[inpos']),
         phase' \notin {"scan", "scanned"} => Covered(n'),
         phase' \in {"write", "done"} /\ ~input.force => CoveredBy(inpos', size')
  PROVE  CoverInv'
<1>1. phase' \in {"scan", "scanned", "read", "write", "done"} =>
        /\ (ReadableTo(inpos))'
        /\ (eoi => inpos > 0 /\ EndsInput(Code[inpos]))'
        /\ (~eoi /\ inpos > 0 => ~EndsInput(Code[inpos]))'
  BY DEF ReadableTo, EndsInput, Code, Arch
<1>2. phase' \notin {"scan", "scanned"} => (Covered(n))'
  BY DEF Covered, ReadableTo, CoveredBy, PaddingBehind, BytesTo, EndsInput, Code, Arch
<1>3. phase' \in {"write", "done"} /\ ~input'.force => (CoveredBy(inpos, size))'
  BY DEF CoveredBy, PaddingBehind, BytesTo, EndsInput, Code, Arch
<1> QED
  BY <1>1, <1>2, <1>3 DEF CoverInv

LEMMA CoveredLess ==
  ASSUME input \in Inputs, NEW bytes \in Nat, NEW less \in Nat, less <= bytes, Covered(bytes)
  PROVE  Covered(less)
<1>1. PICK k \in 0 .. Len(Code) : ReadableTo(k) /\ CoveredBy(k, bytes)
  BY DEF Covered
<1>2. ASSUME k > 0
      PROVE  BytesTo(k) \in Nat
  <2>1. k \in DOMAIN Code
    BY <1>2, InputFacts
  <2> QED
    BY <2>1, BytesFacts
<1>3. CoveredBy(k, less)
  <2>1. CASE bytes = 0
    BY <2>1 DEF CoveredBy
  <2>2. CASE k > 0 /\ bytes <= BytesTo(k)
    BY <1>2, <2>2 DEF CoveredBy
  <2>3. CASE PaddingBehind(k) /\ bytes <= BytesTo(k) + 2
    <3>1. BytesTo(k) \in Nat
      BY <1>2, <2>3 DEF PaddingBehind
    <3>2. less <= BytesTo(k) + 2
      BY <2>3, <3>1
    <3> QED
      BY <2>3, <3>2 DEF CoveredBy
  <2> QED
    BY <1>1, <2>1, <2>2, <2>3 DEF CoveredBy
<1> QED
  BY <1>1, <1>3 DEF Covered

\* One more instruction can be read when the last one read does not end the input.
LEMMA ReadableNext ==
  ASSUME input \in Inputs, ReadableTo(inpos), ~eoi, CanRead(inpos + 1),
         ~eoi /\ inpos > 0 => ~EndsInput(Code[inpos])
  PROVE  ReadableTo(inpos + 1) /\ inpos \in Nat /\ inpos + 1 \in DOMAIN Code
<1>1. /\ inpos \in 0 .. Len(Code) /\ inpos + 1 <= Len(Code) /\ Code[inpos + 1].id # "undecodable"
      /\ \A j \in 1 .. inpos : Code[j].id # "undecodable" /\ (j < inpos => ~EndsInput(Code[j]))
  BY DEF ReadableTo, CanRead
<1>2. Len(Code) \in Nat /\ DOMAIN Code = 1 .. Len(Code)
  BY InputFacts
<1>3. inpos \in Nat /\ inpos + 1 \in 0 .. Len(Code) /\ inpos + 1 \in DOMAIN Code
  BY <1>1, <1>2
<1>4. ASSUME NEW j \in 1 .. (inpos + 1)
      PROVE  Code[j].id # "undecodable" /\ (j < inpos + 1 => ~EndsInput(Code[j]))
  <2>1. j = inpos + 1 \/ (j = inpos /\ inpos > 0) \/ (j \in 1 .. inpos /\ j < inpos)
    BY <1>3
  <2>2. ~(inpos + 1 < inpos + 1)
    BY <1>3
  <2>3. CASE j = inpos + 1
    BY <1>1, <2>2, <2>3
  <2>4. CASE j = inpos /\ inpos > 0
    <3>1. j \in 1 .. inpos
      BY <1>3, <2>4
    <3> QED
      BY <1>1, <2>4, <3>1
  <2>5. CASE j \in 1 .. inpos /\ j < inpos
    BY <1>1, <2>5
  <2> QED
    BY <2>1, <2>3, <2>4, <2>5
<1> QED
  BY <1>3, <1>4 DEF ReadableTo

LEMMA ScanCovers ==
  ASSUME TypeInv, ScanInv, CoverInv, Scan
  PROVE  CoverInv'
<1> DEFINE k == inpos + 1
           i == Code[k]
<1>1. /\ phase = "scan" /\ ~eoi /\ CanRead(k) /\ inpos' = k /\ eoi' = EndsInput(i)
      /\ n' = (IF IsSupported(i) THEN EndOf(i) - input.from ELSE n)
      /\ phase' \in {"scan", "scanned", "plan"} /\ (phase' = "plan" => ~IsSupported(i))
      /\ input' = input
  BY DEF Scan
<1>2. input \in Inputs /\ ReadableTo(inpos) /\ (~eoi /\ inpos > 0 => ~EndsInput(Code[inpos]))
  BY <1>1 DEF TypeInv, CoverInv
<1>3. ReadableTo(k) /\ inpos \in Nat /\ k \in DOMAIN Code
  BY <1>1, <1>2, ReadableNext
<1>4. /\ ReadableTo(inpos')
      /\ eoi' => inpos' > 0 /\ EndsInput(Code[inpos'])
      /\ ~eoi' /\ inpos' > 0 => ~EndsInput(Code[inpos'])
  BY <1>1, <1>3
<1>5. phase' \notin {"scan", "scanned"} => Covered(n')
  <2>1. SUFFICES ASSUME phase' = "plan"
                 PROVE  Covered(n)
    BY <1>1
  <2>2. n = ReadBytes
    BY <1>1 DEF ScanInv
  <2>3. CASE inpos = 0
    <3>1. CoveredBy(inpos, n)
      BY <2>2, <2>3 DEF ReadBytes, CoveredBy
    <3> QED
      BY <1>2, <3>1 DEF Covered, ReadableTo
  <2>4. CASE inpos # 0
    <3>1. n = BytesTo(inpos) /\ inpos \in DOMAIN Code
      BY <1>2, <1>3, <2>2, <2>4, InputFacts DEF ReadBytes, BytesTo, ReadableTo
    <3>2. n \in Nat /\ inpos > 0
      BY <1>3, <2>4 DEF TypeInv, RelocationTypeOK
    <3>3. CoveredBy(inpos, n)
      BY <3>1, <3>2 DEF CoveredBy
    <3> QED
      BY <1>2, <3>3 DEF Covered, ReadableTo
  <2> QED
    BY <2>3, <2>4
<1> QED
  BY <1>1, <1>4, <1>5, CoverInvBecomes

LEMMA BeginSearchCovers ==
  ASSUME TypeInv, ScanInv, CoverInv, BeginSearch
  PROVE  CoverInv'
<1>1. /\ phase = "scanned" /\ phase' \in {"search", "plan"} /\ UNCHANGED <<input, inpos, eoi>>
      /\ n' = IF Arch = "thumb" /\ eoi /\ Padded THEN n + 2 ELSE n
  BY DEF BeginSearch
<1>2. /\ input \in Inputs /\ inpos \in 0 .. Len(Code) /\ n \in Nat /\ n = ReadBytes
      /\ ReadableTo(inpos) /\ (eoi => inpos > 0 /\ EndsInput(Code[inpos]))
  BY <1>1 DEF TypeInv, RelocationTypeOK, ScanInv, CoverInv
<1>3. CoveredBy(inpos, n')
  <2>1. CASE inpos = 0
    BY <1>1, <1>2, <2>1 DEF ReadBytes, CoveredBy
  <2>2. CASE inpos # 0
    <3>1. n = BytesTo(inpos)
      BY <1>2, <2>2 DEF ReadBytes, BytesTo
    <3>2. inpos > 0
      BY <1>2, <2>2, InputFacts
    <3>3. CASE Arch = "thumb" /\ eoi /\ Padded
      <4>1. PaddingBehind(inpos)
        BY <1>2, <3>2, <3>3 DEF PaddingBehind, Padded
      <4>2. n' <= BytesTo(inpos) + 2
        BY <1>1, <1>2, <3>1, <3>3
      <4> QED
        BY <4>1, <4>2 DEF CoveredBy
    <3>4. CASE ~(Arch = "thumb" /\ eoi /\ Padded)
      <4>1. n' <= BytesTo(inpos)
        BY <1>1, <1>2, <3>1, <3>4
      <4> QED
        BY <3>2, <4>1 DEF CoveredBy
    <3> QED
      BY <3>3, <3>4
  <2> QED
    BY <2>1, <2>2
<1>4. Covered(n')
  BY <1>2, <1>3 DEF Covered
<1> QED
  BY <1>1, <1>4, CoverInvBecomes

\* The code is read again up to the instruction that covers what the redirect
\* takes, as nothing keeps it from being read.
LEMMA ReadCovers ==
  ASSUME TypeInv, CoverInv, Read
  PROVE  CoverInv'
<1> DEFINE k == inpos + 1
<1>1. /\ phase = "read" /\ ~eoi /\ CanRead(k) /\ inpos' = k /\ eoi' = EndsInput(Code[k])
      /\ phase' \in {"read", "write"} /\ (phase' = "write" => ~(BytesTo(k) < size))
      /\ input' = input /\ n' = n /\ size' = size
  BY DEF Read, plan, BytesTo
<1>2. /\ input \in Inputs /\ size \in Nat /\ ReadableTo(inpos) /\ Covered(n)
      /\ (~eoi /\ inpos > 0 => ~EndsInput(Code[inpos]))
  BY <1>1 DEF TypeInv, RelocationTypeOK, CoverInv
<1>3. ReadableTo(k) /\ inpos \in Nat /\ k \in DOMAIN Code
  BY <1>1, <1>2, ReadableNext
<1>4. ASSUME phase' = "write"
      PROVE  CoveredBy(inpos', size')
  <2>1. BytesTo(k) \in Nat
    BY <1>2, <1>3, BytesFacts
  <2>2. size <= BytesTo(k) /\ k > 0
    BY <1>1, <1>2, <1>3, <1>4, <2>1
  <2> QED
    BY <1>1, <2>2 DEF CoveredBy
<1>5. phase' # "done"
  BY <1>1
<1> QED
  BY <1>1, <1>2, <1>3, <1>4, <1>5, CoverInvBecomes

LEMMA ReadEndsCovers ==
  ASSUME TypeInv, MoveInv, CoverInv, ReadEnds
  PROVE  CoverInv'
<1>1. /\ phase = "read" /\ (eoi \/ ~CanRead(inpos + 1)) /\ inpos > 0
      /\ phase' = "write" /\ UNCHANGED <<input, inpos, eoi, n, size>>
  BY DEF ReadEnds, plan
<1>2. /\ input \in Inputs /\ size \in Nat /\ n \in Nat /\ ReadableTo(inpos) /\ Covered(n)
      /\ eoi => EndsInput(Code[inpos])
      /\ ~eoi => ~EndsInput(Code[inpos])
      /\ size # 0 /\ (~input.force => size <= n)
      /\ \A j \in 1 .. inpos : BytesTo(j) < size
  BY <1>1 DEF TypeInv, RelocationTypeOK, MoveInv, CoverInv
<1>3. inpos \in 1 .. Len(Code) /\ Len(Code) \in Nat /\ inpos \in Nat
  BY <1>1, <1>2, InputFacts DEF ReadableTo
<1>4. ASSUME ~input.force
      PROVE  CoveredBy(inpos, size)
  <2>1. Covered(size)
    BY <1>2, <1>4, CoveredLess
  <2>2. PICK k \in 0 .. Len(Code) : ReadableTo(k) /\ CoveredBy(k, size)
    BY <2>1 DEF Covered
  <2>3. k > 0 /\ k \in DOMAIN Code
    BY <1>2, <1>3, <2>2, InputFacts DEF CoveredBy, PaddingBehind
  <2>4. ~(inpos < k)
    <3>1. SUFFICES ASSUME inpos < k
                   PROVE  FALSE
      OBVIOUS
    <3>2. inpos \in 1 .. k /\ inpos + 1 \in 1 .. k /\ inpos + 1 <= Len(Code)
      BY <1>3, <2>2, <3>1
    <3>3. ~EndsInput(Code[inpos]) /\ Code[inpos + 1].id # "undecodable"
      BY <2>2, <3>1, <3>2 DEF ReadableTo
    <3> QED
      BY <1>1, <1>2, <3>2, <3>3 DEF CanRead
  <2>5. k \in 1 .. inpos
    BY <1>3, <2>2, <2>3, <2>4
  <2>6. BytesTo(k) \in Nat /\ BytesTo(k) < size
    BY <1>2, <2>3, <2>5, BytesFacts
  <2>7. PaddingBehind(k)
    BY <1>2, <2>2, <2>6 DEF CoveredBy
  <2>8. ~(k < inpos)
    BY <1>2, <2>5, <2>7 DEF PaddingBehind, ReadableTo
  <2>9. k = inpos
    BY <1>3, <2>5, <2>8
  <2> QED
    BY <2>2, <2>9
<1> QED
  BY <1>1, <1>2, <1>4, CoverInvBecomes

LEMMA CoverStep ==
  ASSUME TypeInv, ScanInv, MoveInv, CoverInv, [Next]_vars
  PROVE  CoverInv'
<1>0. input \in Inputs /\ n \in Nat /\ checked \subseteq Int /\ Len(Code) \in Nat
  BY InputFacts DEF TypeInv, RelocationTypeOK
<1>1. ASSUME UNCHANGED <<input, phase, inpos, eoi, n, size>>
      PROVE  CoverInv'
  BY <1>1, CoverInvBecomes DEF CoverInv
<1>2. CASE ScanEnds
  BY <1>2, CoverInvBecomes DEF CoverInv, ScanEnds
<1>3. CASE Search \/ SearchStops \/ SearchNext \/ SearchEnds
  <2>1. phase \in {"search", "next"} /\ phase' \in {"search", "next", "plan"} /\ input' = input
    BY <1>3 DEF Search, SearchStops, SearchNext, SearchEnds
  <2>2. Covered(n)
    BY <2>1 DEF CoverInv
  <2>3. n' = n \/ n' = LimitedBy(checked, n)
    BY <1>3 DEF Search, SearchStops, SearchNext, SearchEnds
  <2>4. Covered(LimitedBy(checked, n))
    BY <1>0, <2>2, LimitedByTargets, CoveredLess
  <2> QED
    BY <2>1, <2>2, <2>3, <2>4, CoverInvBecomes
<1>4. CASE Prepare
  <2>1. /\ phase = "plan" /\ input' = input /\ n' = n /\ inpos' = 0 /\ eoi' = FALSE
        /\ phase' \in {"refused", "read"}
    BY <1>4 DEF Prepare
  <2>2. Covered(n) /\ ReadableTo(0)
    BY <1>0, <2>1 DEF CoverInv, ReadableTo
  <2> QED
    BY <2>1, <2>2, CoverInvBecomes
<1>5. CASE Write \/ Finish
  <2>1. /\ phase = "write" /\ phase' \in {"write", "done"}
        /\ UNCHANGED <<input, inpos, eoi, n, size>>
    BY <1>5 DEF Write, Finish, plan
  <2> QED
    BY <2>1, CoverInvBecomes DEF CoverInv
<1> QED
  BY <1>1, <1>2, <1>3, <1>4, <1>5, ScanCovers, BeginSearchCovers, ReadCovers, ReadEndsCovers
     DEF Next, Ended, vars, plan

-----------------------------------------------------------------------------
(* The search *)

\* What has been explored after a step, in terms of what is left to explore.
LEMMA ExploredBecomes ==
  ASSUME input' = input, NEW D, NEW open,
         open = Open',
         start' \in D \cup open \/ start' \notin Addresses,
         Arch = "arm64" => \A a \in checked' : a \in D \cup open \/ a \notin Addresses,
         \A i \in Range(Code) :
           i.at \in D =>
             /\ Follows(i) => Target(i) \in checked'
             /\ ~EndsStretch(i) => EndOf(i) \in D \cup open \/ EndOf(i) \notin Addresses
  PROVE  Explored(D)'
<1>1. Addresses' = Addresses /\ Code' = Code /\ Arch' = Arch
  BY DEF Addresses, Code, Arch
<1>2. \A i : Follows(i)' = Follows(i) /\ Target(i)' = Target(i) /\ EndsStretch(i)' = EndsStretch(i)
  BY <1>1 DEF Follows, Target, EndsStretch
<1>3. Ahead(D, start)'
  BY <1>1 DEF Ahead
<1>4. Arch' = "arm64" => \A a \in checked' : (Ahead(D, a))'
  BY <1>1 DEF Ahead
<1>5. \A i \in Range(Code') :
        i.at \in D =>
          /\ Follows(i)' => Target(i)' \in checked'
          /\ ~EndsStretch(i)' => (Ahead(D, EndOf(i)))'
  BY <1>1, <1>2 DEF Ahead
<1> QED
  BY <1>3, <1>4, <1>5 DEF Explored

\* What can be reached does not depend on how far the work is.
LEMMA BranchesStay ==
  ASSUME input' = input, NEW bytes
  PROVE  /\ Addresses' = Addresses /\ Arch' = Arch /\ MaySearch' = MaySearch
         /\ start' = start /\ NoneBranchedInto(bytes) => NoneBranchedInto(bytes)'
<1>1. Addresses' = Addresses /\ Code' = Code /\ Arch' = Arch /\ MaySearch' = MaySearch
  BY DEF Addresses, Code, Arch, MaySearch
<1>2. ASSUME start' = start, NoneBranchedInto(bytes)
      PROVE  NoneBranchedInto(bytes)'
  <2>1. \A i : /\ Branches(i)' = Branches(i) /\ Target(i)' = Target(i)
               /\ EndsStretch(i)' = EndsStretch(i)
    BY <1>1 DEF Branches, Target, EndsStretch
  <2>2. \A i : Successors(i)' = Successors(i)
    BY <1>1, <2>1 DEF Successors
  <2>3. \A S : IsClosed(S)' <=> IsClosed(S)
    BY <1>1, <2>2 DEF IsClosed
  <2>4. ReachableFrom(start)' = ReachableFrom(start)
    BY <1>1, <1>2, <2>3 DEF ReachableFrom
  <2>5. \A a : Inside(a, bytes)' = Inside(a, bytes)
    BY DEF Inside
  <2> QED
    BY <1>1, <1>2, <2>1, <2>4, <2>5 DEF NoneBranchedInto
<1> QED
  BY <1>1, <1>2

LEMMA SearchInvBecomes ==
  ASSUME input' = input,
         phase' \in {"search", "next"} =>
           /\ Arch = "thumb" => pending' = {}
           /\ HasNotRunOut' => \E D \in SUBSET Addresses : Explored(D)',
         phase' \in {"plan", "read", "write", "done"} /\ checked' # {} =>
           /\ MaySearch
           /\ HasNotRunOut' => NoneBranchedInto(n)'
  PROVE  SearchInv'
<1>1. Addresses' = Addresses /\ Arch' = Arch /\ MaySearch' = MaySearch
  BY DEF Addresses, Code, Arch, MaySearch
<1>2. phase' \in {"search", "next"} =>
        /\ Arch' = "thumb" => pending' = {}
        /\ HasNotRunOut' => \E D \in SUBSET Addresses' : Explored(D)'
  BY <1>1
<1>3. phase' \in {"plan", "read", "write", "done"} /\ checked' # {} =>
        /\ MaySearch'
        /\ HasNotRunOut' => NoneBranchedInto(n)'
  BY <1>1
<1> QED
  BY <1>2, <1>3 DEF SearchInv, SearchMade

\* A search that has bytes left has had them before.
LEMMA BytesLeftStay ==
  ASSUME input \in Inputs, input' = input, budget \in Int, budget' \in Int, budget' <= budget, HasNotRunOut'
  PROVE  HasNotRunOut
<1>1. \A i \in Range(Code) : i.size <= budget'
  BY DEF HasNotRunOut, Code
<1>2. \A i \in Range(Code) : i.size \in Nat
  BY InstructionFacts
<1> QED
  BY <1>1, <1>2 DEF HasNotRunOut

LEMMA BeginSearchSearches ==
  ASSUME TypeInv, ScanInv, SearchInv, BeginSearch
  PROVE  SearchInv'
<1>1. /\ phase = "scanned" /\ input' = input /\ pending' = {} /\ at' = start'
      /\ phase' = (IF Searches THEN "search" ELSE "plan")
      /\ checked' = (IF Searches THEN {start'} ELSE {})
  BY DEF BeginSearch
<1>2. CASE Searches
  <2>1. phase' = "search" /\ checked' = {start'}
    BY <1>1, <1>2
  <2>2. Open' = {start'}
    BY <1>1, <2>1 DEF Open
  <2>3. Explored({})'
    BY <1>1, <2>1, <2>2, ExploredBecomes
  <2>4. {} \in SUBSET Addresses
    OBVIOUS
  <2> QED
    BY <1>1, <2>1, <2>3, <2>4, SearchInvBecomes
<1>3. CASE ~Searches
  BY <1>1, <1>3, SearchInvBecomes
<1> QED
  BY <1>2, <1>3

\* It follows the instruction it is at.
LEMMA SearchSearches ==
  ASSUME TypeInv, SearchInv, Search
  PROVE  SearchInv'
<1>1. PICK i \in Here(at) :
        /\ i.size <= budget
        /\ budget' = budget - i.size
        /\ IF Follows(i) /\ Target(i) \notin checked
           THEN /\ checked' = checked \cup {Target(i)}
                /\ pending' = IF Arch = "arm64" THEN pending \cup {Target(i)} ELSE {}
           ELSE UNCHANGED <<checked, pending>>
        /\ IF EndsStretch(i) THEN phase' = "next" /\ at' = at
           ELSE at' = EndOf(i) /\ phase' = phase
  BY DEF Search
<1>2. phase = "search" /\ input' = input /\ start' = start
  BY DEF Search
<1>3. i \in Range(Code) /\ i.at = at
  BY DEF Here
<1>4. input \in Inputs /\ budget \in Int /\ i.size \in Nat
  BY <1>3, InstructionFacts, InputsAreCode DEF TypeInv, RelocationTypeOK, RelocationAssumption
<1>5. phase' \in {"search", "next"}
  BY <1>1, <1>2
<1>6. (Arch = "thumb" => pending = {}) /\ Arch \in {"arm64", "thumb"}
  BY <1>2 DEF SearchInv, TypeInv, MaySearch
<1>7. Arch = "thumb" => pending' = {}
  BY <1>1, <1>6
<1>8. ASSUME HasNotRunOut'
      PROVE  \E D \in SUBSET Addresses : Explored(D)'
  <2>1. HasNotRunOut
    <3>1. budget' \in Int /\ budget' <= budget
      BY <1>1, <1>4
    <3> QED
      BY <1>2, <1>4, <1>8, <3>1, BytesLeftStay
  <2>2. PICK D \in SUBSET Addresses : Explored(D)
    BY <1>2, <2>1 DEF SearchInv
  <2> DEFINE open == pending' \cup {a \in {at'} : phase' = "search"}
  <2>0. PICK E : E = D \cup {at}
    OBVIOUS
  <2>3. E \in SUBSET Addresses
    BY <1>3, <2>0 DEF Addresses
  <2>4. open = Open'
    BY DEF Open
  <2>5. pending \subseteq pending' /\ checked \subseteq checked'
    BY <1>1, <1>6
  <2>6. \A a : a \in D \cup Open => a \in E \cup open
    BY <1>2, <2>0, <2>5 DEF Open
  <2>7. \A a : Ahead(D, a) => a \in E \cup open \/ a \notin Addresses
    BY <2>6 DEF Ahead
  <2>8. /\ Ahead(D, start)
        /\ Arch = "arm64" => \A a \in checked : Ahead(D, a)
        /\ \A j \in Range(Code) :
             j.at \in D =>
               /\ Follows(j) => Target(j) \in checked
               /\ ~EndsStretch(j) => Ahead(D, EndOf(j))
    BY <2>2 DEF Explored
  <2>9. start' \in E \cup open \/ start' \notin Addresses
    BY <1>2, <2>7, <2>8
  <2>10. Arch = "arm64" => \A a \in checked' : a \in E \cup open \/ a \notin Addresses
    <3>1. \A a \in checked' : a \in checked \/ (a = Target(i) /\ (Arch = "arm64" => a \in pending'))
      BY <1>1
    <3> QED
      BY <2>7, <2>8, <3>1
  <2>11. ASSUME NEW j \in Range(Code), j.at \in E
         PROVE  /\ Follows(j) => Target(j) \in checked'
                /\ ~EndsStretch(j) => EndOf(j) \in E \cup open \/ EndOf(j) \notin Addresses
    <3>1. CASE j.at \in D
      BY <2>5, <2>7, <2>8, <3>1
    <3>2. CASE j.at = at
      <4>1. j = i
        BY <1>3, <1>4, <3>2, AddressesAreUnique
      <4>2. Follows(i) => Target(i) \in checked'
        BY <1>1
      <4>3. ~EndsStretch(i) => EndOf(i) \in open
        BY <1>1, <1>2
      <4> QED
        BY <4>1, <4>2, <4>3
    <3> QED
      BY <2>0, <2>11, <3>1, <3>2
  <2> HIDE DEF open
  <2>12. Explored(E)'
    BY <1>2, <2>4, <2>9, <2>10, <2>11, ExploredBecomes
  <2> QED
    BY <2>3, <2>12
<1> QED
  BY <1>2, <1>5, <1>7, <1>8, SearchInvBecomes

\* With bytes left it only stops where there is no code.
LEMMA SearchStopsSearches ==
  ASSUME TypeInv, SearchInv, SearchStops \/ SearchNext
  PROVE  SearchInv'
<1>1. /\ UNCHANGED <<input, start, checked, budget>>
      /\ phase \in {"search", "next"} /\ phase' \in {"search", "next"}
  BY DEF SearchStops, SearchNext, search
<1>2. Arch = "thumb" => pending' = {}
  BY <1>1 DEF SearchInv, SearchStops, SearchNext, search
<1>3. ASSUME HasNotRunOut'
      PROVE  \E D \in SUBSET Addresses : Explored(D)'
  <2>1. HasNotRunOut
    BY <1>1, <1>3 DEF HasNotRunOut, Code
  <2>2. PICK D \in SUBSET Addresses : Explored(D)
    BY <1>1, <2>1 DEF SearchInv
  <2> DEFINE open == pending' \cup {a \in {at'} : phase' = "search"}
  <2>3. open = Open'
    BY DEF Open
  <2>4. \A a : Ahead(D, a) => a \in D \cup open \/ a \notin Addresses
    <3>1. CASE SearchStops
      <4>1. Here(at) = {}
        <5>1. ASSUME NEW i \in Here(at)
              PROVE  FALSE
          <6>1. i \in Range(Code)
            BY DEF Here
          <6>2. i.size \in Nat /\ budget \in Int
            BY <6>1, InstructionFacts, InputsAreCode DEF TypeInv, RelocationTypeOK, RelocationAssumption
          <6>3. i.size > budget
            BY <3>1 DEF SearchStops
          <6>4. i.size <= budget
            BY <2>1, <6>1 DEF HasNotRunOut
          <6> QED
            BY <6>2, <6>3, <6>4
        <5> QED
          BY <5>1
      <4>2. at \notin Addresses
        BY <4>1 DEF Here, Addresses
      <4>3. pending' = pending
        BY <3>1 DEF SearchStops, search
      <4> QED
        BY <4>2, <4>3 DEF Ahead, Open
    <3>2. CASE SearchNext
      <4>1. /\ phase = "next" /\ phase' = "search"
            /\ \E a \in pending : at' = a /\ pending' = pending \ {a}
        BY <3>2 DEF SearchNext
      <4>2. pending \subseteq open
        BY <4>1
      <4>3. Open = pending
        BY <4>1 DEF Open
      <4> QED
        BY <4>2, <4>3 DEF Ahead
    <3> QED
      BY <3>1, <3>2
  <2>5. /\ Ahead(D, start)
        /\ Arch = "arm64" => \A a \in checked : Ahead(D, a)
        /\ \A j \in Range(Code) :
             j.at \in D =>
               /\ Follows(j) => Target(j) \in checked
               /\ ~EndsStretch(j) => Ahead(D, EndOf(j))
    BY <2>2 DEF Explored
  <2> HIDE DEF open
  <2>6. Explored(D)'
    BY <1>1, <2>3, <2>4, <2>5, ExploredBecomes
  <2> QED
    BY <2>2, <2>6
<1> QED
  BY <1>1, <1>2, <1>3, SearchInvBecomes

LEMMA BranchesAreFollowed ==
  ASSUME MaySearch, NEW i, Branches(i)
  PROVE  Follows(i)
<1>1. CASE Arch = "thumb"
  BY <1>1 DEF Branches, Follows, ThumbLooksAt
<1>2. CASE Arch = "arm64"
  BY <1>2 DEF Branches, Follows, Arm64Follows
<1> QED
  BY <1>1, <1>2 DEF MaySearch

\* When nothing is left all that can be reached has been explored.
LEMMA SearchEndsSearches ==
  ASSUME TypeInv, SearchInv, SearchEnds
  PROVE  SearchInv'
<1>1. /\ phase = "next" /\ pending = {} /\ n' = LimitedBy(checked, n) /\ phase' = "plan"
      /\ UNCHANGED <<input, start, budget, checked>>
  BY DEF SearchEnds, search
<1>2. input \in Inputs /\ MaySearch /\ checked \subseteq Int /\ n \in Nat
  BY <1>1 DEF TypeInv, RelocationTypeOK
<1>3. ASSUME HasNotRunOut'
      PROVE  NoneBranchedInto(n')
  <2>1. HasNotRunOut
    BY <1>1, <1>3 DEF HasNotRunOut, Code
  <2>2. PICK D \in SUBSET Addresses : Explored(D)
    BY <1>1, <2>1 DEF SearchInv
  <2>3. Open = {}
    BY <1>1 DEF Open
  <2>4. \A a \in Addresses : Ahead(D, a) => a \in D
    BY <2>3 DEF Ahead
  <2>5. /\ Ahead(D, start)
        /\ Arch = "arm64" => \A a \in checked : Ahead(D, a)
        /\ \A j \in Range(Code) :
             j.at \in D =>
               /\ Follows(j) => Target(j) \in checked
               /\ ~EndsStretch(j) => Ahead(D, EndOf(j))
    BY <2>2 DEF Explored
  <2>6. IsClosed(D)
    <3>1. SUFFICES ASSUME NEW i \in Range(Code), i.at \in D, NEW a \in Successors(i), a \in Addresses
                   PROVE  a \in D
      BY DEF IsClosed
    <3>2. CASE ~EndsStretch(i) /\ a = EndOf(i)
      BY <2>4, <2>5, <3>1, <3>2
    <3>3. CASE Arch = "arm64" /\ Branches(i) /\ a = Target(i)
      <4>1. Follows(i)
        BY <1>2, <3>3, BranchesAreFollowed
      <4>2. Target(i) \in checked
        BY <2>5, <3>1, <4>1
      <4> QED
        BY <2>4, <2>5, <3>1, <3>3, <4>2
    <3> QED
      BY <3>1, <3>2, <3>3 DEF Successors
  <2>7. ReachableFrom(start) \subseteq D
    <3>1. start \in Addresses => start \in D
      BY <2>4, <2>5
    <3> QED
      BY <2>2, <2>6, <3>1 DEF ReachableFrom
  <2>8. ASSUME NEW i \in Range(Code), Branches(i), i.at \in ReachableFrom(start)
        PROVE  ~Inside(Target(i), n')
    <3>1. Follows(i)
      BY <1>2, <2>8, BranchesAreFollowed
    <3>2. Target(i) \in checked
      BY <2>5, <2>7, <2>8, <3>1
    <3>3. ~Inside(Target(i), LimitedBy(checked, n))
      BY <1>2, <3>2, LimitedByTargets
    <3> QED
      BY <1>1, <3>3
  <2> QED
    BY <2>8 DEF NoneBranchedInto
<1>4. HasNotRunOut' => NoneBranchedInto(n)'
  <2>1. PICK m : m = n'
    OBVIOUS
  <2>2. HasNotRunOut' => NoneBranchedInto(m)'
    BY <1>1, <1>3, <2>1, BranchesStay
  <2> QED
    BY <2>1, <2>2 DEF NoneBranchedInto
<1> QED
  BY <1>1, <1>2, <1>4, SearchInvBecomes

LEMMA SearchStep ==
  ASSUME TypeInv, ScanInv, SearchInv, [Next]_vars
  PROVE  SearchInv'
<1>1. ASSUME UNCHANGED <<input, n, start, at, budget, checked, pending>>,
             \/ phase' = phase
             \/ phase \in {"plan", "read", "write"} /\ phase' \notin {"search", "next"}
             \/ phase' \in {"scan", "scanned", "refused"}
      PROVE  SearchInv'
  <2>1. HasNotRunOut' => HasNotRunOut
    BY <1>1 DEF HasNotRunOut, Code
  <2>2. NoneBranchedInto(n) => NoneBranchedInto(n)'
    <3>1. PICK m : m = n
      OBVIOUS
    <3>2. NoneBranchedInto(m) => NoneBranchedInto(m)'
      BY <1>1, BranchesStay
    <3> QED
      BY <1>1, <3>1, <3>2 DEF NoneBranchedInto
  <2>3. ASSUME phase' \in {"search", "next"}, HasNotRunOut'
        PROVE  \E D \in SUBSET Addresses : Explored(D)'
    <3>1. phase' = phase
      BY <1>1, <2>3
    <3>2. PICK D \in SUBSET Addresses : Explored(D)
      BY <2>1, <2>3, <3>1 DEF SearchInv
    <3>3. Explored(D)'
      BY <1>1, <3>1, <3>2
         DEF Explored, Ahead, Open, Addresses, Follows, Target, EndsStretch, Code, Arch
    <3> QED
      BY <3>2, <3>3
  <2>4. phase' \in {"search", "next"} /\ Arch = "thumb" => pending' = {}
    BY <1>1 DEF SearchInv
  <2>5. phase' \in {"plan", "read", "write", "done"} /\ checked' # {} =>
          /\ MaySearch
          /\ HasNotRunOut => NoneBranchedInto(n)
    BY <1>1 DEF SearchInv, SearchMade
  <2> QED
    BY <1>1, <2>1, <2>2, <2>3, <2>4, <2>5, SearchInvBecomes
<1>2. CASE UNCHANGED vars
  BY <1>1, <1>2 DEF vars, search
<1>3. CASE Scan
  <2>1. /\ input' = input /\ checked' = {} /\ phase' \in {"scan", "scanned", "plan"}
    BY <1>3 DEF Scan, ScanInv, search
  <2> QED
    BY <2>1, SearchInvBecomes
<1>4. CASE ScanEnds
  BY <1>1, <1>4 DEF ScanEnds, search
<1>5. CASE Prepare \/ Read \/ ReadEnds \/ Write \/ Finish
  <2>1. /\ UNCHANGED <<input, n, start, at, budget, checked, pending>>
        /\ phase \in {"plan", "read", "write"} /\ phase' \in {"refused", "read", "write", "done"}
    BY <1>5 DEF Prepare, Read, ReadEnds, Write, Finish, search
  <2> QED
    BY <1>1, <2>1
<1> QED
  BY <1>2, <1>3, <1>4, <1>5, BeginSearchSearches, SearchSearches, SearchStopsSearches,
     SearchEndsSearches DEF Next, Ended

-----------------------------------------------------------------------------
(* Theorems *)

LEMMA InvInit ==
  ASSUME Init
  PROVE  RelocationInv
<1>1. TypeInv
  BY TypeInit
<1>2. phase = "scan" /\ inpos = 0 /\ eoi = FALSE /\ n = 0 /\ checked = {}
  BY DEF Init
<1>3. ScanInv
  BY <1>2 DEF ScanInv, ReadBytes
<1>4. CoverInv
  <2>1. ReadableTo(0)
    BY <1>1, InputFacts DEF TypeInv, ReadableTo
  <2> QED
    BY <1>2, <2>1 DEF CoverInv
<1> QED
  BY <1>1, <1>2, <1>3, <1>4 DEF RelocationInv, MoveInv, SearchInv

LEMMA InvStep ==
  ASSUME RelocationInv, [Next]_vars
  PROVE  RelocationInv'
BY TypeStep, ScanStep, MoveStep, CoverStep, SearchStep DEF RelocationInv

\* Of the code of any function, whatever was asked for, no more instructions
\* are read than there are, the search reads no more bytes than it may, and the
\* copy is of what was read and the way back (the relocators,
\* _hoox_interceptor_backend_create_trampoline).
THEOREM RelocationTyped == Spec => []RelocationTypeOK
<1>1. RelocationInv => RelocationTypeOK
  BY DEF RelocationInv, TypeInv
<1> QED
  BY <1>1, InvInit, InvStep, PTL DEF Spec

\* No call that was under way in any function when it was hooked returns into
\* the redirect, whatever the instructions, the processor and the size of the
\* redirect (can_relocate's online scenario, prepare_trampoline and
\* create_trampoline, which must agree on how much is moved).
THEOREM NoReturn == Spec => []NoReturnIntoTheRedirect
<1>1. ASSUME RelocationInv
      PROVE  NoReturnIntoTheRedirect
  <2>1. SUFFICES ASSUME phase = "done", Matters, ~input.force,
                        NEW k \in 1 .. inpos, Waits(Code[k]), Inside(EndOf(Code[k]), RelocBytes)
                 PROVE  FALSE
    BY DEF NoReturnIntoTheRedirect, Matters
  <2>2. /\ input \in Inputs /\ inpos \in 0 .. Len(Code) /\ n \in Nat /\ size \in Nat
        /\ NoneWaited(n) /\ size <= n
        /\ \A j \in 1 .. inpos : j < inpos => BytesTo(j) < size
    BY <1>1, <2>1 DEF RelocationInv, TypeInv, RelocationTypeOK, ScanInv, MoveInv
  <2>3. k \in DOMAIN Code /\ inpos \in DOMAIN Code /\ inpos # 0 /\ k \in Nat /\ inpos \in Nat
    BY <2>1, <2>2, InputFacts
  <2>4. size <= BytesTo(k) /\ BytesTo(k) \in Nat
    BY <2>1, <2>2, <2>3, BytesFacts DEF NoneWaited
  <2>5. ~(k < inpos)
    BY <2>2, <2>4
  <2>6. k = inpos
    BY <2>3, <2>5
  <2>7. RelocBytes = BytesTo(k)
    BY <2>2, <2>3, <2>4, <2>6 DEF RelocBytes, ReadBytes, BytesTo
  <2>8. EndOf(Code[k]) < input.from + BytesTo(k)
    BY <2>1, <2>7 DEF Inside
  <2>9. EndOf(Code[k]) \in Nat /\ input.from \in Nat
    BY <2>2, <2>3, InputFacts DEF EndOf
  <2> QED
    BY <2>8, <2>9 DEF BytesTo
<1> QED
  BY <1>1, InvInit, InvStep, PTL DEF Spec

\* No branch that can be reached behind what was read of a function leads into
\* the redirect, whatever the code, its loops and the order in which the search
\* takes its branches, when it has the bytes for them (can_relocate of arm64
\* and Thumb, prepare_trampoline).
THEOREM NoBranch == Spec => []NoBranchIntoTheRedirect
<1>1. ASSUME RelocationInv
      PROVE  NoBranchIntoTheRedirect
  <2>1. SUFFICES ASSUME phase = "done", SearchMade, ~input.force, HasNotRunOut,
                        NEW i \in Range(Code), Branches(i), Inside(Target(i), size),
                        i.at \in ReachableFrom(start)
                 PROVE  FALSE
    BY DEF NoBranchIntoTheRedirect
  <2>2. input \in Inputs /\ MaySearch /\ n \in Nat /\ size \in Nat /\ size <= n /\ NoneBranchedInto(n)
    BY <1>1, <2>1 DEF RelocationInv, TypeInv, RelocationTypeOK, MoveInv, SearchInv
  <2>3. Target(i) \in Int /\ input.from \in Nat
    BY <2>1, <2>2, BranchesAreFollowed, TargetsAreNumbers, InputFacts
  <2>4. Inside(Target(i), n)
    BY <2>1, <2>2, <2>3 DEF Inside
  <2> QED
    BY <2>1, <2>2, <2>4 DEF NoneBranchedInto
<1> QED
  BY <1>1, InvInit, InvStep, PTL DEF Spec

\* Whatever the code, and wherever its branches, its ends and what cannot be
\* read of it are, a redirect overwrites only what was moved, but for the
\* padding behind a function of Thumb that ends there (can_relocate, of which
\* create_trampoline must read the same again).
THEOREM OnlyMovedCode == Spec => []OnlyMovedCodeIsOverwritten
<1>1. ASSUME RelocationInv
      PROVE  OnlyMovedCodeIsOverwritten
  <2>1. SUFFICES ASSUME phase = "done", ~input.force
                 PROVE  \/ size <= ReadBytes
                        \/ /\ Arch = "thumb" /\ eoi /\ size <= ReadBytes + 2
                           /\ inpos < Len(Code) /\ Code[inpos + 1].id = "nop"
    BY DEF OnlyMovedCodeIsOverwritten
  <2>2. /\ inpos \in 0 .. Len(Code) /\ eoi \in BOOLEAN /\ size # 0 /\ CoveredBy(inpos, size)
        /\ (~eoi /\ inpos > 0 => ~EndsInput(Code[inpos]))
    BY <1>1, <2>1 DEF RelocationInv, TypeInv, RelocationTypeOK, MoveInv, CoverInv
  <2>3. inpos > 0
    BY <2>2 DEF CoveredBy, PaddingBehind
  <2>4. ReadBytes = BytesTo(inpos)
    BY <2>3 DEF ReadBytes, BytesTo
  <2> QED
    BY <2>2, <2>3, <2>4 DEF CoveredBy, PaddingBehind
<1> QED
  BY <1>1, InvInit, InvStep, PTL DEF Spec
=============================================================================
