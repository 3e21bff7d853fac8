-------------------------------- MODULE Words --------------------------------
(***************************************************************************)
(* Instruction words, and what the code writers share.                     *)
(*                                                                         *)
(* A word is the set of its bits that are 1, so that the source's `|` is a *)
(* union and a mask an intersection.  Numbers keep their width: a field    *)
(* takes the low bits of a number in two's complement.                     *)
(***************************************************************************)
EXTENDS Integers, Sequences, FiniteSetsExt, SequencesExt

none == "none"

-----------------------------------------------------------------------------
(* Bits *)

\* (n & mask of `width` bits) << at
HasBit(n, k) == IF k = 31 THEN n < 0 ELSE (n \div 2^k) % 2 = 1
Field(n, width, at) == {at + k : k \in {i \in 0..(width - 1) : HasBit(n, i)}}
Flag(b, at) == IF b THEN {at} ELSE {}
Half(n) == Field(n, 16, 0)
Word(high, low) == Field(high, 16, 16) \cup Half(low)

\* (w >> at) & mask of `width` bits
Value(w, at, width) == SumSet({2^(i - at) : i \in w \cap (at..(at + width - 1))})
Signed(n, width) == IF n >= 2^(width - 1) THEN n - 2^width ELSE n
SignedValue(w, at, width) == Signed(Value(w, at, width), width)
Matches(w, mask, pattern) == w \cap mask = pattern

\* HOOX_IS_WITHIN_INTn_RANGE and HOOX_IS_WITHIN_UINTn_RANGE
Fits(n, width) == n >= -(2^(width - 1)) /\ n < 2^(width - 1)
FitsUnsigned(n, width) == n >= 0 /\ n < 2^width

\* The element of a set of one: a way to evaluate it once.
The(S) == CHOOSE x \in S : TRUE

\* What is left of base when Op has taken each element of s in turn; by halves,
\* so that s may be long.
InTurn(Op(_, _), base, s) ==
  LET RECURSIVE Taken(_, _, _)
      Taken(before, first, last) ==
        LET middle == (first + last) \div 2
        IN  CASE first > last -> before
              [] first = last -> Op(before, s[first])
              [] OTHER -> The({Taken(between, middle + 1, last) :
                                 between \in {Taken(before, first, middle)}})
  IN  Taken(base, 1, Len(s))

Absolute(n) == IF n < 0 THEN -n ELSE n
AlignedDown(a, size) == a - (a % size)

-----------------------------------------------------------------------------
(* Pieces: what one call of put_instruction puts, with the reference to a  *)
(* label or a literal that the caller notes just before it.  A refused     *)
(* request puts none.                                                      *)

NoLabel == [id |-> <<>>, type |-> none]
NoLiteral == [value |-> <<>>, width |-> 0]
Piece(words) == [words |-> words, label |-> NoLabel, literal |-> NoLiteral]
Insn(w) == <<Piece(<<w>>)>>
InsnIf(allowed, w) == IF allowed THEN Insn(w) ELSE <<>>
InsnTo(id, type, w) == <<[Piece(<<w>>) EXCEPT !.label = [id |-> id, type |-> type]]>>
InsnLoading(value, width, w) ==
  <<[Piece(<<w>>) EXCEPT !.literal = [value |-> value, width |-> width]]>>

\* A request: the operation, its registers (their bank and number), its
\* numbers, the words of a literal, the bits of a mask or list, its label.
Reg(bank, n) == [bank |-> bank, n |-> n]
NoReg == Reg(none, 0)
Request(op) ==
  [op |-> op, a |-> NoReg, b |-> NoReg, c |-> NoReg, n |-> 0, m |-> 0,
   value |-> <<>>, bits |-> {}, id |-> <<>>]

\* What a decoder makes of a word: the instruction, its condition plus one,
\* its registers, the address it names, its number, its immediate's bits.
Decoded(id, regs) ==
  [id |-> id, cc |-> 0, regs |-> regs, target |-> -1, n |-> 0, bits |-> {}]
DecodedTo(id, regs, target) == [Decoded(id, regs) EXCEPT !.target = target]

-----------------------------------------------------------------------------
(* A writer's state: where it writes, the words written, the labels        *)
(* defined, the references to labels and literals not yet committed, and   *)
(* the first instruction since the last pool that loads a literal.         *)

Nowhere == -1
NewWriter(at) ==
  [base |-> at, pc |-> at, code |-> <<>>, defs |-> <<>>, refs |-> <<>>,
   literals |-> <<>>, earliest |-> Nowhere]

\* Words of `size` bytes from pc on.
AppendWord(w, size, word) ==
  [w EXCEPT !.code = (w.pc :> word) @@ w.code, !.pc = w.pc + size]
AppendWords(w, size, words) ==
  InTurn(LAMBDA v, word : AppendWord(v, size, word), w, words)

\* add_label_reference_here, add_literal_reference_here
AddLabelReference(w, label) ==
  IF label = NoLabel THEN w
  ELSE [w EXCEPT !.refs = Append(@, [id |-> label.id, type |-> label.type, at |-> w.pc])]
AddLiteralReference(w, literal) ==
  IF literal = NoLiteral THEN w
  ELSE [w EXCEPT !.literals =
                   Append(@, [value |-> literal.value, width |-> literal.width, at |-> w.pc]),
                 !.earliest = IF @ = Nowhere THEN w.pc ELSE @]

\* put_label: refused for an id that has one.
DefineLabel(w, id) ==
  IF id \in DOMAIN w.defs THEN w ELSE [w EXCEPT !.defs = (id :> w.pc) @@ @]

\* reset, reset_refs
ForgetReferences(w) == [w EXCEPT !.refs = <<>>, !.literals = <<>>, !.earliest = Nowhere]

Patched(w, at, bits) == [w EXCEPT !.code[at] = @ \cup bits]

=============================================================================
