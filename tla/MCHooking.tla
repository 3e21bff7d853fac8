------------------------------ MODULE MCHooking ------------------------------
(***************************************************************************)
(* The hooks that Hooking is checked with: on each architecture, every way *)
(* the backend has of redirecting a function, and the functions that make  *)
(* it choose one.                                                          *)
(***************************************************************************)
EXTENDS Hooking

Arch(isa) ==
  [isa |-> isa, mode64 |-> FALSE, windows |-> FALSE, auth |-> FALSE, cet |-> FALSE,
   vectors |-> 32, faraway |-> FALSE, unaligned |-> FALSE]
Amd64 == [Arch("x86") EXCEPT !.mode64 = TRUE]
A32With(vectors) == [Arch("arm") EXCEPT !.vectors = vectors]
Thumb == [Arch("thumb") EXCEPT !.vectors = 16]
MCArchs ==
  {Amd64, [Amd64 EXCEPT !.faraway = TRUE], [Amd64 EXCEPT !.windows = TRUE], [Amd64 EXCEPT !.cet = TRUE],
   Arch("x86"), Arch("arm64"), [Arch("arm64") EXCEPT !.auth = TRUE],
   [Arch("arm64") EXCEPT !.faraway = TRUE],
   A32With(0), A32With(8), A32With(16), Thumb, [Thumb EXCEPT !.unaligned = TRUE, !.vectors = 0]}

\* A hook of a function that leaves room, each of the others changes.
Plain ==
  [fast |-> FALSE, custom |-> FALSE, hint |-> 0, limit |-> 64, near |-> FALSE, cave |-> FALSE,
   scratch |-> 0, force |-> FALSE, prologue |-> "plain", beyond |-> 0, grown |-> 0, dst |-> 0]
Fast(hooks) == hooks \cup {[h EXCEPT !.fast = TRUE] : h \in hooks}
Custom(hints) == {[Plain EXCEPT !.custom = TRUE, !.hint = n] : n \in hints}
Limited(hooks, limits, forces) ==
  {[h EXCEPT !.limit = n, !.force = f] : h \in hooks, n \in limits, f \in forces}
Nearby(hooks) == hooks \cup {[h EXCEPT !.near = TRUE] : h \in hooks}
Caved(hooks) == hooks \cup {[h EXCEPT !.cave = TRUE] : h \in hooks}
\* Instructions of one size end where the redirect does.
Beginning(hooks, prologues, beyond) ==
  {[h EXCEPT !.prologue = p, !.beyond = IF p = "plain" THEN beyond ELSE 0, !.grown = IF p = "plain" THEN 4 ELSE 0] :
     h \in hooks, p \in prologues}
Asking(hooks, registers) ==
  hooks \cup {[h EXCEPT !.prologue = "asks", !.dst = r] : h \in hooks, r \in registers}

X86Hooks ==
  Beginning(Nearby(Fast(Limited({Plain}, {4, 5, 16}, BOOLEAN))) \cup Limited(Nearby(Custom({0, 5, 16})), {4, 64}, {FALSE}),
            {"plain", "leaves"}, 2)
Arm64Hooks ==
  LET scratch(hooks) == {[h EXCEPT !.scratch = r] : h \in hooks, r \in {0, 15, 16}}
      some == scratch(Caved(Nearby(Fast(Limited({Plain}, {3, 4, 8, 16}, {FALSE}))))
                      \cup Limited({Plain}, {4}, {TRUE}) \cup Limited(Custom({0, 8, 16}), {64}, {FALSE}))
  IN  Beginning({h \in some : h.fast => ~h.cave}, {"plain", "leaves"}, 0)
        \cup Asking(scratch({Plain}), {0, 3, 20})
ArmHooks(t) ==
  LET some == Caved(Limited({Plain}, {3, 4, 6, 8, 10}, {FALSE})) \cup Limited({Plain}, {4}, {TRUE})
                \cup Limited(Custom({0, 8}), {64}, {FALSE}) \cup {[Plain EXCEPT !.fast = TRUE]}
  IN  Beginning(some, {"plain", "leaves"} \cup (IF t.isa = "thumb" THEN {"calls"} ELSE {}),
                IF t.isa = "thumb" THEN 2 ELSE 0)
        \cup (IF t.isa = "thumb" THEN Asking({Plain}, {3, 4, 12}) ELSE {})
MCHooks(t) ==
  CASE t.isa = "x86" -> X86Hooks
    [] t.isa = "arm64" -> Arm64Hooks
    [] OTHER -> ArmHooks(t)
MCChanging == BOOLEAN

=============================================================================
