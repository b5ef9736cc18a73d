----------------------------- MODULE KcpProtocol -----------------------------
(***************************************************************************)
(* Wire-level arithmetic of kcp-core/src/protocol.rs.                      *)
(*                                                                         *)
(* Sequence numbers and millisecond timestamps are unsigned machine words  *)
(* that wrap around; all comparisons go through a wrapping subtraction     *)
(* reinterpreted as a signed word.  The code's words have 2^32 values; the *)
(* width is a parameter here so that wrap-around is within TLC's reach.    *)
(***************************************************************************)
EXTENDS Integers

CONSTANT Half      \* half the number of values of a word (2^31 in the code)

ASSUME HalfAssumption == Half \in Nat /\ Half >= 1

Word  == 2 * Half          \* number of values of a u32
Words == 0 .. (Word - 1)   \* the values of a u32

\* Variant for mutation: addition that does not wrap.
WrapAdd_plain(a, b) == a + b

\* u32 addition as the release profile compiles it (no overflow checks).
WrapAdd(a, b) == IF a + b >= Word THEN a + b - Word ELSE a + b

\* u32::wrapping_sub.
WrapSub(a, b) == IF a >= b THEN a - b ELSE a - b + Word

\* `later.wrapping_sub(earlier) as i32`.
time_diff(later, earlier) ==
    LET d == WrapSub(later, earlier) IN IF d < Half THEN d ELSE d - Word

\* Variant for mutation: comparison of the raw numbers.
seq_before_raw(seq1, seq2) == seq1 < seq2

seq_before(seq1, seq2) == time_diff(seq1, seq2) < 0

seq_after(seq1, seq2) == time_diff(seq1, seq2) > 0

\* The command bytes IKCP_CMD_*.
Cmds == {"PUSH", "ACK", "WASK", "WINS"}

Min2(a, b) == IF a <= b THEN a ELSE b
Max2(a, b) == IF a >= b THEN a ELSE b
Clamp(x, lo, hi) == IF x < lo THEN lo ELSE IF x > hi THEN hi ELSE x
DivCeil(a, b) == (a + b - 1) \div b
==============================================================================
