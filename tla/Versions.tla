------------------------------ MODULE Versions ------------------------------
(***************************************************************************)
(* kube-core/src/version.rs: Version, and the orders of versions.          *)
(*                                                                         *)
(* A version string is given by what the parser looks at: whether it       *)
(* starts with a v, the digits after it, the letters after those, and the  *)
(* digits after those.  Its place in the alphabet stands for the text.     *)
(* Digits are << >> if there are none, else their value, which may be too  *)
(* large for u32.                                                          *)
(***************************************************************************)
EXTENDS Integers, Sequences

CONSTANT U32Max

Version(stability, major, minor, text) ==
    [stability |-> stability, major |-> major, minor |-> minor, text |-> text]

IsU32(digits) == digits # << >> /\ digits[1] <= U32Max

Conformant(s) ==
    /\ s.v
    /\ IsU32(s.major)
    /\ \/ s.letters = "" /\ s.minor = << >>
       \/ s.letters \in {"alpha", "beta"} /\ (s.minor = << >> \/ IsU32(s.minor))

parse(s) ==
    IF Conformant(s)
    THEN Version(CASE s.letters = "" -> "Stable"
                   [] s.letters = "beta" -> "Beta"
                   [] s.letters = "alpha" -> "Alpha", s.major[1], s.minor, 0)
    ELSE Version("Nonconformant", 0, << >>, s.text)

-----------------------------------------------------------------------------
(* Orders, as the fields to compare one after the other                    *)

Stability == [Nonconformant |-> 0, Alpha |-> 1, Beta |-> 2, Stable |-> 3]

\* None comes before Some
OptionRank(digits) == IF digits = << >> THEN -1 ELSE digits[1]

priority(v) == <<Stability[v.stability], v.major, OptionRank(v.minor), 0 - v.text>>

generation(v) == <<v.major, Stability[v.stability], OptionRank(v.minor), 0 - v.text>>

Less(a, b) == \E i \in 1..Len(a) : a[i] < b[i] /\ \A j \in 1..(i - 1) : a[j] = b[j]

=============================================================================
