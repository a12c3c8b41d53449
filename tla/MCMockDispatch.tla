--------------------------- MODULE MCMockDispatch ---------------------------
(* MockDispatch for TLC. *)
EXTENDS MockDispatch, TLC

CONSTANTS r1, r2, p1, p2, std, stdcall, m1, m2

Plain == {sig \in Signature : ~ sig.noexcept /\ sig.convention = std}
\* One return type and parameter list, every qualification.
Qualified == {sig \in Plain : sig.ret = r1 /\ sig.params = p1}
Unqualified == CHOOSE sig \in Qualified : ~ sig.const /\ sig.ref = "none"
ForLValues == CHOOSE sig \in Qualified : ~ sig.const /\ sig.ref = "&"

Rank(sig) ==
    (IF sig.const THEN 1 ELSE 0)
    + (CASE sig.ref = "none" -> 0 [] sig.ref = "&" -> 2 [] sig.ref = "&&" -> 4)

\* Every two qualifications in both orders, and three and four of them in
\* one; with a second signature that differs in its return type or its
\* parameters, or in what does not tell overloads apart: noexcept and the
\* call convention.
MCCandidates ==
    { <<a, b>> : a \in Qualified, b \in Qualified }
    \cup { q \in [1 .. 3 -> Qualified] : Rank(q[1]) < Rank(q[2]) /\ Rank(q[2]) < Rank(q[3]) }
    \cup { q \in [1 .. 4 -> Qualified] : IsOverloadSet(q) /\ \A i \in 1 .. 3 : Rank(q[i]) < Rank(q[i + 1]) }
    \cup { <<ForLValues, b>> : b \in {sig \in Plain : sig.ret = r2 /\ sig.params = p1} }
    \cup { <<Unqualified, b>> : b \in {sig \in Plain : sig.ret = r1 /\ sig.params = p2} }
    \cup { <<Unqualified, b>> :
             b \in {sig \in Signature : sig.ret = r1 /\ sig.params = p1 /\ sig.ref = "none"} }

Places == Permutations(Objects)
=============================================================================
