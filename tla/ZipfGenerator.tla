---------------------------- MODULE ZipfGenerator ---------------------------
(* genzipf.cc: rand_val(), the multiplicative generator of Jain in integer  *)
(* arithmetic that does not overflow, and zipf(), which maps its value to a *)
(* rank. The state outlives the calls: x and c are static. The floating     *)
(* point numbers of zipf() are fractions here: Weight[i] stands for         *)
(* 1 / i^alpha and c for 1 / total, so sum_prob >= z with z = x / M reads   *)
(* SumTo[i] * M >= x * total; rounding is left out.                         *)
EXTENDS Integers

CONSTANTS
  A, M, Q, R,   \* a, m, q = m div a and r = m mod a of rand_val()
  Weight,       \* a sequence, Weight[i] for rank i
  MaxItems      \* its length

ASSUME LehmerAssumption ==
  /\ A \in Nat /\ M \in Nat /\ Q \in Nat /\ R \in Nat
  /\ M = A * Q + R /\ 0 < R /\ R < Q /\ 1 < A
\* M is a prime, and so does not divide A * v: said of the two terms that
\* rand_val() subtracts.
ASSUME PrimeAssumption ==
  \A u \in 0..(Q - 1), v \in 0..A :
    A * u = R * v => <<u, v>> \in {<<0, 0>>, <<R, A>>}
ASSUME WeightAssumption ==
  MaxItems \in Nat /\ Weight \in [1..MaxItems -> Nat \ {0}]

VARIABLES
  x,        \* static x of rand_val(), 0 until it is seeded
  total,    \* what the static c of zipf() divides by, 0 before the first call
  calls,    \* where the caller is: "idle", "pull", "map", "returned", or
            \* "failed" (an assertion)
  rank      \* the value zipf() returned last

gvars == <<x, total, calls, rank>>

\* The sum of the first i weights.
SumTo[i \in 0..MaxItems] == IF i = 0 THEN 0 ELSE SumTo[i - 1] + Weight[i]

GInit == x = 0 /\ total = 0 /\ calls = "idle" /\ rank = 0

\* init_zipf(), which turns down a seed that is not positive.
Seeds == 1..M
Seed(s) ==
  /\ calls \in {"idle", "returned"}
  /\ x' = s /\ calls' = "idle" /\ UNCHANGED <<total, rank>>

\* zipf(alpha, n) begins; the constant is computed by the first call only.
Call(n) ==
  /\ calls \in {"idle", "returned"}
  /\ total' = IF total = 0 THEN SumTo[n] ELSE total
  /\ calls' = "pull" /\ UNCHANGED <<x, rank>>

\* rand_val(0): A * v mod M, computed from the quotient and the remainder.
\* Mutant: the quotient and the remainder are swapped.
NextSwapped(v) ==
  LET new == A * (v \div Q) - R * (v % Q) IN IF new > 0 THEN new ELSE new + M
NextValue(v) ==
  LET new == A * (v % Q) - R * (v \div Q) IN IF new > 0 THEN new ELSE new + M

\* z is 0 or 1: another number is pulled.
Rejected(v) == v = 0 \/ v = M
Pull ==
  /\ calls = "pull"
  /\ x' = NextValue(x)
  /\ calls' = IF Rejected(x') THEN "pull" ELSE "map"
  /\ UNCHANGED <<total, rank>>

\* The first rank of the n whose cumulated probability reaches z.
Reached(n) == {i \in 1..n : SumTo[i] * M >= x * total}
Return(n) ==
  /\ calls = "map" /\ Reached(n) # {}
  /\ rank' \in Reached(n) /\ \A i \in Reached(n) : rank' <= i
  /\ calls' = "returned" /\ UNCHANGED <<x, total>>

\* None does: zipf_value is not initialised, and may pass the assertion on
\* its range or not.
ReturnAnything(n) ==
  /\ calls = "map" /\ Reached(n) = {}
  /\ \/ rank' \in 1..n /\ calls' = "returned"
     \/ rank' = 0 /\ calls' = "failed"
  /\ UNCHANGED <<x, total>>

\* The generator with any caller.
GNext ==
  \/ \E s \in Seeds : Seed(s)
  \/ Pull
  \/ \E n \in 1..MaxItems : Call(n) \/ Return(n) \/ ReturnAnything(n)
GSpec == GInit /\ [][GNext]_gvars

GTypeOK ==
  /\ x \in 0..M
  /\ calls \in {"idle", "pull", "map", "returned", "failed"}
  /\ rank \in 0..MaxItems
=============================================================================
