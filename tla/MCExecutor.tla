------------------------------ MODULE MCExecutor -----------------------------
(***************************************************************************)
(* Small instances of Executor.  Every run picks a pool and the calls that *)
(* may arrive, as many times as the callers like.                          *)
(***************************************************************************)
EXTENDS Executor, TLC

CONSTANTS py, cc,      \* an interpreted and a compiled language
          k1, k2, k3, k4, \* containers
          a, b,        \* two programs that compile
          z,           \* one that does not
          n,           \* one whose class is not Main
          s, t,        \* two stdins
          x1, x2, x3   \* calls

CallSymmetry == Permutations(Calls)

\* Containers too, where the pool holds all there are under one key: nothing
\* but their order in the Vec, where they start, tells them apart.
FullSymmetry == CallSymmetry \cup Permutations(Containers)

\* Pools.
PyOne == [k \in Keys |-> IF k = py THEN <<k1>> ELSE <<>>]
PyTwo == [k \in Keys |-> IF k = py THEN <<k1, k2>> ELSE <<>>]
PyFour == [k \in Keys |-> IF k = py THEN <<k1, k2, k3, k4>> ELSE <<>>]
CcOne == [k \in Keys |-> IF k = cc THEN <<k1>> ELSE <<>>]
CcThree == [k \in Keys |-> IF k = cc THEN <<k1, k2, k3>> ELSE <<>>]
Both == [k \in Keys |-> IF k = cc THEN <<k1>> ELSE <<k2>>]
BothMore == [k \in Keys |-> IF k = cc THEN <<k1, k3>> ELSE <<k2>>]

\* Calls.
One(k, p, i) == [kind |-> "single", key |-> k, code |-> p, stdins |-> <<i>>,
                 valid |-> TRUE]
Many(k, p, is) == [kind |-> "batch", key |-> k, code |-> p, stdins |-> is,
                   valid |-> TRUE]
Refused(j) == [j EXCEPT !.valid = FALSE]

Singles == {One(cc, a, NoStdin), One(cc, n, s), One(py, a, s), One(py, b, s),
            Refused(One(py, a, s))}
PyCrowd == {Many(py, a, <<s, t, NoStdin, t>>), One(py, a, s), Many(py, a, <<s>>),
            Refused(Many(py, a, <<s>>))}
CcBatches == {Many(cc, a, <<s, t, NoStdin>>), Many(cc, z, <<s, t>>),
              One(cc, b, s), One(cc, z, s)}
PyTwins == {Many(py, a, <<s, NoStdin>>), One(py, b, s), One(py, a, s)}
PyFair == PyTwins \cup {Refused(One(py, a, s))}
PyLong == {Many(py, a, <<s, t, NoStdin>>)}
CcBroken == {Many(cc, z, <<NoStdin, s>>)}
=============================================================================
