------------------------------ MODULE MCService ------------------------------
(***************************************************************************)
(* Small instances of Service.                                             *)
(***************************************************************************)
EXTENDS Service, TLC

CONSTANTS py, cc,           \* languages
          c1, c2, c3,       \* containers
          wp, wq, wc,       \* workers: two for py, one for cc
          r1, r2, r3, r4,   \* requests
          s1                \* a WebSocket

Languages ==
  [x \in Calls \cup Containers |-> IF x \in {wc, c3} THEN cc ELSE py]
OneLanguage == [x \in Calls \cup Containers |-> py]

\* Batches, of which r1 is too large to run at once, a parallel request, singles.
Mixed == [r \in Requests |-> CASE r \in {r1, r3} -> "batch"
                               [] r = r4 -> "parallel"
                               [] OTHER -> "single"]
Singles == [r \in Requests |-> "single"]

Large == [r \in Requests |-> IF r = r1 THEN 3 ELSE 1]
Pair == [r \in Requests |-> IF r = r1 THEN 2 ELSE 1]
Ones == [r \in Requests |-> 1]
=============================================================================
