------------------------- MODULE MCConnectionManager -------------------------
(* Two goroutines beside removals and Close, and two sessions.  The MySQL connection has  *)
(* an alias that is the name of the PostgreSQL connection's database.  What queries and   *)
(* switches name is that database, but for its case, and another.                         *)
EXTENDS ConnectionManager, TLC

CONSTANTS g1, g2, s1, s2, pg, sales, SALES, hr

MCFold == (sales :> sales) @@ (SALES :> sales) @@ (hr :> hr)
MCHome == (pg :> sales) @@ (sales :> hr)
Symmetry == Permutations({g1, g2}) \cup Permutations({s1, s2})
=============================================================================
