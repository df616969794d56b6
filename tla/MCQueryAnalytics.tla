------------------------- MODULE MCQueryAnalytics -------------------------
(***************************************************************************)
(* Small instances of QueryAnalytics for TLC.                              *)
(***************************************************************************)
EXTENDS QueryAnalytics

MCQueries == 1..2
MCQuery == 1..1
MCCost == [q \in Queries |-> 2 * q - 1]
MCOften == [q \in Queries |-> IF q = 1 THEN 4 ELSE 1]
MCThrice == [q \in Queries |-> 3]
MCWindows == {<<0, 2>>, <<1, 2>>}

===========================================================================
