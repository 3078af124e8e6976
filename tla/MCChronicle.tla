---------------------------- MODULE MCChronicle ----------------------------
(* An instance of Chronicle for TLC: two places, a purse that two purchases *)
(* exhaust and a price nobody can pay, a wait for the next noon, commits of *)
(* at most two items besides the clock, and three people to meet, one more  *)
(* than a catch-up asks and one with a rule of its own.                     *)
EXTENDS Chronicle

CONSTANTS hero, n1, n2, n3, here, there

Town == [n \in {n1, n2, n3} |-> there]

NextNoon == {[day |-> 2, band |-> 1]}
Hours == {[days |-> 0, bands |-> 0], [days |-> 0, bands |-> 5]}

Goes == Item("moved", hero, there, 1)
Told ==
  { <<Goes>>,
    << Item("moved", hero, there, 3), Item("moved", hero, here, Nothing) >>,
    << Item("moved", n1, here, Nothing), Item("declared", n2, "tracked", Nothing) >>,
    << Item("fact", hero, 1, Nothing) >>,
    << Item("evolved", hero, 0, Nothing) >>,
    << Item("declared", hero, "mentioned", Nothing), Goes >> }

Reflections == { <<<<n1, 0>>, <<hero, 0>>>>, <<<<hero, 0>>, <<n1, 1>>>> }
Stubborn == {<<n1, 1>>}
============================================================================
