----------------------- MODULE MCContainmentExecution -----------------------
(***************************************************************************)
(* Instances of ContainmentExecution for TLC: actions on an account that   *)
(* others protect and expose meanwhile, on an address of the baseline, and *)
(* on a host, approved or not.                                             *)
(***************************************************************************)
EXTENDS ContainmentExecution

CONSTANTS w1, w2, w3, w4, admin, resolver, host

Ask(k, t, a) == [kind |-> k, target |-> t, approved |-> a]
Disable == Ask("respond", admin, TRUE)
Block == Ask("block", resolver, TRUE)
Isolate == Ask("isolate", host, TRUE)
Expose == Ask("expose", admin, TRUE)
Protect == Ask("protect", admin, TRUE)

All(a, b, c, d) ==
  [w \in Writers |-> CASE w = w1 -> a [] w = w2 -> b [] w = w3 -> c [] w = w4 -> d]
MCAsks ==
  { All(Disable, Expose, Protect, Disable),
    All(Disable, Expose, Expose, Protect),
    All(Block, Ask("block", host, TRUE), Isolate, Ask("expose", host, TRUE)),
    All(Block, Ask("isolate", host, FALSE), Ask("isolate", admin, FALSE), Expose),
    All(Ask("protect", host, TRUE), Ask("isolate", host, FALSE), Ask("protect", host, TRUE),
        Ask("block", host, TRUE)) }
===============================================================================
