------------------------------- MODULE MCPorts -------------------------------
(***************************************************************************)
(* Scenarios for Ports.                                                    *)
(***************************************************************************)
EXTENDS Ports

Scenario(in, out, writers, ops) ==
  [in |-> in, out |-> out, ops |-> ops, hook |-> FALSE, writers |-> writers,
   seeks |-> 0 .. FileLen, sizes |-> 1 .. MaxToken,
   sends |-> {-1, 1, BufSize + 1}, logs |-> 2 * MaxSent]

MCScenarios ==
  {Scenario("pipe", "pipe", {1, 2}, {"token", "peek", "unread", "blit", "write", "wclose"}),
   [Scenario("pipe", "pipe", {1}, {"token", "peek", "blit", "timeout", "write", "wclose",
                                   "wtimeout"}) EXCEPT !.sizes = {1}],
   [Scenario("pipe", "pipe", {1}, {"token", "peek", "blit", "timeout", "write", "wclose"})
      EXCEPT !.sizes = {2}],
   Scenario("pipe", "pipe", {1, 2}, {"token", "close", "write", "wclose"}),
   Scenario("pipe", "pipe", {1, 2}, {"token", "barrier", "write", "wclose"}),
   Scenario("file", "file", {}, {"token", "peek", "unread", "blit", "seek"}),
   Scenario("string", "file", {}, {"token", "peek", "unread", "blit", "seek"}),
   Scenario("procedure", "file", {}, {"token", "peek", "unread", "blit"}),
   Scenario("mmap", "file", {}, {"token", "peek", "unread", "blit", "seek"}),
   Scenario("console", "pipe", {1}, {"token", "write", "wclose"}),
   Scenario("procedure", "procedure", {1}, {"peek", "send"}),
   Scenario("mmap", "file", {1}, {"peek", "send"}),
   Scenario("string", "file", {1}, {"peek", "send"}),
   Scenario("file", "file", {1}, {"send"}),
   Scenario("file", "procedure", {1, 2}, {"write", "wclose"}),
   Scenario("file", "string", {1, 2}, {"write", "wclose"}),
   Scenario("file", "file", {1, 2}, {"write", "wclose"}),
   Scenario("file", "console", {1}, {"write", "wclose"}),
   Scenario("file", "stdout", {1}, {"write", "wclose"}),
   [Scenario("file", "file", {1, 2}, {"write", "wclose"}) EXCEPT !.hook = TRUE, !.logs = 6]}
=============================================================================
