----------------------------- MODULE MCHttpSession -----------------------------
(* Instances of HttpSession for TLC.                                         *)
EXTENDS HttpSession

\* A batch of two and a lone request.
Reqs3     == 1 .. 3
BatchOf21 == [r \in 1 .. 3 |-> IF r = 3 THEN 2 ELSE 1]

Once(some) == [f \in Faults |-> IF f \in some THEN 1 ELSE 0]

\* Tokens expire or age, refreshes fail in every way, requests fail, and the
\* application drops one.
RefreshLimits ==
  {Once(some) : some \in {{"age", "failRefresh"},
                          {"expire", "failRefresh", "lostRefresh", "cancel"},
                          {"expire", "badRefresh", "client"},
                          {"expire", "network"}, {"network", "server", "forbid"}}}

\* A request is dropped while it refreshes the pair.
CancelLimits == {Once({"expire", "cancel"})}
==============================================================================
