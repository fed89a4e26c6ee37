--------------------------- MODULE MCCommandKernel ---------------------------
(* Small instances of the command kernel for TLC. *)
EXTENDS CommandKernel

CONSTANTS k1, k2, k3, orderA, orderB, r1, route, worker

\* The same person on two sessions, another person, and a background service.
MCPrincipal ==
    {[kind |-> "person", subject |-> "ana", session |-> "s1"],
     [kind |-> "person", subject |-> "ana", session |-> "s2"],
     [kind |-> "person", subject |-> "badis", session |-> "s1"],
     [kind |-> "system", subject |-> "courier", session |-> "none"]}

Ana == [kind |-> "person", subject |-> "ana", session |-> "s1"]
Badis == [kind |-> "person", subject |-> "badis", session |-> "s1"]
Service == [kind |-> "system", subject |-> "courier", session |-> "none"]

Ask(key, agg, expected, op, principal, client) ==
    [key |-> key, principal |-> principal, client |-> client,
     content |-> [agg |-> agg, expected |-> expected, op |-> op, res |-> r1]]

\* One key asked by two persons, two layers and with two contents; two keys on
\* one aggregate; two aggregates that close the same reservation.
MCRequest ==
    {Ask(k1, orderA, 0, "open", Ana, route),
     Ask(k1, orderA, 0, "open", Badis, route),
     Ask(k1, orderB, 0, "close", Ana, worker),
     Ask(k2, orderA, 0, "close", Service, worker),
     Ask(k2, orderA, 1, "close", Ana, route),
     Ask(k3, orderB, 0, "close", Service, worker),
     Ask(k3, orderB, 0, "close", Service, route)}
=============================================================================
