--------------------------- MODULE MCServerRuntime ---------------------------
(* Configurations of ServerRuntime.                                          *)
EXTENDS ServerRuntime

One == [g \in Gates |-> 1]
Config(conns, tls, by, points) ==
  [limit |-> [One EXCEPT !["conn"] = conns], budget |-> 2, tls_enabled |-> tls,
   stopped_by |-> by, stop_points |-> points, interrupts |-> by = "signal"]

\* From the listener's creation on, and while a signal finds no lock held.
Listening == {"bind", "up"} \cup Serving \cup Cleaning
Unlocked == Listening \ {"track", "unlock"}

\* TLS with room for both connections; plain with room for one.
Stoppable == {Config(2, TRUE, "thread", Listening), Config(1, FALSE, "signal", Unlocked)}
\* The command line's SIGTERM handler, called at any point.
Terminated == {Config(1, FALSE, "signal", Starting \cup Serving \cup Cleaning)}
==============================================================================
