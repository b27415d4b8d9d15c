----------------------------- MODULE MCEnetHost -----------------------------
(***************************************************************************)
(* TLC instances of EnetHost.                                              *)
(***************************************************************************)
EXTENDS EnetHost

CONSTANTS a, b

TwoHosts   == {a, b}
OneLimited == {b}

\* Values by host: what a has or does, what b has or does.
By(x, y) == [h \in Hosts |-> IF h = a THEN x ELSE y]

TwoZero == By(2, 0)
ZeroTwo == By(0, 2)
OneOne  == By(1, 1)
ZeroZero == By(0, 0)

ReconnectCalls == By({"send", "later", "disconnect", "reset"}, {"now"})
CrossCalls     == By({}, {"disconnect", "reset", "abandon"})
StaleCalls     == By({}, {"disconnect"})
SilentCalls    == By({"disconnect", "abandon"}, {})
=============================================================================
