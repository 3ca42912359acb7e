--------------------------- MODULE MC_HttpBackend ---------------------------
(* HttpBackend for TLC: the concurrent requests are model values.          *)
EXTENDS HttpBackend

CONSTANTS c1, c2

MCClients == {c1, c2}

=============================================================================
