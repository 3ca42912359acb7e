--------------------------- MODULE MC_MetaGateway ---------------------------
\* Three backends, tool lists of up to two tools.
EXTENDS MetaGateway

\* The limits a client passes: none is rejected, so 0 and below as well.
MCLimits == -1..3

\* The limit the spec singles out: 0.
MCZeroLimit == {0}
=============================================================================
