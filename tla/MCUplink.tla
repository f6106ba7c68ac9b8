------------------------------ MODULE MCUplink ------------------------------
EXTENDS Uplink

\* 5, 10, 20, ... 300 s, in ticks.
BackoffSteps == <<1, 2>>
=============================================================================
