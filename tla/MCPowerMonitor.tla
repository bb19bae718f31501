--------------------------- MODULE MCPowerMonitor ---------------------------
\* PowerMonitor on two brightness levels and a short event queue.
EXTENDS PowerMonitor

=============================================================================
