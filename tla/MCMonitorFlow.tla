--------------------------- MODULE MCMonitorFlow ---------------------------
\* MonitorFlow with one reporting server and one monitor tool.
EXTENDS MonitorFlow
=============================================================================
