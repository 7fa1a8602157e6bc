--------------------------- MODULE MCSysEventQueue ---------------------------
EXTENDS SysEventQueue
=============================================================================
