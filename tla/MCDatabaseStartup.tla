------------------------- MODULE MCDatabaseStartup -------------------------
(* The start of the database on a small instance: two lives of the desktop *)
(* or headless host and one of the MCP host.                               *)
EXTENDS DatabaseStartup

CONSTANTS app1, app2, mcp

MCProcs == {app1, app2, mcp}
MCApps == {app1, app2}
\* A restore may fail before the file is replaced, or after all is done but
\* the removal of the marker.
MCFailAt == {"copy", "dropRollback", "move", "dropWal", "unmark"}
=============================================================================
