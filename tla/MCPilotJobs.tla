---------------------------- MODULE MCPilotJobs ----------------------------
EXTENDS PilotJobs

\* The watched pilot and a second submission on the same files.
MCJobs == {"pilot", "second"}
=============================================================================
