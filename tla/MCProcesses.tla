------------------------------ MODULE MCProcesses ------------------------------
\* The children of two workers that share two engines.
EXTENDS Processes
=============================================================================
