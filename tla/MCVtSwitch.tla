----------------------------- MODULE MCVtSwitch -----------------------------
\* Instances of VtSwitch for TLC: SIGHUP, SIGUSR1, SIGUSR2, SIGALRM, SIGTERM.
EXTENDS VtSwitch

AllSignals == {1, USR1, USR2, 14, SIGTERM}
=============================================================================
