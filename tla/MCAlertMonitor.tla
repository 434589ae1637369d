---------------------------- MODULE MCAlertMonitor ----------------------------
EXTENDS AlertMonitor

=============================================================================
