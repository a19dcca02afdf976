---------------------------- MODULE MCDashboard ----------------------------
EXTENDS Dashboard

\* A client in front of two servers.
TwoCards == <<2, 3>>
OneCard == <<2>>
=============================================================================
