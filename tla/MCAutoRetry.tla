---------------------------- MODULE MCAutoRetry ----------------------------
\* Instances of AutoRetry for TLC.
EXTENDS AutoRetry
=============================================================================
