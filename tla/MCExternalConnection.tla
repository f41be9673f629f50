------------------------ MODULE MCExternalConnection ------------------------
\* Instances of ExternalConnection for TLC.
EXTENDS ExternalConnection

=============================================================================
