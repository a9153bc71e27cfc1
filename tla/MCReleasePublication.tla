------------------------ MODULE MCReleasePublication ------------------------
\* Instances of ReleasePublication for TLC.
EXTENDS ReleasePublication, TLC
=============================================================================
