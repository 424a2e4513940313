------------------------ MODULE MCRotatingFileSink -------------------------
EXTENDS RotatingFileSink

MCNames == 0 .. MaxFiles
=============================================================================
