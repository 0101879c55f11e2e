---------------------------- MODULE MCClassApi ----------------------------
EXTENDS ClassApi

MCKeys == 1..2
MCValues == 0..1
=============================================================================
