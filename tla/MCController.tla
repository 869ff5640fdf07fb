---------------------------- MODULE MCController ----------------------------
EXTENDS Controller, TLC
=============================================================================
