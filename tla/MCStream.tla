------------------------------ MODULE MCStream ------------------------------
EXTENDS Stream

CONSTANTS origin, viewer
=============================================================================
