---------------------------- MODULE MCKeyframes -----------------------------
EXTENDS Keyframes, TLC
=============================================================================
