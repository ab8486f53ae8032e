----------------------------- MODULE MCHumanGate -----------------------------
EXTENDS HumanGate
=============================================================================
