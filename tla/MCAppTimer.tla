----------------------------- MODULE MCAppTimer -----------------------------
EXTENDS AppTimer
=============================================================================
