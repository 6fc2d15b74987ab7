---------------------------- MODULE MCModelCall ----------------------------
EXTENDS ModelCall

\* The backoffs of the code with the call interval as two units.
MCBackoffs == <<2, 4>>

\* Shorter and longer than the interval.
MCLatencies == {1, 3}
=============================================================================
