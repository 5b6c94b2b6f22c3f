---------------------------- MODULE MCCandidates ----------------------------
EXTENDS Candidates

OtherContents(c) == Contents \ {c}
=============================================================================
