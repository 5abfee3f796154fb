---------------------------- MODULE MCDirections ----------------------------
\* Directions with two topics, one of which others ask for as well.
EXTENDS Directions

CONSTANTS t1, t2
MCTopic == {t1, t2}
MCGoal == {t2}

=============================================================================
