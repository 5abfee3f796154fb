-------------------------- MODULE MCLearnerThreads --------------------------
\* LearnerThreads with four loop threads (one is always free), three commands,
\* two crashes of a loop and one death of the process.
EXTENDS LearnerThreads

CONSTANTS m1, m2, m3, m4

MCLoop == {m1, m2, m3, m4}

=============================================================================
