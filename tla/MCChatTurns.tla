---- MODULE MCChatTurns ----
EXTENDS ChatTurns, SequencesExt

CONSTANTS u1, u2, q1, f1

\* Two turns of one user, who may repeat the message, and one of another who sends the same.
MCOwner == 1 :> u1 @@ 2 :> u1 @@ 3 :> u2
MCAsks  == 1 :> q1 @@ 2 :> q1 @@ 3 :> q1

\* Two users whose names differ in characters that a directory's name leaves out.
MCFolderOf == u1 :> f1 @@ u2 :> f1

\* Merged is what saving the messages of a batch one by one leaves, here for a
\* question and the two texts of its answer.
Some == {[role |-> "user", of |-> q1]} \cup [role : {"assistant"}, of : {1}, as : {"saved", "shown"}]
UpTo(n) == UNION {[1 .. m -> Some] : m \in 0 .. n}

ASSUME MergedFolds ==
    \A seq \in UpTo(2), posted \in UpTo(3) :
        Merged(seq, posted) = FoldLeft(WithRow, seq, posted)
====
