--------------------------- MODULE MCPendingQueue ---------------------------
\* PendingQueue with an entry the monitor approves and one it rejects, one thread of the API and the loop.
EXTENDS PendingQueue

CONSTANTS sure, junk, api

MCEntry == {sure, junk}
MCConfident == {sure}
MCWorthless == {junk}
MCApi == {api}

\* Without is what SelectSeq selects, here for the queues of up to three records.
SampleRecord == [id : MCEntry, pass : {0, 1}, fail : {0}]
Queues == UNION {[1 .. n -> SampleRecord] : n \in 0 .. 3}

ASSUME WithoutSelects ==
  \A q \in Queues, gone \in SUBSET MCEntry :
    Without(q, gone) = SelectSeq(q, LAMBDA r : r.id \notin gone)

=============================================================================
