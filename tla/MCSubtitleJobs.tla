--------------------------- MODULE MCSubtitleJobs ---------------------------
(* Small instances of SubtitleJobs for TLC.                                *)
EXTENDS SubtitleJobs, TLC
CONSTANTS w1, w2, j1, j2, h1, h2, h3, t1

MCTokenless == [w \in Worker |-> NoToken]
MCNoLimit   == <<>>

\* One token for all workers: one audio job and one subtitle job at a time.
MCOneToken == [w \in Worker |-> t1]
MCPerLine  == [t \in {t1} |-> [total |-> 0, audio |-> 1, subtitle |-> 1,
                              perWorkerAudio |-> 0, perWorkerSubtitle |-> 0]]

\* HTTP handlers are interchangeable, and so are jobs.
MCHandlers == Permutations(Handler \ {Ticker})
MCJobs     == Permutations(Job)

=============================================================================
