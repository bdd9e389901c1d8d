----------------------------- MODULE MCJobQueue -----------------------------
\* JobQueue for TLC: the whole queue, every caller and one or two waiters.
EXTENDS JobQueue
=============================================================================
