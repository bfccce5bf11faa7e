---------------------------- MODULE MCScheduler ----------------------------
\* The scheduler, for TLC: a slow job among quick ones.
EXTENDS Scheduler
=============================================================================
