--------------------------- MODULE MC_AmphoraAgent ---------------------------
EXTENDS AmphoraAgent

\* Two load balancers on one amphora and one LVS listener.
MCLBs == {"lb1", "lb2"}
MCLvs == {"udp1"}
MCNoLvs == {}

\* One request handler, or two handling requests at the same time.
MCOneThread == {"t1"}
MCTwoThreads == {"t1", "t2"}
=============================================================================
