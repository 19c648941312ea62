------------------------ MODULE MC_FailoverAdvertiser ------------------------
EXTENDS FailoverAdvertiser

\* A dual-stack load balancer (two VIPs) and a member subnet with one
\* fixed IP; v6 is plugged while the advertiser runs.
MCLists == [vip |-> <<"v6", "v4">>, member |-> <<"m1">>]
MCPlugged == {"v4", "m1"}
MCNone == {}
\* The IPv6 VIP's interface never appears.
MCDeadV6 == {"v6"}
=============================================================================
