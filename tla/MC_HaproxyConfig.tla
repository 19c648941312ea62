-------------------------- MODULE MC_HaproxyConfig --------------------------
EXTENDS HaproxyConfig

\* An IPv4 address (one symbol) and an IPv6 address (with a colon).
MCVips == {<<"a">>, <<"a", ":", "b">>}
MCModes == {"http", "tcp"}
=============================================================================
