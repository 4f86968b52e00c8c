------------------------------ MODULE MCWidgets ------------------------------
(***************************************************************************)
(* Widgets for TLC: two devices of each kind, an interface and the VPN.    *)
(***************************************************************************)
EXTENDS Widgets

CONSTANTS k1, k2, eth, tun

MCKeys == <<k1, k2>>
MCScales == {-1, 0, 1, 2}
O(name) == [name |-> name, not |-> FALSE]
Not(name) == [name |-> name, not |-> TRUE]
MCOptions ==
    {<<O(All)>>, <<O(eth)>>, <<Not(eth)>>, <<O(tun)>>, <<O(All), O(eth)>>,
     <<O(tun), O(All)>>, <<O(All), Not(tun)>>}
=============================================================================
