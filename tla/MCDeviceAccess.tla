---------------------------- MODULE MCDeviceAccess --------------------------
EXTENDS DeviceAccess, TLC
CONSTANTS r1, r2, d1, d2, p1

Requests == {r1, r2}
Serials == {d1, d2}
Packages == {p1}
AllowedSerials == {d1, d2}
Stateful == {"inspector", "proxy_setup", "fuzz"}
RouteOffers == (r1 :> DOMAIN Routes) @@ (r2 :> Stateful)
\* Both devices and one package, or one device and no package.
SavedPolicies ==
    {[devices |-> {d1, d2}, packages |-> {p1}, actions |-> Actions],
     [devices |-> {d1}, packages |-> {}, actions |-> Actions]}
=============================================================================
