---- MODULE MCRegistrySetup ----
(* Model checking RegistrySetup: two networks, given together or one by    *)
(* one, and a host whose address has that of the first as a part.          *)
EXTENDS RegistrySetup
MCFinds == {<<h, h>> : h \in Hosts} \cup {<<"lan", "wlan">>}
MCArguments == {<<"lan", "vpn">>, <<"vpn">>, <<"lan", "lan">>, <<"wlan">>}
====
