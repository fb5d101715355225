----------------------------- MODULE MCDevices -----------------------------
(***************************************************************************)
(* The services of Devices for TLC.                                        *)
(***************************************************************************)
EXTENDS Devices

AllMixes ==
    {"registry", "images", "screen", "launch", "iokit", "events", "callbacks", "playback",
     "network", "wifi", "udp", "batches", "gles", "textures", "calls", "phone", "debug"}
Bounds ==
    [m \in AllMixes |->
        CASE m \in {"launch", "iokit", "screen", "network", "batches", "textures"} -> 4
          [] m \in {"images", "udp"} -> 5
          [] m \in {"wifi", "gles"} -> 6
          [] m \in {"events", "playback"} -> 7
          [] m \in {"registry", "callbacks"} -> 8
          [] m = "debug" -> 12
          [] m = "calls" -> 13
          [] m = "phone" -> 17]
UserAddressesUsed == [f \in {"inet", "inet6"} |-> IF f = "inet" THEN {"desk"} ELSE {"local6"}]
\* The default route, and the one to the network of the lease.
RouteKeysUsed == {<<"inet", "default", FALSE>>, <<"inet", "lease", FALSE>>}
TwoThreads == {<<1, 1>>, <<1, 2>>, <<2, 1>>}

\* A texture beside the white pixel, two textures, and a surface with a texture.
DrawnUnitsUsed ==
    {<<<<"texture", "white">>, <<"texture", "a">>>>,
     <<<<"texture", "a">>, <<"texture", "b">>>>,
     <<<<"texture", "b">>, <<"texture", "white">>>>,
     <<<<"surface", 2>>, <<"texture", "a">>>>}
=============================================================================
