--------------------------- MODULE MCDeviceGrabs ---------------------------
(* Instances of DeviceGrabs: a window manager and an application.           *)
EXTENDS DeviceGrabs

A(d, c, w, m, o) ==
    [dev |-> d, client |-> c, window |-> w, mode |-> m, otherMode |-> o]
P(x, c, w, m, o) ==
    [detail |-> x, client |-> c, window |-> w, mode |-> m, otherMode |-> o]

MCOwner == [w \in 2..Depth |-> "app"]
MCListener == [w \in Window |-> IF w = 1 THEN "wm" ELSE "app"]

MCActiveGrab == {A("keyboard", "app", 2, "sync", "sync")}
MCPassiveGrab == {P("b", "wm", 1, "async", "sync"), P("k", "wm", 1, "sync", "sync"),
                  P("k", "app", 2, "async", "async")}
MCActiveGrab2 == {A("pointer", "wm", 1, "async", "sync"),
                 A("keyboard", "app", 2, "sync", "async")}
MCPassiveGrab2 == {P("b", "wm", 1, "sync", "async")}
=============================================================================
