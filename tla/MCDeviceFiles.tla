--------------------------- MODULE MCDeviceFiles ----------------------------
(* Instances of DeviceFiles for TLC.                                       *)
EXTENDS DeviceFiles

(* Paths that lead to every route and past it: "?" is no valid name.       *)
Paths ==
    {<<>>, <<"d">>, <<"e", "info">>, <<"d", "info">>, <<"d", "file">>,
     <<"d", "file", "?">>, <<"d", "info", "f">>, <<"d", "file", "f", "g">>}
    \cup { <<"d", "file", n>> : n \in Names }

AnyRequest ==
    [method: {"GET", "POST", "PUT", "DELETE", "HEAD"}, items: Paths,
     data: Contents \cup {Missing}]
=============================================================================
