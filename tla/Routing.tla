------------------------------ MODULE Routing -------------------------------
(***************************************************************************)
(* Which device a request goes to: the proxy looks at its text             *)
(* (Proxy::GetDeviceId), the device that gets it at the path it parses     *)
(* from that text (Device::HandleRequest).  The path of the client's       *)
(* request is typed one character at a time.                               *)
(***************************************************************************)
EXTENDS HttpMessages

CONSTANTS
    Ids,            \* the devices' names in the configuration
    Alphabet,
    MaxPath,        \* bound: length of a path
    ChunkSizes      \* max_aaa_size - 2

(* A name in the configuration has characters, and none that ends a path   *)
(* in the first line of a request (device0 and device1 in                  *)
(* config/global.json); a packet has room for more than its header.        *)
ASSUME RoutingAssumption ==
    /\ \A id \in Ids : id # <<>> /\ Range(id) \cap {SP, "?", LF} = {}
    /\ ChunkSizes \subseteq Nat \ {0}

VARIABLE path

TypePath(c) == Len(path) < MaxPath /\ path' = Append(path, c)

RoutingInit == path = <<>>

RoutingNext == \E c \in Alphabet : TypePath(c)

RoutingSpec == RoutingInit /\ [][RoutingNext]_path

TypePathOK == path \in Seq(Alphabet)

(* The text a client sends.                                                *)
Text == <<"G", SP>> \o path \o <<SP, "H", "T", "T", "P", "/", "1", CR, LF>>

Routed == GetDeviceId(Text) \in Ids

(* As the device parses it.                                                *)
Parsed == RequestLine(Before(Text, Find(Text, LF)))

(* A request that is routed to a device and that the device can parse is   *)
(* for this device: it never answers "Wrong device." to a path that begins *)
(* with a slash (proxy.cpp:251, on the text, against device.cpp:166, on    *)
(* the path).                                                              *)
RoutedToItsDevice ==
    path # <<>> /\ path[1] = "/" /\ Routed /\ Parsed.ok =>
        LET items == PathItems(Parsed.parts.path)
        IN  items # <<>> /\ items[1] = GetDeviceId(Text)

(* The chunks of a text are all of it in its order, none is empty, none    *)
(* too long, and there are no more than necessary (utility.cpp:8;          *)
(* SendDataDevice numbers them from their count down to 1).                *)
ChunksAreWhole ==
    \A size \in ChunkSizes :
        LET chunks == chunk_data(path, size)
        IN  /\ FlattenSeq(chunks) = path
            /\ \A k \in DOMAIN chunks :
                  IF k < Len(chunks) THEN Len(chunks[k]) = size
                                     ELSE Len(chunks[k]) \in 1 .. size

(* A file name the device accepts names a file in the device's directory,  *)
(* and a request path can carry it: it is one part of a path, and neither  *)
(* the directory nor the one above (utility.cpp:72, device.cpp:203).       *)
NameStaysInside ==
    is_valid_filename(path) =>
        /\ PathItems(<<"d", "/">> \o path) = << <<"d">>, path >>
        /\ path \notin {<<".">>, <<".", ".">>}
=============================================================================
