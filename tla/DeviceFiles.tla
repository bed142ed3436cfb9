---------------------------- MODULE DeviceFiles -----------------------------
(***************************************************************************)
(* Device::HandleRequest (src/src/device/device.cpp): the routes of one    *)
(* device and its directory of files.  The handler runs to its end in one  *)
(* step, but for the creation of a file, which is on disk, empty, before   *)
(* its contents are.                                                       *)
(***************************************************************************)
EXTENDS Sequences

CONSTANTS
    Id,              \* the device's own name
    Requests,        \* [method, items, data]: items are the parts of the path,
                     \* data the X-Data header or Missing
    Names,           \* names is_valid_filename accepts
    Contents,
    Empty,           \* the contents of an empty file
    Missing,
    FileFaults       \* what may go wrong: "open", "write", "remove", "list",
                     \* "crash"

ASSUME DeviceFilesAssumption ==
    /\ Empty \in Contents
    /\ Missing \notin Contents
    /\ \A r \in Requests : r.items \in Seq(STRING) /\ r.data \in Contents \cup {Missing}

VARIABLES
    fails,        \* what may go wrong on this device, of FileFaults
    files,        \* the directory device_files/<id>
    creating,     \* the PUT whose file is open, or none: a set
    response      \* of the last request: [op, name, status, body]

filesVars == <<fails, files, creating, response>>

FilesTypeOK ==
    /\ fails \subseteq FileFaults
    /\ files \in [Names -> Contents \cup {Missing}]
    /\ creating \subseteq [name: Names, data: Contents]

FilesInit ==
    /\ fails \in SUBSET FileFaults
    /\ files \in [Names -> Contents \cup {Missing}]
    /\ creating = {}
    /\ response = [op |-> "none", name |-> Missing, status |-> "", body |-> {}]

-----------------------------------------------------------------------------
Reads(r) == r.method \in {"GET", "POST"}

(* The branch of HandleRequest that takes r.                               *)
Route(r) ==
    LET p == r.items
    IN  CASE p # <<>> /\ p[1] # Id -> "wrong"
          [] Len(p) = 2 /\ p[1] = Id /\ p[2] = "info" /\ Reads(r) -> "info"
          [] Len(p) = 2 /\ p[1] = Id /\ p[2] = "file" /\ Reads(r) -> "list"
          [] Len(p) = 3 /\ p[1] = Id /\ p[2] = "file" /\ p[3] \notin Names
             /\ (Reads(r) \/ r.method \in {"PUT", "DELETE"}) -> "badName"
          [] Len(p) = 3 /\ p[1] = Id /\ p[2] = "file" /\ p[3] \in Names
             /\ Reads(r) -> "read"
          [] Len(p) = 3 /\ p[1] = Id /\ p[2] = "file" /\ p[3] \in Names
             /\ r.method = "PUT" -> "create"
          [] Len(p) = 3 /\ p[1] = Id /\ p[2] = "file" /\ p[3] \in Names
             /\ r.method = "DELETE" -> "delete"
          [] OTHER -> "none"

Respond(op, name, status, body) ==
    response' = [op |-> op, name |-> name, status |-> status, body |-> body]

(* Run, when no PUT is half done: a request and its route.                 *)
Handle(r, route) == creating = {} /\ Route(r) = route

XData(r) == IF r.data = Missing THEN Empty ELSE r.data

(* Mutant of exists: the file is never there.                              *)
NeverThere(n) == FALSE

(* std::filesystem::exists.                                                *)
exists(n) == files[n] # Missing

(* Requests that do not touch the files; false is answered with 501.       *)
HandleOther(r) ==
    /\ \E route \in {"wrong", "info", "badName", "none"} :
          /\ Handle(r, route)
          /\ Respond("other", Missing,
                CASE route = "wrong" -> "502" [] route = "info" -> "200"
                  [] route = "badName" -> "400" [] route = "none" -> "501", {})
    /\ UNCHANGED <<files, creating>>

(* A directory_iterator that throws ends in 400.                           *)
HandleList(r) ==
    /\ Handle(r, "list")
    /\ \/ Respond("list", Missing, "200", {n \in Names : exists(n)})
       \/ "list" \in fails /\ Respond("list", Missing, "400", {})
    /\ UNCHANGED <<files, creating>>

(* file_to_string of a file that is not there: tellg is -1, and reserve    *)
(* throws.  So does one that cannot be opened.                             *)
HandleRead(r) ==
    /\ Handle(r, "read")
    /\ LET n == r.items[3]
       IN  \/ exists(n) /\ Respond("read", n, "200", {files[n]})
           \/ ~exists(n) /\ Respond("read", n, "400", {})
           \/ "open" \in fails /\ Respond("read", n, "400", {})
    /\ UNCHANGED <<files, creating>>

HandleCreateExists(r) ==
    /\ Handle(r, "create")
    /\ exists(r.items[3])
    /\ Respond("create", r.items[3], "400", {})
    /\ UNCHANGED <<files, creating>>

(* The std::ofstream is opened; if that fails nobody is told.              *)
HandleCreate(r) ==
    /\ Handle(r, "create")
    /\ LET n == r.items[3]
       IN  /\ ~exists(n)
           /\ creating' = {[name |-> n, data |-> XData(r)]}
           /\ \/ files' = [files EXCEPT ![n] = Empty]
              \/ "open" \in fails /\ UNCHANGED files
    /\ UNCHANGED response

(* The data is written, the stream closed and OK answered; a write that    *)
(* fails, or has no file, goes unnoticed.                                  *)
CreateWrites(put) ==
    /\ put \in creating
    /\ \/ exists(put.name) /\ files' = [files EXCEPT ![put.name] = put.data]
       \/ (~exists(put.name) \/ "write" \in fails) /\ UNCHANGED files
    /\ creating' = {}
    /\ Respond("create", put.name, "200", {})

(* std::filesystem::remove throws when it fails.                           *)
HandleDelete(r) ==
    /\ Handle(r, "delete")
    /\ LET n == r.items[3]
       IN  \/ /\ ~exists(n)
              /\ Respond("delete", n, "404", {}) /\ UNCHANGED files
           \/ /\ exists(n)
              /\ files' = [files EXCEPT ![n] = Missing]
              /\ Respond("delete", n, "200", {})
           \/ /\ exists(n) /\ "remove" \in fails
              /\ Respond("delete", n, "400", {}) /\ UNCHANGED files
    /\ UNCHANGED creating

(* The process dies with a file open, and is started again.                *)
Crash ==
    /\ "crash" \in fails
    /\ creating # {} /\ creating' = {}
    /\ UNCHANGED <<files, response>>

FilesNext ==
    /\ \/ \E r \in Requests :
             \/ HandleOther(r) \/ HandleList(r) \/ HandleRead(r)
             \/ HandleCreateExists(r) \/ HandleCreate(r) \/ HandleDelete(r)
       \/ \E put \in creating : CreateWrites(put)
       \/ Crash
    /\ UNCHANGED fails

FilesSpec == FilesInit /\ [][FilesNext]_filesVars

-----------------------------------------------------------------------------
(* A file that is being created is not yet there for a client.             *)
Visible ==
    [n \in Names |-> IF n \in {put.name : put \in creating} THEN Missing
                                                            ELSE files[n]]

Store == INSTANCE FileStore WITH files <- Visible

(* The device's directory is a file store: each request does at once what  *)
(* it does to one, and what fails shows as FileStore says (device.cpp,     *)
(* HandleRequest).                                                         *)
KeepsFiles == Store!Spec

(* The contents of a file never change, whatever fails: only the PUT that  *)
(* created it writes to it, and only a DELETE of its name removes it       *)
(* (device.cpp:223, the check before the file is opened, which truncates). *)
NeverOverwritten ==
    [][\A n \in Names :
          Visible[n] # Missing /\ Visible'[n] # Visible[n] =>
              /\ Visible'[n] = Missing
              /\ response'.op = "delete" /\ response'.name = n
              /\ response'.status = "200"]_filesVars

(* On a device where nothing fails, when a PUT is answered with OK the     *)
(* file is there with what was sent (device.cpp:245, "Created file").      *)
OkMeansCreated ==
    [][\A put \in creating :
          fails = {} /\ response' # response => files'[put.name] = put.data]_filesVars
=============================================================================
