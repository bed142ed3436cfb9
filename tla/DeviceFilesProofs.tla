------------------------- MODULE DeviceFilesProofs --------------------------
(***************************************************************************)
(* Theorems about DeviceFiles: the type invariant, that files are never    *)
(* overwritten whatever fails, that OK means created where nothing does,   *)
(* and that the directory is a file store.                                 *)
(***************************************************************************)
EXTENDS DeviceFiles, TLAPS

(* What every request with data puts into a file.                          *)
LEMMA XDataType == \A r \in Requests : XData(r) \in Contents
BY DeviceFilesAssumption DEF XData

(* A request that is routed to a file names one of Names.                  *)
LEMMA RouteName ==
    \A r \in Requests :
        Route(r) \in {"read", "create", "delete"} => r.items[3] \in Names
BY DEF Route

(* The directory maps names to contents, and an open PUT has both.         *)
THEOREM FilesTypeCorrect == FilesSpec => []FilesTypeOK
<1>1. FilesInit => FilesTypeOK
  BY DEF FilesInit, FilesTypeOK
<1>2. FilesTypeOK /\ [FilesNext]_filesVars => FilesTypeOK'
  <2> SUFFICES ASSUME FilesTypeOK, [FilesNext]_filesVars
               PROVE  FilesTypeOK'
    OBVIOUS
  <2> USE DEF FilesTypeOK
  <2>0. fails' \subseteq FileFaults
    BY DEF FilesNext, filesVars
  <2>1. CASE UNCHANGED filesVars
    BY <2>1 DEF filesVars
  <2>2. ASSUME NEW r \in Requests,
               HandleOther(r) \/ HandleList(r) \/ HandleRead(r) \/ HandleCreateExists(r)
        PROVE  FilesTypeOK'
    BY <2>0, <2>2 DEF HandleOther, HandleList, HandleRead, HandleCreateExists
  <2>3. ASSUME NEW r \in Requests, HandleCreate(r)
        PROVE  FilesTypeOK'
    <3>1. r.items[3] \in Names /\ XData(r) \in Contents
      BY <2>3, RouteName, XDataType DEF HandleCreate, Handle
    <3>2. files' \in [Names -> Contents \cup {Missing}]
      BY <2>3, <3>1, DeviceFilesAssumption DEF HandleCreate
    <3>3. QED
      BY <2>0, <2>3, <3>1, <3>2 DEF HandleCreate
  <2>4. ASSUME NEW r \in Requests, HandleDelete(r)
        PROVE  FilesTypeOK'
    BY <2>0, <2>4 DEF HandleDelete
  <2>5. ASSUME NEW put \in creating, CreateWrites(put)
        PROVE  FilesTypeOK'
    BY <2>0, <2>5 DEF CreateWrites
  <2>6. CASE Crash
    BY <2>0, <2>6 DEF Crash
  <2>7. QED
    BY <2>1, <2>2, <2>3, <2>4, <2>5, <2>6 DEF FilesNext
<1>3. QED
  BY <1>1, <1>2, PTL DEF FilesSpec

-----------------------------------------------------------------------------
(* What a step may do to a file that clients can see.                      *)
KeptOrDeleted ==
    \A n \in Names :
        Visible[n] # Missing /\ Visible'[n] # Visible[n] =>
            /\ Visible'[n] = Missing
            /\ response'.op = "delete" /\ response'.name = n
            /\ response'.status = "200"

LEMMA StepKeepsFiles == FilesTypeOK /\ [FilesNext]_filesVars => KeptOrDeleted
<1> SUFFICES ASSUME FilesTypeOK, [FilesNext]_filesVars
             PROVE  KeptOrDeleted
  OBVIOUS
<1> USE DEF FilesTypeOK, KeptOrDeleted, Visible
<1>1. CASE UNCHANGED <<files, creating>>
  BY <1>1
<1>2. ASSUME NEW r \in Requests, HandleCreate(r)
      PROVE  KeptOrDeleted
  <2>1. creating = {} /\ files[r.items[3]] = Missing
    BY <1>2 DEF HandleCreate, Handle, exists
  <2>2. \A n \in Names : n # r.items[3] => files'[n] = files[n]
    BY <1>2 DEF HandleCreate
  <2>3. {put.name : put \in creating'} = {r.items[3]}
    BY <1>2 DEF HandleCreate
  <2>4. QED
    BY <2>1, <2>2, <2>3
<1>3. ASSUME NEW r \in Requests, HandleDelete(r)
      PROVE  KeptOrDeleted
  <2>1. creating = {} /\ creating' = {}
    BY <1>3 DEF HandleDelete, Handle
  <2>2. CASE UNCHANGED files
    BY <2>1, <2>2
  <2>3. CASE /\ files' = [files EXCEPT ![r.items[3]] = Missing]
             /\ Respond("delete", r.items[3], "200", {})
    BY <2>1, <2>3 DEF Respond
  <2>4. QED
    BY <1>3, <2>2, <2>3 DEF HandleDelete
<1>4. ASSUME NEW put \in creating, CreateWrites(put)
      PROVE  KeptOrDeleted
  <2>1. put.name \in {p.name : p \in creating} /\ creating' = {}
    BY <1>4 DEF CreateWrites
  <2>2. \A n \in Names : n # put.name => files'[n] = files[n]
    BY <1>4 DEF CreateWrites
  <2>3. QED
    BY <2>1, <2>2
<1>5. CASE Crash
  BY <1>5 DEF Crash
<1>6. QED
  <2>1. ASSUME NEW r \in Requests,
               HandleOther(r) \/ HandleList(r) \/ HandleRead(r) \/ HandleCreateExists(r)
        PROVE  UNCHANGED <<files, creating>>
    BY <2>1 DEF HandleOther, HandleList, HandleRead, HandleCreateExists
  <2>2. QED
    BY <1>1, <1>2, <1>3, <1>4, <1>5, <2>1 DEF FilesNext, filesVars

(* Whatever fails on disk, and wherever the device dies, a file that is    *)
(* there keeps its contents until a DELETE of its name is answered with OK *)
(* (device.cpp, HandleRequest).                                            *)
THEOREM NeverOverwrittenHolds == FilesSpec => NeverOverwritten
<1>1. FilesTypeOK /\ [FilesNext]_filesVars => [KeptOrDeleted]_filesVars
  BY StepKeepsFiles
<1>2. QED
  BY <1>1, FilesTypeCorrect, PTL DEF FilesSpec, NeverOverwritten, KeptOrDeleted

-----------------------------------------------------------------------------
(* There is one open PUT at most, and its file is there, empty, or could   *)
(* not be opened.                                                          *)
OpenPut ==
    \A put \in creating :
        /\ creating = {put}
        /\ files[put.name] = Empty \/ (files[put.name] = Missing /\ "open" \in fails)

LEMMA OpenPutHolds == FilesSpec => []OpenPut
<1>1. FilesInit => OpenPut
  BY DEF FilesInit, OpenPut
<1>2. FilesTypeOK /\ OpenPut /\ [FilesNext]_filesVars => OpenPut'
  <2> SUFFICES ASSUME FilesTypeOK, OpenPut, [FilesNext]_filesVars
               PROVE  OpenPut'
    OBVIOUS
  <2>1. CASE UNCHANGED <<fails, files, creating>>
    BY <2>1 DEF OpenPut
  <2>2. ASSUME NEW r \in Requests, HandleCreate(r), UNCHANGED fails
        PROVE  OpenPut'
    <3>1. r.items[3] \in Names /\ files[r.items[3]] = Missing
      BY <2>2, RouteName DEF HandleCreate, Handle, exists
    <3>2. QED
      BY <2>2, <3>1 DEF HandleCreate, OpenPut, FilesTypeOK
  <2>3. CASE creating' = {}
    BY <2>3 DEF OpenPut
  <2>4. QED
    BY <2>1, <2>2, <2>3 DEF FilesNext, filesVars, HandleOther, HandleList, HandleRead,
       HandleCreateExists, HandleDelete, CreateWrites, Crash, Handle
<1>3. QED
  BY <1>1, <1>2, FilesTypeCorrect, PTL DEF FilesSpec

(* What a step that answers a PUT has done, on a device where nothing fails.*)
CreatedIfAnswered ==
    \A put \in creating :
        fails = {} /\ response' # response => files'[put.name] = put.data

LEMMA StepCreates ==
    FilesTypeOK /\ OpenPut /\ [FilesNext]_filesVars => CreatedIfAnswered
<1> SUFFICES ASSUME FilesTypeOK, OpenPut, [FilesNext]_filesVars,
                    NEW put \in creating, fails = {}, response' # response
             PROVE  files'[put.name] = put.data
  BY DEF CreatedIfAnswered
<1>1. put.name \in Names /\ creating = {put}
  BY DEF FilesTypeOK, OpenPut
<1>2. exists(put.name)
  BY DeviceFilesAssumption DEF OpenPut, exists
<1>3. CreateWrites(put)
  <2>1. ~Crash
    BY DEF Crash
  <2>2. \A r \in Requests :
           ~(\/ HandleOther(r) \/ HandleList(r) \/ HandleRead(r)
             \/ HandleCreateExists(r) \/ HandleCreate(r) \/ HandleDelete(r))
    BY DEF HandleOther, HandleList, HandleRead, HandleCreateExists, HandleCreate,
           HandleDelete, Handle
  <2> QED
    BY <1>1, <2>1, <2>2 DEF FilesNext, filesVars
<1>4. files' = [files EXCEPT ![put.name] = put.data]
  BY <1>2, <1>3 DEF CreateWrites
<1> QED
  BY <1>1, <1>4 DEF FilesTypeOK

(* Where nothing fails, a PUT that is answered with OK has left the file   *)
(* with what was sent (device.cpp:245): nothing comes between the opening  *)
(* of the file and the write.                                              *)
THEOREM OkMeansCreatedHolds == FilesSpec => OkMeansCreated
<1>1. FilesTypeOK /\ OpenPut /\ [FilesNext]_filesVars
        => [CreatedIfAnswered]_filesVars
  BY StepCreates
<1>2. QED
  BY <1>1, FilesTypeCorrect, OpenPutHolds, PTL
     DEF FilesSpec, OkMeansCreated, CreatedIfAnswered

-----------------------------------------------------------------------------
LEMMA StepImplements ==
    ASSUME FilesTypeOK, OpenPut, [FilesNext]_filesVars
    PROVE  [Store!Next]_Store!vars
<1> USE DEF FilesTypeOK, Visible, Store!Respond, Respond
<1>1. CASE UNCHANGED filesVars
  BY <1>1 DEF filesVars, Store!vars
<1>2. ASSUME NEW r \in Requests, HandleOther(r)
      PROVE  Store!Other
  BY <1>2 DEF HandleOther, Store!Other
<1>3. ASSUME NEW r \in Requests, HandleList(r)
      PROVE  Store!List
  <2>1. creating = {} /\ Visible = files /\ UNCHANGED Visible
    BY <1>3 DEF HandleList, Handle
  <2>2. {n \in Names : exists(n)} = Store!Present
    BY <2>1 DEF exists, Store!Present
  <2>3. QED
    BY <1>3, <2>1, <2>2 DEF HandleList, Store!List
<1>4. ASSUME NEW r \in Requests, HandleRead(r)
      PROVE  r.items[3] \in Names /\ Store!Read(r.items[3])
  <2>1. creating = {} /\ Visible = files /\ UNCHANGED Visible
    BY <1>4 DEF HandleRead, Handle
  <2>2. QED
    BY <1>4, <2>1, RouteName DEF HandleRead, Handle, exists, Store!Read
<1>5. ASSUME NEW r \in Requests, HandleCreateExists(r)
      PROVE  \E n \in Names, c \in Contents : Store!Create(n, c)
  <2>1. creating = {} /\ Visible = files /\ UNCHANGED Visible
    BY <1>5 DEF HandleCreateExists, Handle
  <2>2. Store!Create(r.items[3], Empty)
    BY <1>5, <2>1 DEF HandleCreateExists, exists, Store!Create
  <2>3. QED
    BY <1>5, <2>2, RouteName, DeviceFilesAssumption DEF HandleCreateExists, Handle
<1>6. ASSUME NEW r \in Requests, HandleCreate(r)
      PROVE  UNCHANGED <<Visible, response>>
  <2>1. creating = {} /\ files[r.items[3]] = Missing /\ r.items[3] \in Names
    BY <1>6, RouteName DEF HandleCreate, Handle, exists
  <2>2. /\ {put.name : put \in creating'} = {r.items[3]}
        /\ \A n \in Names : n # r.items[3] => files'[n] = files[n]
    BY <1>6 DEF HandleCreate
  <2>3. Visible' = Visible
    BY <2>1, <2>2
  <2>4. QED
    BY <1>6, <2>3 DEF HandleCreate
<1>7. ASSUME NEW put \in creating, CreateWrites(put)
      PROVE  \E n \in Names, c \in Contents : Store!Create(n, c)
  <2>1. put.name \in Names /\ put.data \in Contents /\ creating = {put}
    BY DEF OpenPut
  <2>2. Visible[put.name] = Missing /\ creating' = {} /\ Visible' = files'
    <3>1. files' \in [Names -> Contents \cup {Missing}]
      BY <1>7, <2>1 DEF CreateWrites
    <3>2. QED
      BY <1>7, <2>1, <3>1 DEF CreateWrites
  <2>3. ASSUME NEW c \in Contents \cup {Missing}, files' = [files EXCEPT ![put.name] = c]
        PROVE  Visible' = [Visible EXCEPT ![put.name] = c]
    <3>1. {p.name : p \in creating} = {put.name}
      BY <2>1
    <3>2. Visible = [n \in Names |-> IF n = put.name THEN Missing ELSE files[n]]
      BY <3>1
    <3>3. files' \in [Names -> Contents \cup {Missing}]
      BY <2>3
    <3>4. \A n \in Names : files'[n] = IF n = put.name THEN c ELSE files[n]
      BY <2>3
    <3>5. [Visible EXCEPT ![put.name] = c]
            = [n \in Names |-> IF n = put.name THEN c ELSE files[n]]
      BY <2>1, <3>2
    <3>6. Visible' = [n \in Names |-> files'[n]]
      BY <2>2, <3>3
    <3>7. QED
      BY <3>4, <3>5, <3>6
  <2>4. CASE exists(put.name) /\ files' = [files EXCEPT ![put.name] = put.data]
    <3>1. Store!Holds(put.name, put.data)
      BY <2>1, <2>3, <2>4 DEF Store!Holds
    <3>2. QED
      BY <1>7, <2>1, <2>2, <3>1 DEF CreateWrites, Store!Create
  <2>5. CASE exists(put.name) /\ "write" \in fails /\ UNCHANGED files
    <3>1. files' = [files EXCEPT ![put.name] = Empty]
      BY <2>1, <2>5 DEF OpenPut, exists
    <3>2. Store!Holds(put.name, Empty)
      BY <2>1, <2>3, <3>1, DeviceFilesAssumption DEF Store!Holds
    <3>3. QED
      BY <1>7, <2>1, <2>2, <2>5, <3>2 DEF CreateWrites, Store!Create
  <2>6. CASE ~exists(put.name) /\ UNCHANGED files
    <3>1. "open" \in fails
      BY <2>6, DeviceFilesAssumption DEF OpenPut, exists
    <3>2. Visible' = Visible
      BY <2>1, <2>2, <2>6 DEF exists
    <3>3. QED
      BY <1>7, <2>1, <2>2, <3>1, <3>2 DEF CreateWrites, Store!Create
  <2>7. QED
    BY <1>7, <2>4, <2>5, <2>6 DEF CreateWrites
<1>8. ASSUME NEW r \in Requests, HandleDelete(r)
      PROVE  r.items[3] \in Names /\ Store!Delete(r.items[3])
  <2>1. creating = {} /\ creating' = {} /\ Visible = files /\ Visible' = files'
    <3>1. files' \in [Names -> Contents \cup {Missing}]
      BY <1>8 DEF HandleDelete
    <3>2. QED
      BY <1>8, <3>1 DEF HandleDelete, Handle
  <2>2. r.items[3] \in Names
    BY <1>8, RouteName DEF HandleDelete, Handle
  <2>3. QED
    BY <1>8, <2>1, <2>2 DEF HandleDelete, exists, Store!Delete, Store!Holds
<1>9. ASSUME Crash
      PROVE  \/ \E n \in Names : Store!CreateEmpty(n)
             \/ UNCHANGED <<Visible, response>>
  <2>1. PICK put \in creating : TRUE
    BY <1>9 DEF Crash
  <2>2. put.name \in Names /\ creating = {put} /\ creating' = {} /\ Visible' = files
    BY <1>9, <2>1 DEF Crash, OpenPut
  <2>3. CASE files[put.name] = Empty
    <3>1. Visible' = [Visible EXCEPT ![put.name] = Empty] /\ Visible[put.name] = Missing
      <4>1. Visible \in [Names -> Contents \cup {Missing}] /\ Visible[put.name] = Missing
        BY <2>2
      <4>2. \A n \in Names : n # put.name => Visible[n] = files[n]
        BY <2>2
      <4>3. files = [Visible EXCEPT ![put.name] = Empty]
        BY <2>2, <2>3, <4>1, <4>2
      <4>4. QED
        BY <2>2, <4>1, <4>3
    <3>2. Store!CreateEmpty(put.name)
      BY <1>9, <3>1 DEF Crash, Store!CreateEmpty, Store!Holds
    <3>3. QED
      BY <2>2, <3>2
  <2>4. CASE files[put.name] = Missing
    <3>1. Visible' = Visible
      BY <2>2, <2>4
    <3>2. QED
      BY <1>9, <3>1 DEF Crash
  <2>5. QED
    BY <2>1, <2>3, <2>4 DEF OpenPut
<1>10. CASE FilesNext
  <2>1. UNCHANGED fails
    BY <1>10 DEF FilesNext
  <2>2. CASE UNCHANGED <<Visible, response>>
    BY <2>1, <2>2 DEF Store!vars
  <2>3. QED
    BY <1>2, <1>3, <1>4, <1>5, <1>6, <1>7, <1>8, <1>9, <1>10, <2>1, <2>2
       DEF FilesNext, Store!Next
<1>11. QED
  BY <1>1, <1>10

(* Every request to a device does to its directory what it does to a file  *)
(* store, at once, and what fails on disk, or the device's death, does what*)
(* FileStore allows (device.cpp, HandleRequest).                           *)
THEOREM ImplementsFileStore == FilesSpec => KeepsFiles
<1>1. FilesInit => Store!Init
  <2> SUFFICES ASSUME FilesInit
               PROVE  Store!Init
    OBVIOUS
  <2>1. Visible = files
    BY DEF FilesInit, Visible
  <2>2. QED
    BY <2>1 DEF FilesInit, Store!Init
<1>2. FilesTypeOK /\ OpenPut /\ [FilesNext]_filesVars => [Store!Next]_Store!vars
  BY StepImplements
<1>3. QED
  BY <1>1, <1>2, FilesTypeCorrect, OpenPutHolds, PTL DEF FilesSpec, KeepsFiles, Store!Spec
=============================================================================
