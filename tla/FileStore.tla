----------------------------- MODULE FileStore ------------------------------
(***************************************************************************)
(* What a device's files are to its clients: a map from names to contents  *)
(* in which a file is created once, read and deleted, each by one request  *)
(* that is carried out at once.  What fails on disk is told to the client, *)
(* but for a file that could not be opened or written.                     *)
(***************************************************************************)
CONSTANTS Names, Contents, Empty, Missing, FileFaults

VARIABLES
    fails,       \* what may go wrong
    files,
    response     \* the last answer: [op, name, status, body]

vars == <<fails, files, response>>

Present == {n \in Names : files[n] # Missing}

Respond(op, name, status, body) ==
    response' = [op |-> op, name |-> name, status |-> status, body |-> body]

Init ==
    /\ fails \in SUBSET FileFaults
    /\ files \in [Names -> Contents \cup {Missing}]
    /\ response = [op |-> "none", name |-> Missing, status |-> "", body |-> {}]

Holds(n, c) == files' = [files EXCEPT ![n] = c]

Create(n, c) ==
    \/ /\ files[n] # Missing
       /\ UNCHANGED files /\ Respond("create", n, "400", {})
    \/ /\ files[n] = Missing
       /\ \/ Holds(n, c)
          \/ "write" \in fails /\ Holds(n, Empty)
          \/ "open" \in fails /\ UNCHANGED files
       /\ Respond("create", n, "200", {})

(* The device died over it.                                                *)
CreateEmpty(n) ==
    /\ "crash" \in fails
    /\ files[n] = Missing
    /\ Holds(n, Empty)
    /\ UNCHANGED response

Read(n) ==
    /\ \/ files[n] # Missing /\ Respond("read", n, "200", {files[n]})
       \/ /\ files[n] = Missing \/ "open" \in fails
          /\ Respond("read", n, "400", {})
    /\ UNCHANGED files

Delete(n) ==
    \/ files[n] # Missing /\ Holds(n, Missing) /\ Respond("delete", n, "200", {})
    \/ files[n] = Missing /\ UNCHANGED files /\ Respond("delete", n, "404", {})
    \/ /\ files[n] # Missing /\ "remove" \in fails
       /\ UNCHANGED files /\ Respond("delete", n, "400", {})

List ==
    /\ \/ Respond("list", Missing, "200", Present)
       \/ "list" \in fails /\ Respond("list", Missing, "400", {})
    /\ UNCHANGED files

(* Whatever has nothing to do with the files.                              *)
Other ==
    /\ \E status \in {"200", "400", "501", "502"} :
          Respond("other", Missing, status, {})
    /\ UNCHANGED files

Next ==
    /\ \/ \E n \in Names :
             \/ Read(n) \/ Delete(n) \/ CreateEmpty(n)
             \/ \E c \in Contents : Create(n, c)
       \/ List \/ Other
    /\ UNCHANGED fails

Spec == Init /\ [][Next]_vars
=============================================================================
