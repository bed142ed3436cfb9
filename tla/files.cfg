SPECIFICATION FilesSpec
CONSTANTS
    Id = "d"
    Requests <- AnyRequest
    Names = {"f", "g"}
    Contents = {"", "x", "y"}
    Empty = ""
    Missing = "missing"
    FileFaults = {"open", "write", "remove", "list", "crash"}
PROPERTIES KeepsFiles
CHECK_DEADLOCK FALSE
