------------------------------ MODULE Strings -------------------------------
(***************************************************************************)
(* The string functions of the programs' own: src/src/common/utility.cpp,  *)
(* Proxy::GetDeviceId and the split of a path in Device::HandleRequest.    *)
(* A text is a sequence of characters, of which only those a function      *)
(* looks for are told from the rest.                                       *)
(***************************************************************************)
EXTENDS Integers, SequencesExt

(* A space.                                                                *)
SP == " "

CONSTANTS
    Alnum,          \* characters that isalnum accepts
    MaxFilename     \* longest file name, 200 in the code

ASSUME StringsAssumption ==
    /\ Alnum \cap {"/", ".", "_", SP} = {}
    /\ MaxFilename \in Nat \ {0}

(* std::string::find of a character; npos is 0.                            *)
FindFrom(s, c, from) == SelectInSubSeq(s, from, Len(s), LAMBDA x : x = c)

Find(s, c) == FindFrom(s, c, 1)

(* The text after position k; all of it after npos.                        *)
After(s, k) == SubSeq(s, k + 1, Len(s))

(* The text before position k; all of it before npos.                      *)
Before(s, k) == IF k = 0 THEN s ELSE SubSeq(s, 1, k - 1)

Has(s, c) == Find(s, c) # 0

-----------------------------------------------------------------------------
(* Mutant of chunk_data: the rest that does not fill a chunk is dropped.   *)
WholeChunks(data, chunk_size) ==
    [k \in 1 .. Len(data) \div chunk_size |->
        SubSeq(data, (k - 1) * chunk_size + 1, k * chunk_size)]

(* For a chunk_size that is not 0; with 0 the loop of the code never ends. *)
chunk_data(data, chunk_size) ==
    [k \in 1 .. (Len(data) + chunk_size - 1) \div chunk_size |->
        SubSeq(data, (k - 1) * chunk_size + 1,
               IF k * chunk_size < Len(data) THEN k * chunk_size
                                             ELSE Len(data))]

split_string(s, delimiter) ==
    FoldLeft(LAMBDA items, c :
                IF c = delimiter
                  THEN Append(items, <<>>)
                  ELSE Append(Front(items), Append(Last(items), c)),
             << <<>> >>, s)

(* Mutant of is_valid_filename: the first character is not looked at.      *)
any_filename(filename) ==
    /\ Len(filename) \in 1 .. MaxFilename
    /\ Range(filename) \subseteq Alnum \cup {".", "_"}

is_valid_filename(filename) ==
    /\ Len(filename) \in 1 .. MaxFilename
    /\ filename[1] \in Alnum
    /\ Range(filename) \subseteq Alnum \cup {".", "_"}

(* What is between the first two slashes, or after the only one.           *)
GetDeviceId(raw_packet) ==
    LET remain == After(raw_packet, Find(raw_packet, "/"))
    IN  Before(remain, Find(remain, "/"))

(* Mutant of PathItems: the parts are taken as split_string returns them.  *)
AllPathItems(path) == split_string(path, "/")

(* HandleRequest: the parts of the path that are not empty.                *)
NotEmpty(items) ==
    FoldLeft(LAMBDA path_items, a :
                IF a = <<>> THEN path_items ELSE Append(path_items, a),
             <<>>, items)

PathItems(path) == NotEmpty(split_string(path, "/"))
=============================================================================
