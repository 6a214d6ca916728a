---------------------------- MODULE MCFileSystem ----------------------------
(***************************************************************************)
(* A medium with a directory, files in each directory, and paths that take *)
(* every exit of getInfo.                                                   *)
(***************************************************************************)

EXTENDS FileSystem

MCDisk == [root |-> <<"boot", "readme">>, boot |-> <<"kernel", "config">>]

MCSize == [readme |-> 1, kernel |-> 2, config |-> 1]

File(parts, create) ==
  [op |-> "open", parts |-> parts, slash |-> FALSE, valid |-> TRUE, create |-> create]

Directory(parts) ==
  [op |-> "list", parts |-> parts, slash |-> TRUE, valid |-> TRUE, create |-> FALSE]

MCLookups == {
  File(<<"boot", "kernel">>, FALSE),
  File(<<"boot", "..", "missing">>, FALSE),
  File(<<".", "boot">>, FALSE),
  File(<<"missing">>, TRUE),
  Directory(<<"readme">>),
  [Directory(<<"boot">>) EXCEPT !.op = "open"],
  Directory(<<"boot">>)}

MCRequests == {[offset |-> 1, count |-> 1], [offset |-> 7, count |-> 1]}

=============================================================================
