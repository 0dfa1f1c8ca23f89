---------------------------- MODULE MCFilesystem ----------------------------
(***************************************************************************)
(* Mount and TreeSync for TLC: every behaviour is of one kind, chosen at    *)
(* the start.                                                               *)
(*   nested  all but links and renames, on a directory and what is in it    *)
(*   wide    creations, removals and renames of directories and one file    *)
(*   flat    all but directories, links and crashes, on two files           *)
(*   linked  links, renames and crashes on two files                        *)
(*   tree    the directory tree travels to another backend                  *)
(***************************************************************************)
EXTENDS Mount, TreeSync

VARIABLE kind

Paths == {<<>>, <<"d">>, <<"d", "e">>, <<"d", "e", "f">>, <<"g">>}
Nested == {<<"d">>, <<"d", "e">>}
Chain == {<<"d">>, <<"d", "e">>, <<"d", "e", "f">>}

Wide == INSTANCE Mount
    WITH Asked <- {<<"d">>, <<"d", "e">>, <<"g">>}, MaxInode <- 1, Env <- {"tree", "rename"}
FlatNames == INSTANCE Mount
    WITH Asked <- {<<"d">>, <<"g">>}, Env <- {"rename", "subscriptions", "peers"}
Linked == INSTANCE Mount
    WITH Asked <- {<<"d">>, <<"g">>}, Env <- {"rename", "links", "crash"}

MCInit == Init /\ TreeInit /\ kind \in {"nested", "wide", "flat", "linked", "tree"}
MCNext ==
    \/ /\ \/ kind = "nested" /\ Next
          \/ kind = "wide" /\ Wide!Next
          \/ kind = "flat" /\ FlatNames!Next
          \/ kind = "linked" /\ Linked!Next
       /\ UNCHANGED <<treeVars, kind>>
    \/ kind = "tree" /\ TreeNext /\ UNCHANGED <<vars, kind>>
MCSpec == MCInit /\ [][MCNext]_<<vars, treeVars, kind>>
=============================================================================
