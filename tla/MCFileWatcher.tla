---------------------------- MODULE MCFileWatcher ----------------------------
(* Instances of FileWatcher for TLC.                                       *)
EXTENDS FileWatcher, TLC

TwoFiles == {"f", "d/g"}
OneDir == {"d"}
MCDir == "f" :> "/" @@ "d/g" :> "d" @@ "d" :> "/"
TwoContents == {1, 2}
=============================================================================
