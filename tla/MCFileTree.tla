---------------------------- MODULE MCFileTree ----------------------------
(* An instance of FileTree for TLC: two names, two trees, and calls with   *)
(* paths of one or two names.                                              *)
EXTENDS FileTree

CONSTANTS a, b, x, y

Short == {<<a>>, <<b>>, <<a, a>>, <<a, b>>, <<b, a>>, <<b, b>>}

Dir == "directory_file"

\* A directory with a file and a directory in it, and one with nothing but a link.
Nested == <<>> :> Dir @@ <<a>> :> Dir @@ <<a, a>> :> x @@ <<a, b>> :> Dir
            @@ <<a, b, a>> :> y @@ <<b>> :> Dir @@ <<b, a>> :> "symlink_file"

\* A directory with an empty directory and a file in it, and a file.
Flat == <<>> :> Dir @@ <<a>> :> Dir @@ <<a, a>> :> Dir @@ <<a, b>> :> x @@ <<b>> :> y

SomeTrees == {Nested, Flat}
============================================================================
