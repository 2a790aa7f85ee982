--------------------------- MODULE MCSqliteCache ----------------------------
(***************************************************************************)
(* SqliteCache for TLC: cache paths below directories that are safe, shared *)
(* by everyone, of a stranger, or links, with and without a file.          *)
(***************************************************************************)
EXTENDS SqliteCache

RootDir == [type |-> "dir", owner |-> "root", writable |-> FALSE, sticky |-> FALSE]
Tmp == [RootDir EXCEPT !.writable = TRUE, !.sticky = TRUE]
Shared == [RootDir EXCEPT !.writable = TRUE]
Foreign == [RootDir EXCEPT !.owner = "other"]
Link == [RootDir EXCEPT !.type = "symlink"]
OldFile == [type |-> "file", owner |-> "self", private |-> FALSE]

At(dirs, f) == [uri |-> FALSE, dirs |-> dirs, file |-> f]

MCDisk == {At(<<Tmp, NoEntry>>, NoEntry), At(<<Tmp, NewDir>>, OldFile),
           At(<<Shared, NewDir>>, OldFile), At(<<Foreign, NoEntry>>, NoEntry),
           At(<<RootDir, Link>>, OldFile),
           At(<<RootDir, NewDir>>, [OldFile EXCEPT !.type = "symlink"]),
           At(<<RootDir, NewDir>>, [OldFile EXCEPT !.owner = "root"]),
           [At(<<RootDir, NewDir>>, NoEntry) EXCEPT !.uri = TRUE]}

=============================================================================
