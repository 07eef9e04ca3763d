------------------------------ MODULE MCRestore ------------------------------
(* Two restores from two backups.  The first backup is any archive of up to *)
(* two of the entries below, or of one and cut short after it, or the one   *)
(* that the program makes of one of the dumps; the second is the program's  *)
(* own of a dump of the database "shop".                                    *)
EXTENDS Restore

MCNameOrder == <<".", "..", "/", "items.bson", "metadata.json", "old", "shop", "tags.bson",
  "wrap">>
MCDumpFiles == {"items.bson", "tags.bson", "metadata.json"}

(* The dumps of a "shop" with some of two collections, alone or beside an   *)
(* "old" one.                                                               *)
Shop(files) ==
  [Empty EXCEPT !.dirs = {<<"shop">>}, !.files = {<<"shop", f>> : f \in files}]
WithOld(tree) ==
  [tree EXCEPT !.dirs = @ \cup {<<"old">>}, !.files = @ \cup {<<"old", "items.bson">>}]

Shops == {Shop(files) : files \in SUBSET {"items.bson", "tags.bson"}}
MCDumps == Shops \cup {WithOld(tree) : tree \in Shops}

Own == OwnBackups[Shop({"items.bson", "tags.bson"})]

Entry(path, kind) == [path |-> path, kind |-> kind]

Entries ==
  {Entry(<<"shop">>, k) : k \in {"dir", "file", "other"}}
    \cup {Entry(p, "file") : p \in
            {<<"shop", "items.bson">>, <<"wrap", "shop", "items.bson">>,
             <<"old", "shop", "items.bson">>, <<"items.bson">>,
             <<"metadata.json">>, <<"shop", ".", "..", "..", "old">>, <<"/", "old">>,
             <<"wrap", "..", "shop", "items.bson">>}}
    \cup {Entry(p, "dir") : p \in {<<"wrap", "shop", "shop">>}}

Sequences(n) == UNION {[1 .. m -> Entries] : m \in 0 .. n}

MCArchives == [entries : Sequences(2), whole : {TRUE}]
                \cup [entries : Sequences(1), whole : {FALSE}]
                \cup {OwnBackups[tree] : tree \in Dumps}

CONSTANTS first, second
MCDrives == {[f \in {first, second} |-> IF f = first THEN a ELSE Own] :
               a \in MCArchives}

OwnDrives == {[f \in {first, second} |-> Own]}

Symmetry == Permutations(Restores) \cup Permutations(Workspaces)
=============================================================================
