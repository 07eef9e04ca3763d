----------------------------- MODULE DumpLayout -----------------------------
(***************************************************************************)
(* What is in an archive and where a restore looks for a database in it:   *)
(* Compress of internal/backup/archive.go, and extractArchive and          *)
(* findDatabaseDir of internal/restore/restore.go, as operators.           *)
(*                                                                         *)
(* A path is the sequence of its names.  A tree is the directories and the *)
(* files below a directory; an archive is the sequence of its entries, and *)
(* whether it is whole or was cut short.                                   *)
(***************************************************************************)
EXTENDS SequencesExt

CONSTANTS NameOrder,  \* the names of directories and files, in lexical order
          DumpFiles   \* those that end in ".bson", and "metadata.json"

Names == ToSet(NameOrder)
Plain == Names \ {".", "..", "/"}

ASSUME OrderAssumption == NameOrder \in Seq(Names)

(* The order of two paths in a directory walk.                              *)
Precedes(p, q) ==
  LET rank(n) == SelectInSeq(NameOrder, LAMBDA m : m = n)
  IN  \/ IsStrictPrefix(p, q)
      \/ \E i \in DOMAIN p \cap DOMAIN q :
           /\ \A k \in 1 .. i - 1 : p[k] = q[k]
           /\ rank(p[i]) < rank(q[i])

(* What may be an archive: only the head of a path is the root.             *)
Headers == [path : Seq(Names), kind : {"dir", "file", "other"}]

IsArchive(archive) ==
  /\ archive \in [entries : Seq(Headers), whole : BOOLEAN]
  /\ \A i \in DOMAIN archive.entries :
       LET path == archive.entries[i].path
       IN  \A j \in DOMAIN path : path[j] = "/" => j = 1

Empty == [ok |-> TRUE, dirs |-> {}, files |-> {}]

Above(path) == Prefixes(path) \ {<<>>}

-----------------------------------------------------------------------------
(* Writing an archive, and unpacking it.                                    *)

(* What mongodump may leave: plain names, each in a directory that is there. *)
IsDump(tree) ==
  LET all == tree.dirs \cup tree.files
  IN  /\ tree \in [ok : {TRUE}, dirs : SUBSET Seq(Plain), files : SUBSET Seq(Plain)]
      /\ IsFiniteSet(all)
      /\ tree.dirs \cap tree.files = {}
      /\ \A p \in all : p # <<>> /\ Above(Front(p)) \subseteq tree.dirs

(* The paths of a directory in the order in which filepath.Walk visits them. *)
Walk(paths) ==
  LET before(p) == {q \in paths : Precedes(q, p)}
  IN  [i \in 1 .. Cardinality(paths) |->
         CHOOSE p \in paths : Cardinality(before(p)) = i - 1]

Listed(tree, path) ==
  [path |-> path, kind |-> IF path \in tree.dirs THEN "dir" ELSE "file"]

(* Mutant: an entry keeps the name that FileInfoHeader gives it.            *)
CompressBaseNames(tree) ==
  LET walk == Walk(tree.dirs \cup tree.files)
  IN  [i \in DOMAIN walk |-> [Listed(tree, walk[i]) EXCEPT !.path = <<Last(@)>>]]

(* The entries of a directory, each under its path relative to it.          *)
Compress(tree) ==
  LET walk == Walk(tree.dirs \cup tree.files)
  IN  [i \in DOMAIN walk |-> Listed(tree, walk[i])]

(* The next name of a path: "." goes, and ".." takes the name before it     *)
(* along, or goes when it is the root.                                      *)
Resolve(done, n) ==
  IF n = "." \/ (n = ".." /\ done = <<"/">>) THEN done
  ELSE IF n = ".." /\ done # <<>> /\ Last(done) # ".." THEN Front(done)
  ELSE Append(done, n)

(* filepath.Clean, name by name; "." is the empty path.                     *)
Clean(path) ==
  LET done[i \in 0 .. Len(path)] ==
        IF i = 0 THEN <<>> ELSE Resolve(done[i - 1], path[i])
  IN  done[Len(path)]

(* Mutant: a path is refused only when it is absolute.                      *)
UnsafeIfAbsolute(name) == name = <<>> \/ Head(name) = "/"

Unsafe(name) == name = <<>> \/ Head(name) \in {"..", "/"}

(* The directory of an entry: the entry itself, or the one it is in.        *)
Folder(entry) ==
  IF entry.kind = "dir" THEN Clean(entry.path) ELSE Front(Clean(entry.path))

(* What MkdirAll and OpenFile leave of these entries.                       *)
TreeOf(ok, entries) ==
  LET regular == {i \in DOMAIN entries : entries[i].kind = "file"}
  IN  [ok |-> ok,
       dirs |-> UNION {Above(Folder(entries[i])) : i \in DOMAIN entries},
       files |-> {Clean(entries[i].path) : i \in regular}]

(* An entry that ends the loop: an unsafe one, one that is no file, or one  *)
(* that meets a file where it needs a directory or the other way round.     *)
Refused(tree, entry) ==
  LET name == Clean(entry.path)
  IN  \/ Unsafe(name)
      \/ entry.kind \notin {"dir", "file"}
      \/ Above(Folder(entry)) \cap tree.files # {}
      \/ entry.kind = "file" /\ name \in tree.dirs

(* The entries that the loop of extractArchive unpacks: those before the    *)
(* first that it refuses.                                                   *)
Accepted(entries) ==
  LET before(n) == SubSeq(entries, 1, n - 1)
      refused == {n \in DOMAIN entries : Refused(TreeOf(TRUE, before(n)), entries[n])}
  IN  IF refused = {} THEN entries ELSE before(Min(refused))

(* Mutant: the loop ends at the first error as it does at the end.          *)
ExtractLeniently(archive) == TreeOf(TRUE, Accepted(archive.entries))

(* The end of a cut archive is met only when the entries before it have     *)
(* been unpacked.                                                           *)
Extract(archive) ==
  LET accepted == Accepted(archive.entries)
  IN  TreeOf(archive.whole /\ accepted = archive.entries, accepted)

-----------------------------------------------------------------------------
(* Finding the database.                                                    *)

Place(dir, flat) == [dir |-> dir, flat |-> flat]
NotFound == Place(<<>>, FALSE)

HasDumpFiles(tree) == \E n \in DumpFiles : <<n>> \in tree.files

(* Mutant: the walk goes on inside a directory that matches.                *)
MatchesAtAnyDepth(tree, database) == {p \in tree.dirs : Last(p) = database}

(* The walk does not go into a directory that matches (SkipDir).            *)
Matches(tree, database) ==
  {p \in tree.dirs : /\ Last(p) = database
                     /\ \A q \in Above(Front(p)) : Last(q) # database}

FindDatabaseDir(tree, database) ==
  LET matches == Matches(tree, database)
  IN  IF <<database>> \in tree.dirs THEN Place(<<database>>, FALSE)
      ELSE IF HasDumpFiles(tree) THEN Place(<<>>, TRUE)
      ELSE IF Cardinality(matches) = 1
           THEN Place(CHOOSE p \in matches : TRUE, FALSE)
      ELSE NotFound

(* The collections mongorestore finds in the directory it is given.         *)
CollectionsIn(tree, place, collections) ==
  {c \in collections : Append(place.dir, c) \in tree.files}
-----------------------------------------------------------------------------
(* What an archive says of a database, told from its entries.               *)

(* Its directories: that of each entry up to the first name that is the     *)
(* database's.                                                              *)
Places(archive, database) ==
  LET upTo(p) == SubSeq(p, 1, SelectInSeq(p, LAMBDA n : n = database))
  IN  {upTo(Folder(archive.entries[i])) : i \in DOMAIN archive.entries} \ {<<>>}

Says(archive, path) ==
  \E i \in DOMAIN archive.entries :
    archive.entries[i].kind = "file" /\ Clean(archive.entries[i].path) = path
=============================================================================
