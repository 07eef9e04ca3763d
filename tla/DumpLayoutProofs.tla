-------------------------- MODULE DumpLayoutProofs --------------------------
(***************************************************************************)
(* Theorems about archives: what filepath.Clean leaves of a path, where an *)
(* extraction writes, which directory a restore takes for a database, and  *)
(* that an extraction undoes what the backup has packed, for archives of   *)
(* any length with paths of any depth.                                     *)
(***************************************************************************)
EXTENDS DumpLayout, FiniteSetTheorems, SequenceTheorems, TLAPS

-----------------------------------------------------------------------------
(* Numbers.                                                                 *)

LEMMA LeastNumber ==
  ASSUME NEW T, T \subseteq Nat, T # {}
  PROVE  \E x \in T : \A y \in T : x <= y
<1>1. PICK x \in T : \A y \in T : ~ (<<y, x>> \in OpToRel(<, Nat))
  BY WFMin, NatLessThanWellFounded, Zenon
<1>2. ASSUME NEW y \in T PROVE x <= y
  <2>1. ~(y < x)
    BY <1>1 DEF OpToRel
  <2>2. QED
    BY <2>1
<1>3. QED
  BY <1>2
-----------------------------------------------------------------------------
(* Sequences.                                                               *)

LEMMA Initial ==
  ASSUME NEW S, NEW s \in Seq(S), NEW k \in 0 .. Len(s)
  PROVE  /\ SubSeq(s, 1, k) \in Seq(S)
         /\ Len(SubSeq(s, 1, k)) = k
         /\ \A i \in 1 .. k : SubSeq(s, 1, k)[i] = s[i]
<1>1. \A i \in 1 .. k : s[i] \in S
  OBVIOUS
<1>2. QED
  BY <1>1, SubSeqProperties

LEMMA Fronts ==
  ASSUME NEW S, NEW s \in Seq(S), s # <<>>
  PROVE  /\ Len(s) \in Nat \ {0} /\ Len(s) - 1 \in 0 .. Len(s)
         /\ Front(s) = SubSeq(s, 1, Len(s) - 1)
         /\ Last(s) = s[Len(s)] /\ Last(s) \in S
<1>1. Len(s) \in Nat /\ Len(s) # 0
  BY EmptySeq
<1>2. QED
  BY <1>1 DEF Front, Last

LEMMA HeadIsFirst ==
  ASSUME NEW S, NEW s \in Seq(S), s # <<>>
  PROVE  Head(s) = s[1]
  OBVIOUS

LEMMA SameInitials ==
  ASSUME NEW S, NEW s \in Seq(S), NEW j \in 0 .. Len(s), NEW k \in 0 .. j
  PROVE  SubSeq(SubSeq(s, 1, j), 1, k) = SubSeq(s, 1, k)
<1> DEFINE t == SubSeq(s, 1, j)
<1>1. t \in Seq(S) /\ Len(t) = j /\ \A i \in 1 .. j : t[i] = s[i]
  BY Initial
<1> HIDE DEF t
<1>2. k \in 0 .. Len(t) /\ k \in 0 .. Len(s)
  BY <1>1
<1>3. /\ SubSeq(t, 1, k) \in Seq(S) /\ Len(SubSeq(t, 1, k)) = k
      /\ \A i \in 1 .. k : SubSeq(t, 1, k)[i] = t[i]
  BY <1>1, <1>2, Initial
<1>4. /\ SubSeq(s, 1, k) \in Seq(S) /\ Len(SubSeq(s, 1, k)) = k
      /\ \A i \in 1 .. k : SubSeq(s, 1, k)[i] = s[i]
  BY <1>2, Initial
<1>5. \A i \in 1 .. k : SubSeq(t, 1, k)[i] = SubSeq(s, 1, k)[i]
  BY <1>1, <1>3, <1>4
<1>6. QED
  BY <1>3, <1>4, <1>5, SeqEqual DEF t
-----------------------------------------------------------------------------
(* Clean.                                                                   *)

(* The names that Clean has kept after the first names of a path.           *)
IsRun(run, path, n) ==
  run = [i \in 0 .. n |-> IF i = 0 THEN <<>> ELSE Resolve(run[i - 1], path[i])]

LEMMA RunsExist ==
  ASSUME NEW path, NEW n \in Nat
  PROVE  \E run : IsRun(run, path, n)
<1> DEFINE Bad == {k \in Nat : ~\E run : IsRun(run, path, k)}
<1>1. SUFFICES Bad = {}
  OBVIOUS
<1>2. SUFFICES ASSUME Bad # {} PROVE FALSE
  OBVIOUS
<1>3. PICK k \in Bad : \A j \in Bad : k <= j
  BY <1>2, LeastNumber
<1> HIDE DEF Bad
<1>4. k \in Nat /\ ~\E run : IsRun(run, path, k)
  BY DEF Bad
<1>5. CASE k = 0
  <2>1. IsRun([i \in 0 .. 0 |-> <<>>], path, 0)
    BY DEF IsRun
  <2>2. QED
    BY <1>4, <1>5, <2>1
<1>6. CASE k # 0
  <2>1. k - 1 \notin Bad
    BY <1>3, <1>4, <1>6
  <2>2. PICK run : IsRun(run, path, k - 1)
    BY <1>4, <1>6, <2>1 DEF Bad
  <2> DEFINE next == [i \in 0 .. k |-> IF i = k THEN Resolve(run[k - 1], path[k])
                                               ELSE run[i]]
  <2>3. ASSUME NEW i \in 0 .. k
        PROVE  next[i] = IF i = 0 THEN <<>> ELSE Resolve(next[i - 1], path[i])
    <3>1. CASE i = k
      BY <1>4, <1>6, <3>1
    <3>2. CASE i # k
      BY <1>4, <1>6, <2>2, <3>2 DEF IsRun
    <3>3. QED
      BY <3>1, <3>2
  <2>4. IsRun(next, path, k)
    BY <2>3 DEF IsRun
  <2>5. QED
    BY <1>4, <2>4
<1>7. QED
  BY <1>5, <1>6

LEMMA CleanRuns ==
  ASSUME NEW S, NEW path \in Seq(S)
  PROVE  \E run : IsRun(run, path, Len(path)) /\ Clean(path) = run[Len(path)]
<1> DEFINE run == CHOOSE f : IsRun(f, path, Len(path))
<1>1. IsRun(run, path, Len(path))
  BY RunsExist
<1>2. Clean(path) = run[Len(path)]
  BY DEF Clean, IsRun
<1>3. QED
  BY <1>1, <1>2
(* A clean path has no ".", its root at the head only, and each ".." after  *)
(* nothing but others.                                                      *)
IsClean(name) ==
  \A j \in 1 .. Len(name) :
    /\ name[j] # "."
    /\ name[j] = "/" => j = 1
    /\ name[j] = ".." => \A k \in 1 .. j : name[k] = ".."

LEMMA ResolveKeepsClean ==
  ASSUME NEW S, NEW done \in Seq(S), IsClean(done), NEW n \in S,
         n = "/" => done = <<>>
  PROVE  Resolve(done, n) \in Seq(S) /\ IsClean(Resolve(done, n))
<1>1. CASE n = "." \/ (n = ".." /\ done = <<"/">>)
  BY <1>1 DEF Resolve
<1>2. CASE n = ".." /\ done # <<"/">> /\ done # <<>> /\ Last(done) # ".."
  <2>1. Resolve(done, n) = SubSeq(done, 1, Len(done) - 1)
    BY <1>2 DEF Resolve, Front
  <2>2. /\ Len(SubSeq(done, 1, Len(done) - 1)) = Len(done) - 1
        /\ \A j \in 1 .. Len(done) - 1 : SubSeq(done, 1, Len(done) - 1)[j] = done[j]
        /\ SubSeq(done, 1, Len(done) - 1) \in Seq(S)
    BY <1>2, Fronts, Initial
  <2>3. QED
    BY <2>1, <2>2 DEF IsClean
<1>3. CASE /\ n # "."
           /\ n = ".." => done # <<"/">> /\ (done = <<>> \/ Last(done) = "..")
  <2>1. Resolve(done, n) = Append(done, n)
    BY <1>3 DEF Resolve
  <2>2. /\ Len(Append(done, n)) = Len(done) + 1
        /\ Append(done, n)[Len(done) + 1] = n
        /\ \A j \in 1 .. Len(done) : Append(done, n)[j] = done[j]
        /\ Append(done, n) \in Seq(S)
    OBVIOUS
  <2>3. n = ".." => \A k \in 1 .. Len(done) : done[k] = ".."
    BY <1>3 DEF Last, IsClean
  <2>4. n = "/" => Len(done) = 0
    OBVIOUS
  <2>5. IsClean(Append(done, n))
    BY <1>3, <2>2, <2>3, <2>4 DEF IsClean
  <2>6. QED
    BY <2>1, <2>2, <2>5
<1>4. QED
  BY <1>1, <1>2, <1>3

(* What filepath.Clean returns, of a path whose only root is its head.      *)
THEOREM CleanCleans ==
  ASSUME NEW S, NEW path \in Seq(S), \A j \in DOMAIN path : path[j] = "/" => j = 1
  PROVE  Clean(path) \in Seq(S) /\ IsClean(Clean(path))
<1>1. PICK run : IsRun(run, path, Len(path)) /\ Clean(path) = run[Len(path)]
  BY CleanRuns
<1> DEFINE Bad == {k \in 0 .. Len(path) : ~(run[k] \in Seq(S) /\ IsClean(run[k]))}
<1>2. SUFFICES Bad = {}
  BY <1>1
<1>3. SUFFICES ASSUME Bad # {} PROVE FALSE
  OBVIOUS
<1>4. PICK k \in Bad : \A j \in Bad : k <= j
  <2>1. Bad \subseteq Nat
    OBVIOUS
  <2> HIDE DEF Bad
  <2>2. QED
    BY <1>3, <2>1, LeastNumber
<1>5. /\ k \in 0 .. Len(path)
      /\ ~(run[k] \in Seq(S) /\ IsClean(run[k]))
      /\ \A j \in 0 .. k - 1 : run[j] \in Seq(S) /\ IsClean(run[j])
  BY <1>4
<1> HIDE DEF Bad
<1>6. run[0] = <<>>
  BY <1>1 DEF IsRun
<1>7. CASE k = 0
  <2>1. <<>> \in Seq(S) /\ Len(<<>>) = 0
    OBVIOUS
  <2>2. IsClean(<<>>)
    BY <2>1 DEF IsClean
  <2>3. QED
    BY <1>5, <1>6, <1>7, <2>1, <2>2
<1>8. CASE k # 0
  <2>1. run[k] = Resolve(run[k - 1], path[k])
    BY <1>1, <1>5, <1>8 DEF IsRun
  <2>2. path[k] \in S /\ (path[k] = "/" => run[k - 1] = <<>>)
    BY <1>5, <1>6, <1>8
  <2>3. run[k - 1] \in Seq(S) /\ IsClean(run[k - 1])
    BY <1>5, <1>8
  <2>4. QED
    BY <1>5, <2>1, <2>2, <2>3, ResolveKeepsClean
<1>9. QED
  BY <1>7, <1>8
-----------------------------------------------------------------------------
(* What an extraction writes.                                               *)

LEMMA AboveIs ==
  ASSUME NEW S, NEW path \in Seq(S)
  PROVE  Above(path) = {SubSeq(path, 1, k) : k \in 1 .. Len(path)}
<1>1. ASSUME NEW k \in 0 .. Len(path)
      PROVE  SubSeq(path, 1, k) = <<>> <=> k = 0
  <2>1. Len(SubSeq(path, 1, k)) = k /\ SubSeq(path, 1, k) \in Seq(S)
    BY Initial
  <2>2. QED
    BY <2>1, EmptySeq
<1>2. Len(path) \in Nat
  OBVIOUS
<1>3. QED
  BY <1>1, <1>2 DEF Above, Prefixes

(* The entries that are unpacked come first, and none of them is refused.   *)
LEMMA AcceptedComeFirst ==
  ASSUME NEW S, NEW entries \in Seq(S)
  PROVE  \E n \in 0 .. Len(entries) :
           /\ Accepted(entries) = SubSeq(entries, 1, n)
           /\ \A i \in 1 .. n :
                ~Refused(TreeOf(TRUE, SubSeq(entries, 1, i - 1)), entries[i])
<1> DEFINE refused == {n \in DOMAIN entries :
                         Refused(TreeOf(TRUE, SubSeq(entries, 1, n - 1)), entries[n])}
<1>1. DOMAIN entries = 1 .. Len(entries) /\ Len(entries) \in Nat
  OBVIOUS
<1>2. \A i \in 1 .. Len(entries) :
        i \in refused <=> Refused(TreeOf(TRUE, SubSeq(entries, 1, i - 1)), entries[i])
  BY <1>1, Zenon
<1>3. refused \subseteq 1 .. Len(entries)
  BY <1>1
<1> HIDE DEF refused
<1>4. CASE refused = {}
  <2>1. Accepted(entries) = SubSeq(entries, 1, Len(entries))
    BY <1>4, SubSeqFull DEF Accepted, refused
  <2>2. Len(entries) \in 0 .. Len(entries)
    BY <1>1
  <2>3. \A i \in 1 .. Len(entries) :
          ~Refused(TreeOf(TRUE, SubSeq(entries, 1, i - 1)), entries[i])
    BY <1>4, <1>2
  <2>4. QED
    BY <2>1, <2>2, <2>3
<1>5. CASE refused # {}
  <2>1. Accepted(entries) = SubSeq(entries, 1, Min(refused) - 1)
    BY <1>5 DEF Accepted, refused
  <2>2. refused \subseteq Nat
    BY <1>3
  <2>3. /\ Min(refused) \in refused
        /\ \A i \in refused : Min(refused) <= i
    <3>1. \E x \in refused : \A y \in refused : x <= y
      BY <1>5, <2>2, LeastNumber
    <3>2. QED
      BY <3>1 DEF Min
  <2>4. PICK m \in 1 .. Len(entries) : m = Min(refused)
    BY <1>3, <2>3
  <2>5. m - 1 \in 0 .. Len(entries)
    BY <1>1
  <2>6. \A i \in 1 .. m - 1 : i \in 1 .. Len(entries) /\ i \notin refused
    BY <1>1, <2>3, <2>4
  <2>7. \A i \in 1 .. m - 1 :
          ~Refused(TreeOf(TRUE, SubSeq(entries, 1, i - 1)), entries[i])
    BY <1>2, <2>6
  <2>8. QED
    BY <2>1, <2>4, <2>5, <2>7
<1>6. QED
  BY <1>4, <1>5

(* The file or directory is below the destination.                          *)
Inside(path) == path # <<>> /\ ToSet(path) \cap {".", "..", "/"} = {}

LEMMA SafeIsInside ==
  ASSUME NEW S, NEW name \in Seq(S), IsClean(name), ~Unsafe(name)
  PROVE  Inside(name)
<1>1. name # <<>> /\ name[1] \notin {"..", "/"} /\ Len(name) \in Nat \ {0}
  BY EmptySeq, HeadIsFirst DEF Unsafe
<1>2. ASSUME NEW j \in 1 .. Len(name) PROVE name[j] \notin {".", "..", "/"}
  BY <1>1 DEF IsClean
<1>3. QED
  BY <1>1, <1>2 DEF Inside, ToSet

LEMMA InitialIsInside ==
  ASSUME NEW S, NEW path \in Seq(S), Inside(path), NEW k \in 1 .. Len(path)
  PROVE  Inside(SubSeq(path, 1, k))
<1>1. /\ SubSeq(path, 1, k) \in Seq(S) /\ Len(SubSeq(path, 1, k)) = k
      /\ \A i \in 1 .. k : SubSeq(path, 1, k)[i] = path[i]
  BY Initial
<1>2. SubSeq(path, 1, k) # <<>>
  BY <1>1, EmptySeq
<1>3. \A i \in 1 .. k : path[i] \in ToSet(path)
  BY DEF ToSet
<1>4. ToSet(SubSeq(path, 1, k)) \subseteq ToSet(path)
  BY <1>1, <1>3 DEF ToSet
<1>5. QED
  BY <1>2, <1>4 DEF Inside

(* What is known of the entries of an archive that are not refused.         *)
LEMMA EntryIsInside ==
  ASSUME NEW archive, IsArchive(archive), NEW i \in DOMAIN archive.entries,
         NEW tree, ~Refused(tree, archive.entries[i])
  PROVE  /\ Clean(archive.entries[i].path) \in Seq(Names)
         /\ Inside(Clean(archive.entries[i].path))
         /\ Folder(archive.entries[i]) \in Seq(Names)
         /\ \A p \in Above(Folder(archive.entries[i])) : Inside(p)
<1> DEFINE entry == archive.entries[i]
           name == Clean(entry.path)
<1>1. /\ entry.path \in Seq(Names)
      /\ \A j \in DOMAIN entry.path : entry.path[j] = "/" => j = 1
  <2>1. archive.entries \in Seq(Headers)
    BY DEF IsArchive
  <2>2. entry \in Headers
    BY <2>1
  <2>3. entry.path \in Seq(Names)
    BY <2>2 DEF Headers
  <2>4. \A j \in DOMAIN entry.path : entry.path[j] = "/" => j = 1
    BY DEF IsArchive
  <2>5. QED
    BY <2>3, <2>4
<1>2. name \in Seq(Names) /\ IsClean(name)
  BY <1>1, CleanCleans
<1>3. ~Unsafe(name)
  BY DEF Refused
<1> HIDE DEF name
<1>4. Inside(name)
  BY <1>2, <1>3, SafeIsInside
<1>5. Folder(entry) = name \/ Folder(entry) = SubSeq(name, 1, Len(name) - 1)
  BY DEF Folder, Front, name
<1>6. Len(name) \in Nat \ {0} /\ Len(name) - 1 \in 0 .. Len(name)
  BY <1>2, <1>4, EmptySeq DEF Inside
<1>7. Folder(entry) \in Seq(Names)
  BY <1>2, <1>5, <1>6, Initial
<1>8. ASSUME NEW p \in Above(Folder(entry))
      PROVE  \E k \in 1 .. Len(name) : p = SubSeq(name, 1, k)
  <2>1. PICK k \in 1 .. Len(Folder(entry)) : p = SubSeq(Folder(entry), 1, k)
    BY <1>7, <1>8, AboveIs
  <2>2. CASE Folder(entry) = name
    BY <2>1, <2>2
  <2>3. CASE Folder(entry) = SubSeq(name, 1, Len(name) - 1)
    <3>1. k \in 0 .. Len(name) - 1
      BY <1>2, <1>6, <2>1, <2>3, Initial
    <3>2. p = SubSeq(name, 1, k)
      BY <1>2, <1>6, <2>1, <2>3, <3>1, SameInitials
    <3>3. QED
      BY <1>6, <2>1, <3>1, <3>2
  <2>4. QED
    BY <1>5, <2>2, <2>3
<1>9. \A p \in Above(Folder(entry)) : Inside(p)
  BY <1>2, <1>4, <1>8, InitialIsInside
<1>10. QED
  BY <1>2, <1>4, <1>7, <1>9 DEF name

(* Whatever is in an archive, extractArchive writes below its destination,  *)
(* and also when it ends with an error (restore.go:165-168).                *)
THEOREM ExtractionStaysInside ==
  ASSUME NEW archive, IsArchive(archive)
  PROVE  \A p \in Extract(archive).dirs \cup Extract(archive).files : Inside(p)
<1> DEFINE entries == archive.entries
<1>1. entries \in Seq(Headers)
  BY DEF IsArchive
<1>2. PICK n \in 0 .. Len(entries) :
        /\ Accepted(entries) = SubSeq(entries, 1, n)
        /\ \A i \in 1 .. n :
             ~Refused(TreeOf(TRUE, SubSeq(entries, 1, i - 1)), entries[i])
  BY <1>1, AcceptedComeFirst
<1>3. \A i \in 1 .. n : i \in DOMAIN entries
  BY <1>1, <1>2
<1>4. /\ DOMAIN Accepted(entries) = 1 .. n
      /\ \A i \in 1 .. n : Accepted(entries)[i] = entries[i]
  BY <1>1, <1>2, Initial
<1>5. \A i \in 1 .. n : /\ Inside(Clean(entries[i].path))
                        /\ \A p \in Above(Folder(entries[i])) : Inside(p)
  BY <1>2, <1>3, EntryIsInside
<1>6. /\ Extract(archive).dirs = UNION {Above(Folder(entries[i])) : i \in 1 .. n}
      /\ Extract(archive).files \subseteq {Clean(entries[i].path) : i \in 1 .. n}
  BY <1>4 DEF Extract, TreeOf
<1>7. QED
  BY <1>5, <1>6
-----------------------------------------------------------------------------
(* Where a database is found.                                               *)

(* The first index of a name.                                               *)
FirstIn(path, n) == SelectInSeq(path, LAMBDA m : m = n)

LEMMA FirstIsFirst ==
  ASSUME NEW S, NEW path \in Seq(S), NEW n
  PROVE  LET k == FirstIn(path, n)
         IN  \/ k = 0 /\ \A i \in 1 .. Len(path) : path[i] # n
             \/ /\ k \in 1 .. Len(path) /\ path[k] = n
                /\ \A i \in 1 .. k - 1 : path[i] # n
<1> DEFINE at == {i \in 1 .. Len(path) : path[i] = n}
<1>1. FirstIn(path, n) = IF at # {} THEN Min(at) ELSE 0
  BY DEF FirstIn, SelectInSeq
<1>2. CASE at = {}
  BY <1>1, <1>2
<1>3. CASE at # {}
  <2>1. at \subseteq Nat
    OBVIOUS
  <2>2. /\ \A i \in at : i \in 1 .. Len(path) /\ path[i] = n
        /\ \A i \in 1 .. Len(path) : path[i] = n => i \in at
    OBVIOUS
  <2> HIDE DEF at
  <2>3. \E x \in at : \A y \in at : x <= y
    BY <1>3, <2>1, LeastNumber
  <2>4. Min(at) \in at /\ \A y \in at : Min(at) <= y
    BY <2>3 DEF Min
  <2>5. PICK k \in 1 .. Len(path) : k = Min(at)
    BY <2>2, <2>4
  <2>6. FirstIn(path, n) = k
    BY <1>1, <1>3, <2>5
  <2>7. path[k] = n
    BY <2>2, <2>4, <2>5
  <2>8. \A i \in 1 .. k - 1 : path[i] # n
    BY <2>2, <2>4, <2>5
  <2>9. QED
    BY <2>6, <2>7, <2>8
<1>4. QED
  BY <1>2, <1>3

LEMMA LastOfInitial ==
  ASSUME NEW S, NEW path \in Seq(S), NEW k \in 1 .. Len(path)
  PROVE  /\ Last(SubSeq(path, 1, k)) = path[k]
         /\ Front(SubSeq(path, 1, k)) = SubSeq(path, 1, k - 1)
         /\ SubSeq(path, 1, k) # <<>>
<1>1. /\ k \in 0 .. Len(path) /\ k - 1 \in 0 .. k /\ k \in 1 .. k
      /\ Len(path) \in Nat
  OBVIOUS
<1>2. /\ SubSeq(path, 1, k) \in Seq(S) /\ Len(SubSeq(path, 1, k)) = k
      /\ SubSeq(path, 1, k)[k] = path[k]
  BY <1>1, Initial
<1>3. SubSeq(SubSeq(path, 1, k), 1, k - 1) = SubSeq(path, 1, k - 1)
  BY <1>1, SameInitials
<1>4. QED
  BY <1>2, <1>3, EmptySeq DEF Last, Front

(* One directory: the walk stops in it at the first name that matches.      *)
LEMMA WalkStopsAtFirst ==
  ASSUME NEW S, NEW path \in Seq(S), NEW database, NEW p
  PROVE  /\ p \in Above(path) /\ Last(p) = database
         /\ \A q \in Above(Front(p)) : Last(q) # database
         <=> p = SubSeq(path, 1, FirstIn(path, database)) /\ p # <<>>
<1> DEFINE k == FirstIn(path, database)
<1>1. \/ k = 0 /\ \A i \in 1 .. Len(path) : path[i] # database
      \/ /\ k \in 1 .. Len(path) /\ path[k] = database
         /\ \A i \in 1 .. k - 1 : path[i] # database
  BY FirstIsFirst
<1> HIDE DEF k
<1>2. ASSUME NEW m \in 1 .. Len(path)
      PROVE  (\A q \in Above(SubSeq(path, 1, m - 1)) : Last(q) # database)
               <=> \A i \in 1 .. m - 1 : path[i] # database
  <2>1. m - 1 \in 0 .. Len(path) /\ m \in Nat
    OBVIOUS
  <2>2. /\ SubSeq(path, 1, m - 1) \in Seq(S)
        /\ Len(SubSeq(path, 1, m - 1)) = m - 1
    BY <2>1, Initial
  <2>3. Above(SubSeq(path, 1, m - 1)) =
          {SubSeq(SubSeq(path, 1, m - 1), 1, i) : i \in 1 .. m - 1}
    BY <2>2, AboveIs
  <2>4. ASSUME NEW i \in 1 .. m - 1
        PROVE  Last(SubSeq(SubSeq(path, 1, m - 1), 1, i)) = path[i]
    <3>1. i \in 0 .. m - 1 /\ i \in 1 .. Len(path)
      BY <2>1
    <3>2. SubSeq(SubSeq(path, 1, m - 1), 1, i) = SubSeq(path, 1, i)
      BY <2>1, <3>1, SameInitials
    <3>3. QED
      BY <3>1, <3>2, LastOfInitial
  <2>5. QED
    BY <2>3, <2>4
<1>3. ASSUME p \in Above(path), Last(p) = database,
             \A q \in Above(Front(p)) : Last(q) # database
      PROVE  p = SubSeq(path, 1, k) /\ p # <<>>
  <2>1. PICK m \in 1 .. Len(path) : p = SubSeq(path, 1, m)
    BY <1>3, AboveIs
  <2>2. path[m] = database /\ \A i \in 1 .. m - 1 : path[i] # database
    BY <1>2, <1>3, <2>1, LastOfInitial
  <2>3. m = k
    BY <1>1, <2>2
  <2>4. QED
    BY <2>1, <2>3, LastOfInitial
<1>4. ASSUME p = SubSeq(path, 1, k), p # <<>>
      PROVE  /\ p \in Above(path) /\ Last(p) = database
             /\ \A q \in Above(Front(p)) : Last(q) # database
  <2>1. k \in 1 .. Len(path) /\ path[k] = database
        /\ \A i \in 1 .. k - 1 : path[i] # database
    BY <1>1, <1>4, SubSeqEmpty
  <2>2. p \in Above(path)
    BY <1>4, <2>1, AboveIs
  <2>3. QED
    BY <1>2, <1>4, <2>1, <2>2, LastOfInitial
<1>5. QED
  BY <1>3, <1>4 DEF k

(* An extraction without an error leaves the whole of an archive.           *)
LEMMA OkIsComplete ==
  ASSUME NEW archive, IsArchive(archive), Extract(archive).ok
  PROVE  /\ Extract(archive) = TreeOf(TRUE, archive.entries)
         /\ \A i \in DOMAIN archive.entries :
              /\ Folder(archive.entries[i]) \in Seq(Names)
              /\ Inside(Clean(archive.entries[i].path))
<1> DEFINE entries == archive.entries
<1>1. entries \in Seq(Headers)
  BY DEF IsArchive
<1>2. archive.whole = TRUE /\ Accepted(entries) = entries
  BY DEF Extract, TreeOf, IsArchive
<1>3. PICK n \in 0 .. Len(entries) :
        /\ entries = SubSeq(entries, 1, n)
        /\ \A i \in 1 .. n :
             ~Refused(TreeOf(TRUE, SubSeq(entries, 1, i - 1)), entries[i])
  BY <1>1, <1>2, AcceptedComeFirst
<1>4. n = Len(entries)
  BY <1>1, <1>3, Initial
<1>5. \A i \in DOMAIN entries :
        ~Refused(TreeOf(TRUE, SubSeq(entries, 1, i - 1)), entries[i])
  <2>1. DOMAIN entries = 1 .. n
    BY <1>1, <1>4
  <2>2. QED
    BY <1>3, <2>1, Zenon
<1>6. \A i \in DOMAIN entries :
        Folder(entries[i]) \in Seq(Names) /\ Inside(Clean(entries[i].path))
  BY <1>5, EntryIsInside
<1>7. Extract(archive) = TreeOf(TRUE, entries)
  BY <1>2 DEF Extract
<1>8. QED
  BY <1>6, <1>7

LEMMA MatchesArePlaces ==
  ASSUME NEW archive, IsArchive(archive), Extract(archive).ok, NEW database
  PROVE  Matches(Extract(archive), database) = Places(archive, database)
<1> DEFINE entries == archive.entries
           dirs == Extract(archive).dirs
           upTo(i) == SubSeq(Folder(entries[i]), 1, FirstIn(Folder(entries[i]), database))
<1>1. dirs = UNION {Above(Folder(entries[i])) : i \in DOMAIN entries}
  BY OkIsComplete DEF TreeOf
<1>2. \A i \in DOMAIN entries : Folder(entries[i]) \in Seq(Names)
  BY OkIsComplete
<1>3. Places(archive, database) = {upTo(i) : i \in DOMAIN entries} \ {<<>>}
  BY DEF Places, FirstIn
<1>4. ASSUME NEW p
      PROVE  p \in Matches(Extract(archive), database)
               <=> \E i \in DOMAIN entries : p = upTo(i) /\ p # <<>>
  <2>1. p \in Matches(Extract(archive), database)
          <=> \E i \in DOMAIN entries :
                /\ p \in Above(Folder(entries[i])) /\ Last(p) = database
                /\ \A q \in Above(Front(p)) : Last(q) # database
    BY <1>1 DEF Matches
  <2>2. QED
    BY <1>2, <2>1, WalkStopsAtFirst
<1> HIDE DEF upTo
<1>5. QED
  BY <1>3, <1>4

LEMMA PlacesAreFinite ==
  ASSUME NEW archive, IsArchive(archive), NEW database
  PROVE  IsFiniteSet(Places(archive, database))
<1> DEFINE entries == archive.entries
           upTo == [i \in DOMAIN entries |->
                      SubSeq(Folder(entries[i]), 1, FirstIn(Folder(entries[i]), database))]
           all == {upTo[i] : i \in DOMAIN entries}
<1>1. IsFiniteSet(DOMAIN entries)
  <2>1. entries \in Seq(Headers)
    BY DEF IsArchive
  <2>2. DOMAIN entries = 1 .. Len(entries) /\ Len(entries) \in Int
    BY <2>1
  <2>3. ASSUME NEW n \in Int PROVE IsFiniteSet(1 .. n)
    BY FS_Interval
  <2>4. QED
    BY <2>2, <2>3
<1>2. Places(archive, database) = all \ {<<>>}
  BY DEF Places, FirstIn
<1>3. DOMAIN upTo = DOMAIN entries
  OBVIOUS
<1> HIDE DEF upTo
<1>4. upTo \in [DOMAIN entries -> all]
  BY DEF upTo
<1>5. upTo \in Surjection(DOMAIN entries, all)
  BY <1>4 DEF Surjection
<1>6. IsFiniteSet(all)
  BY <1>1, <1>5, FS_Surjection
<1>7. QED
  BY <1>2, <1>6, FS_Difference

LEMMA TopIsPlace ==
  ASSUME NEW archive, IsArchive(archive), Extract(archive).ok, NEW database
  PROVE  <<database>> \in Extract(archive).dirs
           <=> <<database>> \in Places(archive, database)
<1>1. Last(<<database>>) = database /\ Front(<<database>>) = <<>>
  BY SubSeqEmpty DEF Last, Front
<1>2. Above(<<>>) = {}
  <2>1. <<>> \in Seq(Names) /\ Len(<<>>) = 0
    BY EmptySeq
  <2>2. Above(<<>>) = {SubSeq(<<>>, 1, k) : k \in 1 .. 0}
    BY <2>1, AboveIs
  <2>3. QED
    BY <2>2
<1>3. QED
  BY <1>1, <1>2, MatchesArePlaces DEF Matches

LEMMA FilesAreSaid ==
  ASSUME NEW archive, IsArchive(archive), Extract(archive).ok, NEW path
  PROVE  path \in Extract(archive).files <=> Says(archive, path)
  BY OkIsComplete DEF TreeOf, Says

(* What findDatabaseDir is to find, of an archive that has the database at  *)
(* these places, its top among them or not, and dump files at the top or not. *)
IsRightPlace(found, places, top, flat) ==
  /\ found.flat <=> top \notin places /\ flat
  /\ found = NotFound <=> top \notin places /\ ~flat /\ Cardinality(places) # 1
  /\ found.dir # <<>> => found.dir = top \/ places = {found.dir}
  /\ top \in places => found.dir = top

LEMMA RightPlace ==
  ASSUME NEW places, IsFiniteSet(places), <<>> \notin places,
         NEW top, top # <<>>, NEW flat \in BOOLEAN, NEW found,
         found = IF top \in places THEN Place(top, FALSE)
                 ELSE IF flat THEN Place(<<>>, TRUE)
                 ELSE IF Cardinality(places) = 1
                      THEN Place(CHOOSE p \in places : TRUE, FALSE)
                 ELSE NotFound
  PROVE  IsRightPlace(found, places, top, flat)
<1>1. Cardinality(places) = 1 <=> \E p : places = {p}
  BY FS_Singleton
<1>2. CASE top \in places
  BY <1>2 DEF IsRightPlace, Place, NotFound
<1>3. CASE top \notin places /\ flat
  BY <1>3 DEF IsRightPlace, Place, NotFound
<1>4. CASE top \notin places /\ ~flat /\ Cardinality(places) = 1
  <2>1. PICK p : places = {p}
    BY <1>1, <1>4
  <2>2. found = Place(p, FALSE) /\ p # <<>>
    BY <1>4, <2>1
  <2>3. QED
    BY <1>4, <2>1, <2>2 DEF IsRightPlace, Place, NotFound
<1>5. CASE top \notin places /\ ~flat /\ Cardinality(places) # 1
  BY <1>5 DEF IsRightPlace, Place, NotFound
<1>6. QED
  BY <1>2, <1>3, <1>4, <1>5

(* Of an archive that has been unpacked without an error, findDatabaseDir   *)
(* takes the directory of the database at the top of it; without one, the   *)
(* top itself if dump files are there, and else the only directory of that  *)
(* name below it (restore.go:93-127).                                       *)
THEOREM FindsThePlace ==
  ASSUME NEW archive, IsArchive(archive), Extract(archive).ok, NEW database
  PROVE  IsRightPlace(FindDatabaseDir(Extract(archive), database),
                      Places(archive, database), <<database>>,
                      \E n \in DumpFiles : Says(archive, <<n>>))
<1>1. <<database>> \in Extract(archive).dirs
        <=> <<database>> \in Places(archive, database)
  BY TopIsPlace
<1>2. HasDumpFiles(Extract(archive)) <=> \E n \in DumpFiles : Says(archive, <<n>>)
  BY FilesAreSaid DEF HasDumpFiles
<1>3. Matches(Extract(archive), database) = Places(archive, database)
  BY MatchesArePlaces
<1>4. <<>> \notin Places(archive, database) /\ <<database>> # <<>>
  BY DEF Places
<1>5. FindDatabaseDir(Extract(archive), database) =
        IF <<database>> \in Places(archive, database) THEN Place(<<database>>, FALSE)
        ELSE IF \E n \in DumpFiles : Says(archive, <<n>>) THEN Place(<<>>, TRUE)
        ELSE IF Cardinality(Places(archive, database)) = 1
             THEN Place(CHOOSE p \in Places(archive, database) : TRUE, FALSE)
        ELSE NotFound
  <2>1. FindDatabaseDir(Extract(archive), database) =
          IF <<database>> \in Extract(archive).dirs THEN Place(<<database>>, FALSE)
          ELSE IF HasDumpFiles(Extract(archive)) THEN Place(<<>>, TRUE)
          ELSE IF Cardinality(Places(archive, database)) = 1
               THEN Place(CHOOSE p \in Places(archive, database) : TRUE, FALSE)
          ELSE NotFound
    BY <1>3 DEF FindDatabaseDir
  <2>2. QED
    BY <1>1, <1>2, <2>1
<1>6. QED
  BY <1>4, <1>5, PlacesAreFinite, RightPlace
-----------------------------------------------------------------------------
(* The order of a walk.                                                     *)

Rank(name) == FirstIn(NameOrder, name)

LEMMA RankIsPlace ==
  ASSUME NEW name \in Names
  PROVE  Rank(name) \in Nat /\ NameOrder[Rank(name)] = name
<1>1. PICK i \in 1 .. Len(NameOrder) : NameOrder[i] = name
  BY OrderAssumption DEF Names, ToSet
<1>2. Rank(name) \in 1 .. Len(NameOrder) /\ NameOrder[Rank(name)] = name
  BY <1>1, FirstIsFirst, OrderAssumption DEF Rank
<1>3. QED
  BY <1>2

(* Two paths agree in their first n names, and then p ends or has a name    *)
(* that comes before the one of q.                                          *)
PartAt(p, q, n) ==
  /\ n \in Nat /\ n <= Len(p) /\ n < Len(q)
  /\ \A k \in 1 .. n : p[k] = q[k]
  /\ n < Len(p) => Rank(p[n + 1]) < Rank(q[n + 1])

LEMMA PrecedesIs ==
  ASSUME NEW p \in Seq(Names), NEW q \in Seq(Names)
  PROVE  Precedes(p, q) <=> \E n \in Nat : PartAt(p, q, n)
<1>1. IsStrictPrefix(p, q) <=> PartAt(p, q, Len(p))
  <2>1. Len(p) \in Nat /\ Len(q) \in Nat /\ Len(p) \in 0 .. Len(p)
    OBVIOUS
  <2>2. SubSeq(p, 1, Len(p)) = p
    BY SubSeqFull
  <2>3. CASE Len(p) <= Len(q)
    <3>1. /\ SubSeq(q, 1, Len(p)) \in Seq(Names) /\ Len(SubSeq(q, 1, Len(p))) = Len(p)
          /\ \A k \in 1 .. Len(p) : SubSeq(q, 1, Len(p))[k] = q[k]
      BY <2>1, <2>3, Initial
    <3>2. p = SubSeq(q, 1, Len(p)) <=> \A k \in 1 .. Len(p) : p[k] = q[k]
      BY <3>1, SeqEqual
    <3>3. p = q <=> Len(p) = Len(q) /\ \A k \in 1 .. Len(p) : p[k] = q[k]
      BY SeqEqual
    <3>4. QED
      BY <2>1, <2>2, <2>3, <3>2, <3>3 DEF IsStrictPrefix, IsPrefix, PartAt
  <2>4. CASE ~(Len(p) <= Len(q))
    BY <2>1, <2>4 DEF IsStrictPrefix, IsPrefix, PartAt
  <2>5. QED
    BY <2>3, <2>4
<1>2. Precedes(p, q) <=>
        \/ IsStrictPrefix(p, q)
        \/ \E i \in DOMAIN p \cap DOMAIN q :
             /\ \A k \in 1 .. i - 1 : p[k] = q[k]
             /\ Rank(p[i]) < Rank(q[i])
  BY DEF Precedes, Rank, FirstIn
<1>3. ASSUME NEW i \in DOMAIN p \cap DOMAIN q, \A k \in 1 .. i - 1 : p[k] = q[k],
             Rank(p[i]) < Rank(q[i])
      PROVE  PartAt(p, q, i - 1)
  BY <1>3 DEF PartAt
<1>4. ASSUME NEW n \in Nat, PartAt(p, q, n), n # Len(p)
      PROVE  \E i \in DOMAIN p \cap DOMAIN q :
               /\ \A k \in 1 .. i - 1 : p[k] = q[k]
               /\ Rank(p[i]) < Rank(q[i])
  <2>1. n + 1 \in DOMAIN p \cap DOMAIN q /\ (n + 1) - 1 = n
    BY <1>4 DEF PartAt
  <2>2. Rank(p[n + 1]) < Rank(q[n + 1]) /\ \A k \in 1 .. n : p[k] = q[k]
    BY <1>4, <2>1 DEF PartAt
  <2>3. QED
    BY <2>1, <2>2
<1>5. QED
  BY <1>1, <1>2, <1>3, <1>4 DEF PartAt

LEMMA PrecedesIsTransitive ==
  ASSUME NEW p \in Seq(Names), NEW q \in Seq(Names), NEW r \in Seq(Names),
         Precedes(p, q), Precedes(q, r)
  PROVE  Precedes(p, r)
<1>1. PICK m \in Nat : PartAt(p, q, m)
  BY PrecedesIs
<1>2. PICK n \in Nat : PartAt(q, r, n)
  BY PrecedesIs
<1>3. /\ Len(p) \in Nat /\ Len(q) \in Nat /\ Len(r) \in Nat
      /\ \A k \in 1 .. Len(p) : Rank(p[k]) \in Nat
      /\ \A k \in 1 .. Len(q) : Rank(q[k]) \in Nat
      /\ \A k \in 1 .. Len(r) : Rank(r[k]) \in Nat
  BY RankIsPlace
<1>4. CASE m <= n
  <2>1. PartAt(p, r, m)
    <3>1. /\ m <= Len(p) /\ m < Len(r)
          /\ \A k \in 1 .. m : p[k] = r[k]
      BY <1>1, <1>2, <1>3, <1>4 DEF PartAt
    <3>2. ASSUME m < Len(p) PROVE Rank(p[m + 1]) < Rank(r[m + 1])
      <4>1. /\ m + 1 \in 1 .. Len(p) /\ m + 1 \in 1 .. Len(q) /\ m + 1 \in 1 .. Len(r)
            /\ Rank(p[m + 1]) < Rank(q[m + 1])
        BY <1>1, <1>3, <3>1, <3>2 DEF PartAt
      <4>2. /\ Rank(p[m + 1]) \in Nat /\ Rank(q[m + 1]) \in Nat
            /\ Rank(r[m + 1]) \in Nat
        BY <1>3, <4>1
      <4>3. CASE m = n
        <5>1. Rank(q[m + 1]) < Rank(r[m + 1])
          BY <1>2, <4>1, <4>3, <1>3 DEF PartAt
        <5>2. QED
          BY <4>1, <4>2, <5>1
      <4>4. CASE m < n
        <5>1. q[m + 1] = r[m + 1]
          BY <1>2, <4>4 DEF PartAt
        <5>2. QED
          BY <4>1, <5>1
      <4>5. QED
        BY <1>4, <4>3, <4>4
    <3>3. QED
      BY <3>1, <3>2 DEF PartAt
  <2>2. QED
    BY <2>1, PrecedesIs
<1>5. CASE n < m
  <2>1. PartAt(p, r, n)
    BY <1>1, <1>2, <1>3, <1>5 DEF PartAt
  <2>2. QED
    BY <2>1, PrecedesIs
<1>6. QED
  BY <1>4, <1>5

LEMMA PrecedesIsIrreflexive ==
  ASSUME NEW p \in Seq(Names)
  PROVE  ~Precedes(p, p)
<1>1. Len(p) \in Nat /\ \A k \in 1 .. Len(p) : Rank(p[k]) \in Nat
  BY RankIsPlace
<1>2. ASSUME NEW n \in Nat, PartAt(p, p, n) PROVE FALSE
  BY <1>1, <1>2 DEF PartAt
<1>3. QED
  BY <1>2, PrecedesIs

LEMMA PrecedesIsTotal ==
  ASSUME NEW p \in Seq(Names), NEW q \in Seq(Names), p # q
  PROVE  Precedes(p, q) \/ Precedes(q, p)
<1> DEFINE parted == {k \in Nat \ {0} : k <= Len(p) /\ k <= Len(q) /\ p[k] # q[k]}
<1>1. Len(p) \in Nat /\ Len(q) \in Nat
  OBVIOUS
<1>2. CASE parted = {}
  <2>1. \A k \in Nat \ {0} : k <= Len(p) /\ k <= Len(q) => p[k] = q[k]
    BY <1>2
  <2>2. Len(p) # Len(q)
    <3>1. SUFFICES ASSUME Len(p) = Len(q) PROVE FALSE
      OBVIOUS
    <3>2. \A k \in 1 .. Len(p) : p[k] = q[k]
      BY <1>1, <2>1, <3>1
    <3>3. QED
      BY <3>1, <3>2, SeqEqual
  <2>3. CASE Len(p) < Len(q)
    <3>1. PartAt(p, q, Len(p))
      BY <1>1, <2>1, <2>3 DEF PartAt
    <3>2. QED
      BY <1>1, <3>1, PrecedesIs
  <2>4. CASE Len(q) < Len(p)
    <3>1. PartAt(q, p, Len(q))
      BY <1>1, <2>1, <2>4 DEF PartAt
    <3>2. QED
      BY <1>1, <3>1, PrecedesIs
  <2>5. QED
    BY <1>1, <2>2, <2>3, <2>4
<1>3. CASE parted # {}
  <2>1. parted \subseteq Nat
    OBVIOUS
  <2>2. PICK k \in parted : \A j \in parted : k <= j
    <3> HIDE DEF parted
    <3>1. QED
      BY <1>3, <2>1, LeastNumber
  <2>3. /\ k \in Nat \ {0} /\ k <= Len(p) /\ k <= Len(q) /\ p[k] # q[k]
        /\ \A j \in 1 .. k - 1 : p[j] = q[j]
    BY <1>1, <2>2
  <2>4. p[k] \in Names /\ q[k] \in Names
    BY <1>1, <2>3
  <2>5. Rank(p[k]) \in Nat /\ Rank(q[k]) \in Nat /\ Rank(p[k]) # Rank(q[k])
    BY <2>3, <2>4, RankIsPlace
  <2>6. k - 1 \in Nat /\ (k - 1) + 1 = k
    BY <2>3
  <2> HIDE DEF parted
  <2>7. PartAt(p, q, k - 1) \/ PartAt(q, p, k - 1)
    BY <1>1, <2>3, <2>5, <2>6 DEF PartAt
  <2>8. QED
    BY <2>6, <2>7, PrecedesIs
<1>4. QED
  BY <1>2, <1>3

(* A walk visits every path, and nothing else.                              *)
LEMMA WalkVisitsAll ==
  ASSUME NEW paths \in SUBSET Seq(Names), IsFiniteSet(paths)
  PROVE  /\ DOMAIN Walk(paths) = 1 .. Cardinality(paths)
         /\ Cardinality(paths) \in Nat
         /\ \A i \in 1 .. Cardinality(paths) : Walk(paths)[i] \in paths
         /\ \A p \in paths : \E i \in 1 .. Cardinality(paths) : Walk(paths)[i] = p
<1> DEFINE before(p) == {q \in paths : Precedes(q, p)}
           size == Cardinality(paths)
           place == [p \in paths |-> Cardinality(before(p)) + 1]
<1>1. size \in Nat
  BY FS_CardinalityType
<1>2. ASSUME NEW p \in paths
      PROVE  /\ IsFiniteSet(before(p))
             /\ Cardinality(before(p)) \in Nat /\ Cardinality(before(p)) < size
  <2>1. IsFiniteSet(paths \ {p}) /\ Cardinality(paths \ {p}) = size - 1
    BY FS_RemoveElement
  <2>2. before(p) \in SUBSET (paths \ {p})
    BY PrecedesIsIrreflexive
  <2> HIDE DEF before
  <2>3. IsFiniteSet(before(p)) /\ Cardinality(before(p)) <= size - 1
    BY <2>1, <2>2, FS_Subset
  <2>4. Cardinality(before(p)) \in Nat
    BY <2>3, FS_CardinalityType
  <2>5. QED
    BY <1>1, <2>3, <2>4
<1>3. ASSUME NEW p \in paths, NEW q \in paths, Precedes(p, q)
      PROVE  Cardinality(before(p)) # Cardinality(before(q))
  <2>1. before(p) \in SUBSET before(q)
    BY <1>3, PrecedesIsTransitive
  <2>2. p \in before(q) /\ p \notin before(p)
    BY <1>3, PrecedesIsIrreflexive
  <2>3. IsFiniteSet(before(q))
    BY <1>2
  <2> HIDE DEF before
  <2>4. QED
    BY <2>1, <2>2, <2>3, FS_Subset
<1>4. ASSUME NEW p \in paths, NEW q \in paths, p # q
      PROVE  Cardinality(before(p)) # Cardinality(before(q))
  BY <1>3, <1>4, PrecedesIsTotal
<1>5. Walk(paths) = [i \in 1 .. size |->
                       CHOOSE p \in paths : Cardinality(before(p)) = i - 1]
  BY DEF Walk
<1> HIDE DEF before
<1>6. place \in Injection(paths, 1 .. size)
  <2>1. \A p \in paths : place[p] \in 1 .. size
    BY <1>1, <1>2
  <2>2. \A p, q \in paths : p # q => place[p] # place[q]
    BY <1>2, <1>4
  <2>3. place \in [paths -> 1 .. size]
    BY <2>1
  <2> HIDE DEF place
  <2>4. QED
    BY <2>2, <2>3 DEF Injection, IsInjective
<1>7. place \in Surjection(paths, 1 .. size)
  <2>1. IsFiniteSet(1 .. size) /\ Cardinality(1 .. size) = size
    <3>1. 1 \in Int /\ size \in Int
      BY <1>1
    <3>2. /\ IsFiniteSet(1 .. size)
          /\ Cardinality(1 .. size) = IF 1 > size THEN 0 ELSE size - 1 + 1
      BY <3>1, FS_Interval
    <3>3. QED
      BY <1>1, <3>2
  <2> HIDE DEF place
  <2>2. QED
    BY <1>6, <2>1, FS_Injection
<1>8. \A i \in 1 .. size : \E p \in paths : Cardinality(before(p)) = i - 1
  <2>1. \A i \in 1 .. size : \E p \in paths : place[p] = i
    BY <1>7 DEF Surjection
  <2>2. \A p \in paths : place[p] = Cardinality(before(p)) + 1
    OBVIOUS
  <2> HIDE DEF place
  <2>3. ASSUME NEW i \in 1 .. size
        PROVE  \E p \in paths : Cardinality(before(p)) = i - 1
    <3>1. PICK p \in paths : place[p] = i
      BY <2>1
    <3>2. Cardinality(before(p)) \in Nat /\ Cardinality(before(p)) + 1 = i
      BY <1>2, <2>2, <3>1
    <3>3. QED
      BY <3>2
  <2>4. QED
    BY <2>3
<1> HIDE DEF place
<1>9. ASSUME NEW i \in 1 .. size
      PROVE  Walk(paths)[i] \in paths /\ Cardinality(before(Walk(paths)[i])) = i - 1
  BY <1>5, <1>8
<1>10. ASSUME NEW p \in paths
       PROVE  \E i \in 1 .. size : Walk(paths)[i] = p
  <2>1. Cardinality(before(p)) + 1 \in 1 .. size
    BY <1>1, <1>2
  <2>2. PICK i \in 1 .. size : i = Cardinality(before(p)) + 1
    BY <2>1
  <2>3. Cardinality(before(Walk(paths)[i])) = Cardinality(before(p))
    BY <1>2, <1>9, <2>2
  <2>4. QED
    BY <1>4, <1>9, <2>2, <2>3
<1>11. QED
  BY <1>1, <1>5, <1>9, <1>10
-----------------------------------------------------------------------------
(* From a dump into an archive and back.                                    *)

(* Clean leaves a plain path alone.                                         *)
LEMMA PlainIsClean ==
  ASSUME NEW path \in Seq(Plain)
  PROVE  Clean(path) = path
<1>1. PICK run : IsRun(run, path, Len(path)) /\ Clean(path) = run[Len(path)]
  BY CleanRuns
<1> DEFINE Bad == {k \in 0 .. Len(path) : run[k] # SubSeq(path, 1, k)}
<1>2. CASE Bad = {}
  <2>1. run[Len(path)] = SubSeq(path, 1, Len(path))
    BY <1>2
  <2>2. QED
    BY <1>1, <2>1, SubSeqFull
<1>3. CASE Bad # {}
  <2>1. Bad \subseteq Nat
    OBVIOUS
  <2>2. PICK k \in Bad : \A j \in Bad : k <= j
    <3> HIDE DEF Bad
    <3>1. QED
      BY <1>3, <2>1, LeastNumber
  <2>3. /\ k \in 0 .. Len(path) /\ run[k] # SubSeq(path, 1, k)
        /\ \A j \in 0 .. k - 1 : run[j] = SubSeq(path, 1, j)
    BY <2>2
  <2> HIDE DEF Bad
  <2>4. CASE k = 0
    <3>1. run[0] = <<>>
      BY <1>1 DEF IsRun
    <3>2. QED
      BY <2>3, <2>4, <3>1, SubSeqEmpty
  <2>5. CASE k # 0
    <3>1. k \in 1 .. Len(path) /\ k - 1 \in 0 .. k - 1 /\ k - 1 \in 0 .. Len(path)
      BY <2>3, <2>5
    <3>2. run[k] = Resolve(SubSeq(path, 1, k - 1), path[k])
      <4>1. run[k] = Resolve(run[k - 1], path[k])
        BY <1>1, <2>3, <3>1 DEF IsRun
      <4>2. QED
        BY <2>3, <3>1, <4>1
    <3>3. path[k] \notin {".", ".."}
      BY <3>1 DEF Plain
    <3>4. run[k] = Append(SubSeq(path, 1, k - 1), path[k])
      BY <3>2, <3>3 DEF Resolve
    <3>5. Append(SubSeq(path, 1, k - 1), path[k]) = SubSeq(path, 1, k)
      <4> DEFINE s == SubSeq(path, 1, k - 1)
                 t == SubSeq(path, 1, k)
      <4>1. /\ s \in Seq(Plain) /\ Len(s) = k - 1
            /\ \A j \in 1 .. k - 1 : s[j] = path[j]
        BY <3>1, Initial
      <4>2. /\ t \in Seq(Plain) /\ Len(t) = k
            /\ \A j \in 1 .. k : t[j] = path[j]
        BY <2>3, Initial
      <4> HIDE DEF s, t
      <4>3. path[k] \in Plain
        BY <3>1
      <4>4. /\ Append(s, path[k]) \in Seq(Plain) /\ Len(Append(s, path[k])) = k
            /\ Append(s, path[k])[k] = path[k]
            /\ \A j \in 1 .. k - 1 : Append(s, path[k])[j] = s[j]
        BY <3>1, <4>1, <4>3
      <4>5. \A j \in 1 .. k : Append(s, path[k])[j] = t[j]
        BY <3>1, <4>1, <4>2, <4>4
      <4>6. Append(s, path[k]) = t
        BY <4>2, <4>4, <4>5, SeqEqual
      <4>7. QED
        BY <4>6 DEF s, t
    <3>6. QED
      BY <2>3, <3>4, <3>5
  <2>6. QED
    BY <2>4, <2>5
<1>4. QED
  BY <1>2, <1>3

LEMMA AboveIsFrontAnd ==
  ASSUME NEW S, NEW path \in Seq(S), path # <<>>
  PROVE  Above(path) = Above(Front(path)) \cup {path}
<1>1. /\ Len(path) \in Nat \ {0} /\ Len(path) - 1 \in 0 .. Len(path)
      /\ Front(path) = SubSeq(path, 1, Len(path) - 1)
  BY Fronts
<1>2. Front(path) \in Seq(S) /\ Len(Front(path)) = Len(path) - 1
  BY <1>1, Initial
<1>3. \A k \in 1 .. Len(path) - 1 : SubSeq(Front(path), 1, k) = SubSeq(path, 1, k)
  BY <1>1, SameInitials
<1>4. Above(Front(path)) = {SubSeq(path, 1, k) : k \in 1 .. Len(path) - 1}
  BY <1>2, <1>3, AboveIs
<1>5. Above(path) = {SubSeq(path, 1, k) : k \in 1 .. Len(path)}
  BY AboveIs
<1>6. SubSeq(path, 1, Len(path)) = path
  BY SubSeqFull
<1>7. \A k : k \in 1 .. Len(path) <=> k \in 1 .. Len(path) - 1 \/ k = Len(path)
  BY <1>1
<1>8. QED
  BY <1>4, <1>5, <1>6, <1>7

(* What Compress writes of a dump.                                          *)
LEMMA CompressLists ==
  ASSUME NEW tree, IsDump(tree)
  PROVE  LET entries == Compress(tree)
             all == tree.dirs \cup tree.files
         IN  /\ Len(entries) \in Nat /\ DOMAIN entries = 1 .. Len(entries)
             /\ entries \in Seq(Headers)
             /\ \A i \in DOMAIN entries :
                  \E p \in all : entries[i] = Listed(tree, p)
             /\ \A p \in all :
                  \E i \in DOMAIN entries : entries[i] = Listed(tree, p)
<1> DEFINE entries == Compress(tree)
           all == tree.dirs \cup tree.files
           walk == Walk(all)
           size == Cardinality(all)
<1>1. all \in SUBSET Seq(Plain) /\ IsFiniteSet(all)
  BY DEF IsDump
<1>2. ASSUME NEW p \in Seq(Plain) PROVE p \in Seq(Names)
  BY SeqMonotonic DEF Plain
<1>3. all \in SUBSET Seq(Names)
  BY <1>1, <1>2
<1> HIDE DEF all
<1>4. /\ DOMAIN walk = 1 .. size /\ size \in Nat
      /\ \A i \in 1 .. size : walk[i] \in all
      /\ \A p \in all : \E i \in 1 .. size : walk[i] = p
  BY <1>1, <1>3, WalkVisitsAll
<1>5. entries = [i \in 1 .. size |-> Listed(tree, walk[i])]
  BY <1>4 DEF Compress, all
<1> HIDE DEF walk, size, entries
<1>6. \A i \in 1 .. size : Listed(tree, walk[i]) \in Headers
  BY <1>3, <1>4 DEF Listed, Headers
<1>7. entries \in Seq(Headers) /\ Len(entries) = size /\ DOMAIN entries = 1 .. size
  BY <1>4, <1>5, <1>6
<1>8. /\ \A i \in DOMAIN entries : \E p \in all : entries[i] = Listed(tree, p)
      /\ \A p \in all : \E i \in DOMAIN entries : entries[i] = Listed(tree, p)
  BY <1>4, <1>5, <1>7
<1>9. QED
  BY <1>4, <1>7, <1>8 DEF entries, all

(* What an entry stands for.                                                *)
LEMMA ListedIs ==
  ASSUME NEW tree, IsDump(tree), NEW p \in tree.dirs \cup tree.files
  PROVE  LET entry == Listed(tree, p)
         IN  /\ Clean(entry.path) = p /\ p \in Seq(Plain) /\ p # <<>>
             /\ Above(Folder(entry)) \subseteq tree.dirs
             /\ entry.kind = IF p \in tree.dirs THEN "dir" ELSE "file"
             /\ p \in tree.dirs => p \in Above(Folder(entry))
             /\ ~Unsafe(p)
<1> DEFINE entry == Listed(tree, p)
<1>1. p \in Seq(Plain) /\ p # <<>> /\ Above(Front(p)) \subseteq tree.dirs
  BY DEF IsDump
<1>2. entry.path = p /\ entry.kind = IF p \in tree.dirs THEN "dir" ELSE "file"
  BY DEF Listed
<1>3. Clean(entry.path) = p
  BY <1>1, <1>2, PlainIsClean
<1>4. Above(p) = Above(Front(p)) \cup {p}
  BY <1>1, AboveIsFrontAnd
<1>5. Folder(entry) = IF p \in tree.dirs THEN p ELSE Front(p)
  BY <1>2, <1>3 DEF Folder
<1>6. Head(p) \in Plain
  BY <1>1, HeadTailProperties
<1>7. ~Unsafe(p)
  BY <1>1, <1>6 DEF Unsafe, Plain
<1> HIDE DEF entry
<1>8. /\ Above(Folder(entry)) \subseteq tree.dirs
      /\ p \in tree.dirs => p \in Above(Folder(entry))
  BY <1>1, <1>4, <1>5
<1>9. QED
  BY <1>1, <1>2, <1>3, <1>7, <1>8 DEF entry

(* What Compress makes of a dump, extractArchive takes apart again: none of *)
(* its entries is refused, and the dump is there as it was (archive.go:56-98 *)
(* against restore.go:142-196).                                             *)
THEOREM RoundTrip ==
  ASSUME NEW tree, IsDump(tree)
  PROVE  Extract([entries |-> Compress(tree), whole |-> TRUE]) = tree
<1> DEFINE entries == Compress(tree)
           all == tree.dirs \cup tree.files
<1>1. /\ Len(entries) \in Nat /\ DOMAIN entries = 1 .. Len(entries)
      /\ entries \in Seq(Headers)
      /\ \A i \in DOMAIN entries : \E p \in all : entries[i] = Listed(tree, p)
      /\ \A p \in all : \E i \in DOMAIN entries : entries[i] = Listed(tree, p)
  BY CompressLists
<1>2. tree.dirs \cap tree.files = {}
  BY DEF IsDump
<1> HIDE DEF entries
<1>3. ASSUME NEW n \in 0 .. Len(entries)
      PROVE  LET out == TreeOf(TRUE, SubSeq(entries, 1, n))
             IN  /\ out.dirs = UNION {Above(Folder(entries[i])) : i \in 1 .. n}
                 /\ out.files = {Clean(entries[i].path) :
                                   i \in {j \in 1 .. n : entries[j].kind = "file"}}
  <2>1. /\ DOMAIN SubSeq(entries, 1, n) = 1 .. n
        /\ \A i \in 1 .. n : SubSeq(entries, 1, n)[i] = entries[i]
    BY <1>1, Initial
  <2>2. QED
    BY <2>1 DEF TreeOf
<1>4. ASSUME NEW n \in 0 .. Len(entries)
      PROVE  /\ TreeOf(TRUE, SubSeq(entries, 1, n)).dirs \subseteq tree.dirs
             /\ TreeOf(TRUE, SubSeq(entries, 1, n)).files \subseteq tree.files
  <2>1. ASSUME NEW i \in 1 .. n
        PROVE  /\ Above(Folder(entries[i])) \subseteq tree.dirs
               /\ entries[i].kind = "file" => Clean(entries[i].path) \in tree.files
    <3>1. PICK p \in all : entries[i] = Listed(tree, p)
      BY <1>1
    <3>2. QED
      BY <3>1, ListedIs
  <2>2. TreeOf(TRUE, SubSeq(entries, 1, n)).dirs \subseteq tree.dirs
    <3>1. TreeOf(TRUE, SubSeq(entries, 1, n)).dirs =
            UNION {Above(Folder(entries[i])) : i \in 1 .. n}
      BY <1>3
    <3>2. QED
      BY <2>1, <3>1
  <2>3. TreeOf(TRUE, SubSeq(entries, 1, n)).files \subseteq tree.files
    <3>1. TreeOf(TRUE, SubSeq(entries, 1, n)).files =
            {Clean(entries[i].path) : i \in {j \in 1 .. n : entries[j].kind = "file"}}
      BY <1>3
    <3>2. QED
      BY <2>1, <3>1
  <2>4. QED
    BY <2>2, <2>3
<1>5. ASSUME NEW n \in 1 .. Len(entries)
      PROVE  ~Refused(TreeOf(TRUE, SubSeq(entries, 1, n - 1)), entries[n])
  <2>1. PICK p \in all : entries[n] = Listed(tree, p)
    BY <1>1
  <2>2. n - 1 \in 0 .. Len(entries)
    BY <1>1
  <2>3. /\ TreeOf(TRUE, SubSeq(entries, 1, n - 1)).dirs \subseteq tree.dirs
        /\ TreeOf(TRUE, SubSeq(entries, 1, n - 1)).files \subseteq tree.files
    BY <1>4, <2>2
  <2>4. /\ Clean(entries[n].path) = p /\ ~Unsafe(p)
        /\ Above(Folder(entries[n])) \subseteq tree.dirs
        /\ entries[n].kind = IF p \in tree.dirs THEN "dir" ELSE "file"
    BY <2>1, ListedIs
  <2>5. QED
    BY <1>2, <2>3, <2>4 DEF Refused
<1>6. Accepted(entries) = entries
  <2>1. {n \in DOMAIN entries :
           Refused(TreeOf(TRUE, SubSeq(entries, 1, n - 1)), entries[n])} = {}
    BY <1>1, <1>5
  <2>2. QED
    BY <2>1 DEF Accepted
<1>7. Extract([entries |-> entries, whole |-> TRUE]) = TreeOf(TRUE, entries)
  BY <1>6 DEF Extract
<1>8. TreeOf(TRUE, entries).dirs = tree.dirs /\ TreeOf(TRUE, entries).files = tree.files
  <2>1. SubSeq(entries, 1, Len(entries)) = entries /\ Len(entries) \in 0 .. Len(entries)
    BY <1>1, SubSeqFull
  <2>2. /\ TreeOf(TRUE, entries).dirs \subseteq tree.dirs
        /\ TreeOf(TRUE, entries).files \subseteq tree.files
    BY <1>4, <2>1
  <2>3. ASSUME NEW p \in tree.dirs PROVE p \in TreeOf(TRUE, entries).dirs
    <3>1. PICK i \in DOMAIN entries : entries[i] = Listed(tree, p)
      BY <1>1
    <3>2. p \in Above(Folder(entries[i]))
      BY <3>1, ListedIs
    <3>3. QED
      BY <3>2 DEF TreeOf
  <2>4. ASSUME NEW p \in tree.files PROVE p \in TreeOf(TRUE, entries).files
    <3>1. PICK i \in DOMAIN entries : entries[i] = Listed(tree, p)
      BY <1>1
    <3>2. Clean(entries[i].path) = p /\ entries[i].kind = "file"
      BY <1>2, <3>1, ListedIs
    <3>3. QED
      BY <3>2 DEF TreeOf
  <2>5. QED
    BY <2>2, <2>3, <2>4
<1>9. tree = [ok |-> TRUE, dirs |-> tree.dirs, files |-> tree.files]
  BY DEF IsDump
<1>10. TreeOf(TRUE, entries) = tree
  BY <1>8, <1>9 DEF TreeOf
<1>11. QED
  BY <1>7, <1>10 DEF entries
=============================================================================
