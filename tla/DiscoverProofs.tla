--------------------------- MODULE DiscoverProofs ---------------------------
(***************************************************************************)
(* Proofs about the loader and test discovery, for whatever go/packages    *)
(* returns: what the packages are that Load makes, what the resolution of  *)
(* a call finds in them, and what the search from each test decides.       *)
(***************************************************************************)
EXTENDS Discover, ListingProofs

-----------------------------------------------------------------------------
(***************************************************************************)
(* The packages.                                                           *)
(***************************************************************************)

\* The files of a raw package that its package has, and the tree of each.
Shown(raw) == {file \in Range(raw.goFiles) : \E k \in DOMAIN raw.syntax : raw.syntax[k].at = file}
TreeOf(raw, file) == raw.syntax[Max({k \in DOMAIN raw.syntax : raw.syntax[k].at = file})]
FileOf(raw, file) ==
    [file |-> file, test |-> file \in TestFiles,
     compiled |-> CompiledFile(CleanAbsPaths(raw.compiled), file),
     aliases |-> TreeOf(raw, file).aliases, decls |-> TreeOf(raw, file).decls,
     nodes |-> TreeOf(raw, file).nodes]

\* A sequence has finitely many members.
LEMMA RangeFinite ==
  ASSUME NEW T, NEW s \in Seq(T)
  PROVE  Range(s) \subseteq T /\ IsFiniteSet(Range(s))
<1>1. Len(s) \in Nat /\ s \in [1 .. Len(s) -> T]
  OBVIOUS
<1>2. Range(s) \subseteq T
  BY <1>1 DEF Range
<1>3. s \in Surjection(1 .. Len(s), Range(s))
  BY <1>1 DEF Surjection, Range
<1> QED BY <1>1, <1>2, <1>3, FS_Interval, FS_Surjection

\* The files of a package are in ascending order, without duplicates, and those
\* for which there is a syntax tree.
LEMMA BuiltFiles ==
  ASSUME NEW raw, IsRaw(raw)
  PROVE  LET files == BuildPackage(raw).files
         IN  /\ Len(files) \in Nat /\ DOMAIN files = 1 .. Len(files)
             /\ \A f \in DOMAIN files :
                    files[f].file \in Shown(raw) /\ files[f] = FileOf(raw, files[f].file)
             /\ \A file \in Shown(raw) : \E f \in DOMAIN files : files[f].file = file
             /\ \A f, g \in DOMAIN files : f < g => files[f].file < files[g].file
<1> DEFINE shown == Ascending(Shown(raw))
           files == BuildPackage(raw).files
<1>1. Shown(raw) \subseteq Nat /\ IsFiniteSet(Shown(raw))
  <2>1. Range(raw.goFiles) \subseteq DOMAIN BaseOf /\ IsFiniteSet(Range(raw.goFiles))
    BY RangeFinite DEF IsRaw
  <2>2. Shown(raw) \in SUBSET Range(raw.goFiles)
    BY DEF Shown
  <2> QED BY <2>1, <2>2, FS_Subset, FilesAssumption
<1>2. IsListOf(shown, Shown(raw)) /\ IsAscending(shown)
  BY <1>1, AscendingIsList
<1>3. Shown(raw) = {file \in Range(raw.goFiles) : {k \in DOMAIN raw.syntax : raw.syntax[k].at = file} # {}}
  BY DEF Shown
<1>4. files = [k \in DOMAIN shown |-> FileOf(raw, shown[k])]
  BY <1>3 DEF BuildPackage, FileOf, TreeOf
<1> HIDE DEF shown, files
<1>5. Len(shown) \in Nat /\ DOMAIN shown = 1 .. Len(shown)
  BY <1>2 DEF IsListOf
<1>6. DOMAIN files = 1 .. Len(shown) /\ Len(files) = Len(shown)
  BY <1>4, <1>5
<1>7. \A k \in DOMAIN files : shown[k] \in Shown(raw) /\ files[k] = FileOf(raw, shown[k])
  BY <1>2, <1>4, <1>5, <1>6 DEF IsListOf
<1>8. \A k \in DOMAIN files : files[k].file = shown[k]
  BY <1>7 DEF FileOf
<1>9. \A file \in Shown(raw) : \E k \in DOMAIN shown : shown[k] = file
  BY <1>2 DEF IsListOf
<1>10. \A f, g \in DOMAIN files : f < g => files[f].file < files[g].file
  BY <1>2, <1>5, <1>6, <1>8 DEF IsAscending
<1> QED BY <1>5, <1>6, <1>7, <1>8, <1>9, <1>10 DEF files

\* The tree kept for a file is one of those that claim it.
LEMMA TreeIsOne ==
  ASSUME NEW raw, IsRaw(raw), NEW file \in Shown(raw)
  PROVE  \E t \in DOMAIN raw.syntax : TreeOf(raw, file) = raw.syntax[t]
<1> DEFINE at == {k \in DOMAIN raw.syntax : raw.syntax[k].at = file}
<1>1. at # {} /\ at \subseteq 1 .. Len(raw.syntax) /\ Len(raw.syntax) \in Nat
  BY DEF Shown, IsRaw
<1>2. Max(at) \in at
  <2> HIDE DEF at
  <2> QED BY <1>1, MaxIn
<1> QED BY <1>2 DEF TreeOf

LEMMA BuiltFields ==
  ASSUME NEW raw
  PROVE  /\ BuildPackage(raw).id = raw.id /\ BuildPackage(raw).path = raw.path
         /\ BuildPackage(raw).imports = raw.imports
BY DEF BuildPackage

\* What Load makes of a raw package is what Selection assumes of a package.
LEMMA BuiltPackage ==
  ASSUME NEW raw, IsRaw(raw)
  PROVE  IsPackage(BuildPackage(raw))
<1> DEFINE pkg == BuildPackage(raw)
<1>1. pkg.id = raw.id /\ pkg.path = raw.path /\ pkg.imports = raw.imports
  BY BuiltFields
<1>2. ASSUME NEW f \in DOMAIN pkg.files
      PROVE  pkg.files[f].test \in BOOLEAN /\ IsFileOf(raw.imports, pkg.files[f])
  <2>1. pkg.files[f].file \in Shown(raw) /\ pkg.files[f] = FileOf(raw, pkg.files[f].file)
    BY BuiltFiles
  <2>2. PICK t \in DOMAIN raw.syntax : TreeOf(raw, pkg.files[f].file) = raw.syntax[t]
    BY <2>1, TreeIsOne
  <2> HIDE DEF pkg
  <2>3. pkg.files[f].aliases = raw.syntax[t].aliases /\ pkg.files[f].decls = raw.syntax[t].decls
    BY <2>1, <2>2 DEF FileOf
  <2>4. FileOf(raw, pkg.files[f].file).test \in BOOLEAN
    BY DEF FileOf
  <2>5. pkg.files[f].test \in BOOLEAN
    BY <2>1, <2>4
  <2>6. IsFileOf(raw.imports, raw.syntax[t])
    BY DEF IsRaw
  <2> QED BY <2>3, <2>5, <2>6 DEF IsFileOf
<1>3. Len(pkg.files) \in Nat /\ DOMAIN pkg.files = 1 .. Len(pkg.files)
  BY BuiltFiles
<1> HIDE DEF pkg
<1>4. IsPackage(pkg)
  BY <1>1, <1>2, <1>3 DEF IsPackage, IsRaw
<1> QED BY <1>4 DEF pkg

\* The numbers of the packages kept, and what is made of them.
Kept == Ascending({k \in DOMAIN loaded : IsKept(loaded[k])})
LoadedPackages == [k \in DOMAIN Kept |-> BuildPackage(loaded[Kept[k]])]

\* The part of the invariant that is about the loader.
LoadInv ==
    /\ loaded \in Loads
    /\ pkgs = IF stage \in {"load", "failed"} THEN <<>> ELSE LoadedPackages
    /\ stage \notin {"load", "failed"} => \A k \in DOMAIN loaded : ~loaded[k].errors

LEMMA KeptIsList ==
  ASSUME loaded \in Loads
  PROVE  IsListOf(Kept, {k \in DOMAIN loaded : IsKept(loaded[k])}) /\ IsAscending(Kept)
<1> DEFINE kept == {k \in DOMAIN loaded : IsKept(loaded[k])}
<1>1. kept \in SUBSET (1 .. Len(loaded)) /\ Len(loaded) \in Nat
  BY LoadsAssumption
<1>2. IsFiniteSet(1 .. Len(loaded))
  BY <1>1, FS_Interval
<1> HIDE DEF kept
<1>3. IsFiniteSet(kept) /\ kept \subseteq Nat
  <2>1. IsFiniteSet(kept)
    BY <1>1, <1>2, FS_Subset
  <2>2. 1 .. Len(loaded) \subseteq Nat
    BY <1>1
  <2> QED BY <1>1, <2>1, <2>2
<1>4. Kept = Ascending(kept)
  BY DEF Kept, kept
<1>5. IsListOf(Kept, kept) /\ IsAscending(Kept)
  BY <1>3, <1>4, AscendingIsList
<1> QED BY <1>5 DEF kept

\* Every package is built from a raw one of its own, with the IDs of which it
\* shares that no two are the same.
LEMMA PackagesBuilt ==
  ASSUME LoadInv
  PROVE  /\ Len(pkgs) \in Nat /\ DOMAIN pkgs = 1 .. Len(pkgs)
         /\ \A k \in DOMAIN pkgs :
                \E m \in DOMAIN loaded : IsRaw(loaded[m]) /\ pkgs[k] = BuildPackage(loaded[m])
         /\ ArePackages(pkgs)
<1>1. CASE stage \in {"load", "failed"}
  BY <1>1 DEF LoadInv, ArePackages
<1>2. CASE stage \notin {"load", "failed"}
  <2>1. pkgs = [k \in DOMAIN Kept |-> BuildPackage(loaded[Kept[k]])] /\ loaded \in Loads
    BY <1>2 DEF LoadInv, LoadedPackages
  <2>2. /\ Len(Kept) \in Nat /\ DOMAIN Kept = 1 .. Len(Kept)
        /\ \A k \in DOMAIN Kept : Kept[k] \in DOMAIN loaded
        /\ \A j, k \in DOMAIN Kept : j < k => Kept[j] < Kept[k]
    BY <2>1, KeptIsList DEF IsListOf, IsAscending
  <2>3. DOMAIN pkgs = 1 .. Len(Kept) /\ Len(pkgs) = Len(Kept)
    BY <2>1, <2>2
  <2>4. \A k \in DOMAIN loaded : IsRaw(loaded[k])
    BY <2>1, LoadsAssumption
  <2>5. \A k \in DOMAIN pkgs : pkgs[k] = BuildPackage(loaded[Kept[k]]) /\ IsRaw(loaded[Kept[k]])
    BY <2>1, <2>2, <2>4
  <2>6. \A k \in DOMAIN pkgs : IsPackage(pkgs[k])
    BY <2>5, BuiltPackage
  <2>7. ASSUME NEW j \in DOMAIN pkgs, NEW k \in DOMAIN pkgs, pkgs[j].id = pkgs[k].id PROVE j = k
    <3>1. loaded[Kept[j]].id = loaded[Kept[k]].id
      <4>1. \A m \in DOMAIN pkgs : pkgs[m].id = loaded[Kept[m]].id
        BY <2>5, BuiltFields
      <4> QED BY <2>7, <4>1
    <3>2. Kept[j] = Kept[k]
      BY <2>1, <2>2, <2>3, <3>1, LoadsAssumption
    <3>3. Kept[j] \in Nat /\ ~(Kept[j] < Kept[k]) /\ ~(Kept[k] < Kept[j])
      BY <2>1, <2>2, <2>3, <3>2, LoadsAssumption
    <3> QED BY <2>2, <2>3, <3>3
  <2> QED BY <2>2, <2>3, <2>5, <2>6, <2>7 DEF ArePackages
<1> QED BY <1>1, <1>2

-----------------------------------------------------------------------------
(***************************************************************************)
(* Declarations, by their places.                                          *)
(***************************************************************************)

LEMMA PlaceFacts ==
  ASSUME ArePackages(pkgs), NEW x \in Places
  PROVE  /\ x \in Nat \X Nat \X Nat
         /\ x[1] \in DOMAIN pkgs
         /\ x[2] \in DOMAIN pkgs[x[1]].files
         /\ x[3] \in DOMAIN pkgs[x[1]].files[x[2]].decls
         /\ IsPackage(pkgs[x[1]])
         /\ IsDecl(DeclAt(x))
         /\ DeclAt(x) \in Decls(pkgs[x[1]])
<1>1. PICK k \in DOMAIN pkgs : \E f \in DOMAIN pkgs[k].files :
          \E d \in DOMAIN pkgs[k].files[f].decls : x = <<k, f, d>>
  BY DEF Places
<1>2. PICK f \in DOMAIN pkgs[k].files : \E d \in DOMAIN pkgs[k].files[f].decls : x = <<k, f, d>>
  BY <1>1
<1>3. PICK d \in DOMAIN pkgs[k].files[f].decls : x = <<k, f, d>>
  BY <1>2
<1>4. IsPackage(pkgs[k]) /\ k \in Nat
  BY DEF ArePackages
<1>5. IsFileOf(pkgs[k].imports, pkgs[k].files[f]) /\ f \in Nat
  BY <1>4 DEF IsPackage
<1>6. IsDecl(pkgs[k].files[f].decls[d]) /\ d \in Nat
  BY <1>5 DEF IsFileOf
<1>7. x[1] = k /\ x[2] = f /\ x[3] = d
  BY <1>3
<1>8. x \in Nat \X Nat \X Nat
  BY <1>3, <1>4, <1>5, <1>6
<1>9. pkgs[k].files[f].decls[d] \in Decls(pkgs[k])
  BY DEF Decls
<1> QED BY <1>4, <1>6, <1>7, <1>8, <1>9 DEF DeclAt

\* A place is given by its indices.
LEMMA PlaceHere ==
  ASSUME NEW k \in DOMAIN pkgs, NEW d \in Decls(pkgs[k])
  PROVE  \E x \in Places : x[1] = k /\ DeclAt(x) = d
<1>1. PICK f \in DOMAIN pkgs[k].files : \E i \in DOMAIN pkgs[k].files[f].decls :
          d = pkgs[k].files[f].decls[i]
  BY DEF Decls
<1>2. PICK i \in DOMAIN pkgs[k].files[f].decls : d = pkgs[k].files[f].decls[i]
  BY <1>1
<1>3. <<k, f, i>> \in Places
  BY DEF Places
<1> QED BY <1>2, <1>3 DEF DeclAt

\* There are finitely many places.
LEMMA PlacesFinite ==
  ASSUME ArePackages(pkgs)
  PROVE  IsFiniteSet(Places)
<1> DEFINE InFile(k, f) == {<<k, f, d>> : d \in DOMAIN pkgs[k].files[f].decls}
           InPackage(k) == UNION {InFile(k, f) : f \in DOMAIN pkgs[k].files}
<1>1. ASSUME NEW k \in DOMAIN pkgs, NEW f \in DOMAIN pkgs[k].files
      PROVE  IsFiniteSet(InFile(k, f))
  <2> DEFINE D == DOMAIN pkgs[k].files[f].decls
             g == [d \in D |-> <<k, f, d>>]
  <2>1. IsFileOf(pkgs[k].imports, pkgs[k].files[f])
    BY DEF ArePackages, IsPackage
  <2>2. IsFiniteSet(D)
    BY <2>1, FS_Interval DEF IsFileOf
  <2>3. g \in Surjection(D, InFile(k, f))
    BY DEF Surjection
  <2> HIDE DEF D, g, InFile
  <2> QED BY <2>2, <2>3, FS_Surjection
<1>2. ASSUME NEW k \in DOMAIN pkgs PROVE IsFiniteSet(InPackage(k))
  <2> DEFINE D == DOMAIN pkgs[k].files
             sets == {InFile(k, f) : f \in D}
             g == [f \in D |-> InFile(k, f)]
  <2>1. IsFiniteSet(D)
    <3>1. Len(pkgs[k].files) \in Nat /\ D = 1 .. Len(pkgs[k].files)
      BY DEF ArePackages, IsPackage
    <3> QED BY <3>1, FS_Interval
  <2>2. g \in Surjection(D, sets)
    <3> HIDE DEF InFile
    <3> QED BY DEF Surjection
  <2>3. \A T \in sets : IsFiniteSet(T)
    BY <1>1
  <2>4. InPackage(k) = UNION sets
    OBVIOUS
  <2> HIDE DEF D, g, sets, InPackage
  <2> QED BY <2>1, <2>2, <2>3, <2>4, FS_Surjection, FS_UNION
<1> DEFINE sets == {InPackage(k) : k \in DOMAIN pkgs}
           g == [k \in DOMAIN pkgs |-> InPackage(k)]
<1>3. IsFiniteSet(DOMAIN pkgs)
  BY FS_Interval DEF ArePackages
<1>4. g \in Surjection(DOMAIN pkgs, sets)
  <2> HIDE DEF InPackage
  <2> QED BY DEF Surjection
<1>5. \A T \in sets : IsFiniteSet(T)
  BY <1>2
<1>6. Places = UNION sets
  BY DEF Places
<1> HIDE DEF g, sets, InPackage
<1> QED BY <1>3, <1>4, <1>5, <1>6, FS_Surjection, FS_UNION

\* A key is known if there is a declaration of the name in the package.
KeyAt(x) == <<pkgs[x[1]].id, DeclAt(x).name>>

LEMMA KeyFacts ==
  ASSUME ArePackages(pkgs)
  PROVE  /\ \A x \in Places : KeyAt(x) \in KeysOf(pkgs) /\ x \in PlacesOf(KeyAt(x))
         /\ \A key \in KeysOf(pkgs) : \E x \in Places : key = KeyAt(x)
         /\ \A key : \A x \in PlacesOf(key) : x \in Places /\ KeyAt(x)[1] = key[1] /\ KeyAt(x)[2] = key[2]
<1>1. ASSUME NEW x \in Places
      PROVE  KeyAt(x) \in KeysOf(pkgs) /\ x \in PlacesOf(KeyAt(x))
  <2>1. x[1] \in DOMAIN pkgs /\ DeclAt(x) \in Decls(pkgs[x[1]])
    BY PlaceFacts
  <2>2. pkgs[x[1]] \in Packages(pkgs) /\ DeclAt(x).name \in DeclNames(pkgs[x[1]])
    BY <2>1 DEF Packages, DeclNames
  <2> QED BY <2>2 DEF KeyAt, KeysOf, PlacesOf
<1>2. ASSUME NEW key \in KeysOf(pkgs) PROVE \E x \in Places : key = KeyAt(x)
  <2>1. PICK k \in DOMAIN pkgs : \E n \in DeclNames(pkgs[k]) : key = <<pkgs[k].id, n>>
    BY DEF KeysOf, Packages
  <2>2. PICK d \in Decls(pkgs[k]) : key = <<pkgs[k].id, d.name>>
    BY <2>1 DEF DeclNames
  <2>3. PICK x \in Places : x[1] = k /\ DeclAt(x) = d
    BY PlaceHere
  <2> QED BY <2>2, <2>3 DEF KeyAt
<1>3. \A key : \A x \in PlacesOf(key) : x \in Places /\ KeyAt(x)[1] = key[1] /\ KeyAt(x)[2] = key[2]
  BY DEF PlacesOf, KeyAt
<1> QED BY <1>1, <1>2, <1>3

\* The declaration at a place, as the properties speak of it.
Known(x) == <<pkgs[x[1]].id, pkgs[x[1]].path, DeclAt(x)>>

LEMMA KnownFacts ==
  ASSUME ArePackages(pkgs)
  PROVE  /\ \A x \in Places : Known(x) \in AllDecls
         /\ \A y \in AllDecls : \E x \in Places : y = Known(x)
BY DEF AllDecls, Known

\* Packages of one ID are the same.
LEMMA SamePackage ==
  ASSUME ArePackages(pkgs)
  PROVE  \A j, k \in DOMAIN pkgs : pkgs[j].id = pkgs[k].id => j = k
BY DEF ArePackages

\* The tests found: a list of those at places, in the order of the places.
TestPlaces == {x \in Places : DeclAt(x).top /\ DeclAt(x).test}

LEMMA TestsFound ==
  ASSUME ArePackages(pkgs)
  PROVE  /\ Len(AllTests) \in Nat /\ DOMAIN AllTests = 1 .. Len(AllTests)
         /\ AllTests \in Seq(Range(AllTests))
         /\ \A k \in DOMAIN AllTests : \E x \in TestPlaces : AllTests[k] = TestAt(x)
<1> DEFINE found == InLoopOrder(TestPlaces)
<1>1. TestPlaces \subseteq Nat \X Nat \X Nat
  BY PlaceFacts DEF TestPlaces
<1>2. IsFiniteSet(TestPlaces)
  <2>1. TestPlaces \in SUBSET Places
    BY DEF TestPlaces
  <2> QED BY <2>1, PlacesFinite, FS_Subset
<1>3. IsListOf(found, TestPlaces)
  BY <1>1, <1>2, LoopOrderIsList
<1>4. AllTests = [k \in DOMAIN found |-> TestAt(found[k])]
  BY DEF AllTests, TestPlaces
<1> HIDE DEF found
<1>5. Len(found) \in Nat /\ DOMAIN found = 1 .. Len(found)
  BY <1>3 DEF IsListOf
<1>6. DOMAIN AllTests = 1 .. Len(found) /\ Len(AllTests) = Len(found)
  BY <1>4, <1>5
<1>7. \A k \in DOMAIN AllTests : AllTests[k] = TestAt(found[k]) /\ found[k] \in TestPlaces
  BY <1>3, <1>4, <1>5, <1>6 DEF IsListOf
<1>8. AllTests \in Seq(Range(AllTests))
  <2> DEFINE T == Range(AllTests)
  <2>1. AllTests \in [1 .. Len(found) -> T]
    BY <1>4, <1>5, <1>6 DEF Range
  <2> HIDE DEF T
  <2>2. AllTests \in Seq(T)
    BY <1>5, <2>1
  <2> QED BY <2>2 DEF T
<1> QED BY <1>5, <1>6, <1>7, <1>8

\* The key of a test is that of a declaration.
LEMMA KeyOfTest ==
  ASSUME ArePackages(pkgs), NEW k \in DOMAIN AllTests
  PROVE  KeyOf(AllTests[k]) \in KeysOf(pkgs)
<1>1. PICK x \in TestPlaces : AllTests[k] = TestAt(x)
  BY TestsFound
<1>2. x \in Places /\ KeyOf(AllTests[k]) = KeyAt(x)
  BY <1>1 DEF TestPlaces, KeyOf, TestAt, KeyAt
<1> QED BY <1>2, KeyFacts

-----------------------------------------------------------------------------
(***************************************************************************)
(* The resolution of calls.                                                *)
(***************************************************************************)

\* What Lookup finds is a known function of the path and name.
LEMMA LookupFacts ==
  ASSUME ArePackages(pkgs), NEW current, NEW path, NEW name, NEW known
  PROVE  /\ \A key \in Lookup(pkgs, current, path, name, known) :
                key \in known /\ key[1] \in IdsOf(pkgs, path) /\ key[2] = name
         /\ \A i \in IdsOf(pkgs, path) :
                <<i, name>> \in known => Lookup(pkgs, current, path, name, known) # {}
<1> DEFINE ids == {i \in IdsOf(pkgs, path) : <<i, name>> \in known}
<1>1. ids \subseteq Nat
  BY DEF IdsOf, Packages, ArePackages, IsPackage
<1>2. ids # {} => Min(ids) \in ids
  <2> HIDE DEF ids
  <2> QED BY <1>1, MinIn
<1>3. ASSUME NEW key \in Lookup(pkgs, current, path, name, known)
      PROVE  key \in known /\ key[1] \in IdsOf(pkgs, path) /\ key[2] = name
  <2>1. ids # {} /\ key = <<IF current \in ids THEN current ELSE Min(ids), name>>
    BY DEF Lookup
  <2>2. PICK i \in ids : key = <<i, name>>
    <3> HIDE DEF ids
    <3> QED BY <1>2, <2>1
  <2> QED BY <2>2
<1>4. \A i \in IdsOf(pkgs, path) :
          <<i, name>> \in known => Lookup(pkgs, current, path, name, known) # {}
  BY DEF Lookup
<1> QED BY <1>3, <1>4

\* A call of a top-level function that is declared anywhere is resolved to one of
\* its path and name.
LEMMA TypedIsResolved ==
  ASSUME ArePackages(pkgs), NEW x \in Places, NEW call \in DeclAt(x).calls,
         NEW y \in Places, call.target = <<pkgs[y[1]].path, DeclAt(y).name>>
  PROVE  \E z \in Places : /\ KeyAt(z) \in CallsAt(x)
                           /\ pkgs[z[1]].path = pkgs[y[1]].path
                           /\ DeclAt(z).name = DeclAt(y).name
<1> DEFINE path == pkgs[y[1]].path
           name == DeclAt(y).name
           typed == Lookup(pkgs, pkgs[x[1]].id, path, name, KeysOf(pkgs))
<1>1. path \in Paths /\ name \in Names /\ y[1] \in DOMAIN pkgs
  BY PlaceFacts DEF IsPackage, IsDecl
<1>2. call.target \in Paths \X Names /\ call.target[1] = path /\ call.target[2] = name
  BY <1>1
<1>3. ByTypes(pkgs, pkgs[x[1]].id, call, KeysOf(pkgs)) = typed
  BY <1>2 DEF ByTypes
<1>4. pkgs[y[1]].id \in IdsOf(pkgs, path) /\ <<pkgs[y[1]].id, name>> \in KeysOf(pkgs)
  BY <1>1, KeyFacts DEF IdsOf, Packages, KeyAt
<1> HIDE DEF path, name, typed
<1>5. typed # {}
  BY <1>4, LookupFacts DEF typed
<1>6. \A aliases : Resolve(pkgs, pkgs[x[1]].id, call, aliases, KeysOf(pkgs)) = typed
  BY <1>3, <1>5 DEF Resolve
<1>7. PICK key \in typed : TRUE
  BY <1>5
<1>8. key \in CallsAt(x)
  BY <1>6 DEF CallsAt
<1>9. key \in KeysOf(pkgs) /\ key[1] \in IdsOf(pkgs, path) /\ key[2] = name
  BY <1>7, LookupFacts DEF typed
<1>10. PICK z \in Places : key = KeyAt(z)
  BY <1>9, KeyFacts
<1>11. PICK k \in DOMAIN pkgs : pkgs[k].id = key[1] /\ pkgs[k].path = path
  BY <1>9 DEF IdsOf, Packages
<1>12. z[1] = k
  BY <1>10, <1>11, SamePackage, PlaceFacts DEF KeyAt
<1>13. DeclAt(z).name = name
  BY <1>9, <1>10 DEF KeyAt
<1> QED BY <1>8, <1>10, <1>11, <1>12, <1>13 DEF path, name

\* A call is resolved to a known function of the name it is written with, of the
\* same package if it is written without qualifier, unless by its type.
LEMMA ResolvedIsNamed ==
  ASSUME ArePackages(pkgs), NEW x \in Places, NEW key \in CallsAt(x)
  PROVE  /\ key \in KeysOf(pkgs)
         /\ \E call \in DeclAt(x).calls :
               /\ key[2] = call.name
               /\ \/ call.qual # NoIdent
                  \/ key[1] = pkgs[x[1]].id
                  \/ \A y \in Places : KeyAt(y) = key =>
                                        call.target = <<pkgs[y[1]].path, DeclAt(y).name>>
<1> DEFINE aliases == pkgs[x[1]].files[x[2]].aliases
           current == pkgs[x[1]].id
           known == KeysOf(pkgs)
<1>1. PICK call \in DeclAt(x).calls : key \in Resolve(pkgs, current, call, aliases, known)
  BY DEF CallsAt
<1>2. call \in Call
  BY PlaceFacts DEF IsDecl
<1> HIDE DEF aliases, current, known
<1>3. CASE key \in ByTypes(pkgs, current, call, known)
  <2>1. /\ call.target \in Paths \X Names
        /\ key \in Lookup(pkgs, current, call.target[1], call.target[2], known)
    BY <1>3 DEF ByTypes
  <2>2. call.target[2] = call.name
    BY <1>2, <2>1 DEF Call
  <2>3. key \in known /\ key[1] \in IdsOf(pkgs, call.target[1]) /\ key[2] = call.target[2]
    BY <2>1, LookupFacts
  <2>4. PICK k \in DOMAIN pkgs : pkgs[k].id = key[1] /\ pkgs[k].path = call.target[1]
    BY <2>3 DEF IdsOf, Packages
  <2>5. ASSUME NEW y \in Places, KeyAt(y) = key
        PROVE  call.target = <<pkgs[y[1]].path, DeclAt(y).name>>
    <3>1. y[1] = k
      BY <2>4, <2>5, SamePackage, PlaceFacts DEF KeyAt
    <3>2. DeclAt(y).name = call.target[2]
      BY <2>3, <2>5 DEF KeyAt
    <3> QED BY <2>1, <2>4, <3>1, <3>2
  <2> QED BY <2>2, <2>3, <2>5 DEF known
<1>4. CASE key \in BySyntax(pkgs, current, call, aliases, known)
  <2>1. CASE call.qual = NoIdent
    <3>1. key \in known /\ key = <<current, call.name>>
      BY <1>4, <2>1 DEF BySyntax
    <3> QED BY <3>1 DEF known, current
  <2>2. CASE call.qual # NoIdent
    <3>1. key \in Lookup(pkgs, current, aliases[call.qual], call.name, known)
      BY <1>4, <2>2 DEF BySyntax
    <3>2. key \in known /\ key[2] = call.name
      BY <3>1, LookupFacts
    <3> QED BY <2>2, <3>2 DEF known
  <2> QED BY <2>1, <2>2
<1> QED BY <1>1, <1>3, <1>4 DEF Resolve

\* Every declaration is one of those that were loaded.
LEMMA DeclLoaded ==
  ASSUME LoadInv, NEW x \in Places
  PROVE  <<pkgs[x[1]].path, DeclAt(x)>> \in DeclsIn(loaded)
<1>1. /\ x[1] \in DOMAIN pkgs
      /\ x[2] \in DOMAIN pkgs[x[1]].files
      /\ x[3] \in DOMAIN pkgs[x[1]].files[x[2]].decls
  BY PackagesBuilt, PlaceFacts
<1>2. PICK m \in DOMAIN loaded : IsRaw(loaded[m]) /\ pkgs[x[1]] = BuildPackage(loaded[m])
  BY <1>1, PackagesBuilt
<1> DEFINE raw == loaded[m]
           file == pkgs[x[1]].files[x[2]].file
<1>3. file \in Shown(raw) /\ pkgs[x[1]].files[x[2]] = FileOf(raw, file)
  BY <1>1, <1>2, BuiltFiles
<1>4. PICK t \in DOMAIN raw.syntax : TreeOf(raw, file) = raw.syntax[t]
  BY <1>2, <1>3, TreeIsOne
<1> HIDE DEF file
<1>5. pkgs[x[1]].files[x[2]].decls = raw.syntax[t].decls
  BY <1>3, <1>4 DEF FileOf
<1>6. DeclAt(x) \in Range(raw.syntax[t].decls)
  BY <1>1, <1>5 DEF DeclAt, Range
<1>7. pkgs[x[1]].path = raw.path
  BY <1>2, BuiltFields
<1> QED BY <1>6, <1>7 DEF DeclsIn

\* A function that is called is the same in all variants.
LEMMA DeclaredOnce ==
  ASSUME LoadInv, NEW x \in Places, NEW y \in Places, NEW z \in Places,
         DeclAt(x).top, DeclAt(y).top,
         NEW call \in DeclAt(z).calls,
         call.target = <<pkgs[x[1]].path, DeclAt(x).name>>,
         call.target = <<pkgs[y[1]].path, DeclAt(y).name>>
  PROVE  DeclAt(x) = DeclAt(y)
<1> DEFINE a == <<pkgs[x[1]].path, DeclAt(x)>>
           b == <<pkgs[y[1]].path, DeclAt(y)>>
           c == <<pkgs[z[1]].path, DeclAt(z)>>
<1>1. a \in DeclsIn(loaded) /\ b \in DeclsIn(loaded) /\ c \in DeclsIn(loaded)
  BY DeclLoaded
<1>2. /\ a[1] = pkgs[x[1]].path /\ a[2] = DeclAt(x)
      /\ b[1] = pkgs[y[1]].path /\ b[2] = DeclAt(y)
      /\ c[2] = DeclAt(z)
  OBVIOUS
<1> HIDE DEF a, b, c
<1>3. loaded \in Loads /\ \A k \in DOMAIN loaded : ~loaded[k].errors
  <2>1. x[1] \in DOMAIN pkgs
    BY PackagesBuilt, PlaceFacts
  <2>2. stage \notin {"load", "failed"}
    BY <2>1 DEF LoadInv
  <2> QED BY <2>2 DEF LoadInv
<1>4. a = b
  BY <1>1, <1>2, <1>3, LoadsAssumption
<1> QED BY <1>2, <1>4

-----------------------------------------------------------------------------
(***************************************************************************)
(* The inductive invariant.                                                *)
(***************************************************************************)
Undecided == {"load", "failed", "discover"}

\* n tests are decided, each in one of the lists, and both lists are in order.
Split(n) ==
    /\ Len(todo) = Len(AllTests) - n /\ \A k \in DOMAIN todo : todo[k] = AllTests[n + k]
    /\ \E ins \in SUBSET (1 .. n) :
          TakenFrom(included, AllTests, ins) /\ TakenFrom(excluded, AllTests, (1 .. n) \ ins)

SplitInv ==
    /\ todo \in Seq(Range(AllTests))
    /\ included \in Seq(Range(AllTests)) /\ excluded \in Seq(Range(AllTests))
    /\ stage \in Undecided => todo = <<>> /\ included = <<>> /\ excluded = <<>>
    /\ stage \notin Undecided => \E n \in 0 .. Len(AllTests) : Split(n)
    /\ stage \notin Undecided \cup {"decide"} => todo = <<>>
    /\ searching => stage = "decide" /\ todo # <<>> /\ Directive(KeyOf(Head(todo))) = "none"

\* A set of keys that no call leaves and none of which calls Engine.Run.
ClearOfRun(keys) == \A key \in keys : ~HasEngineRun(key) /\ CallsOf(key) \subseteq keys

\* The search has all calls of what it has seen in view; what was included was
\* searched to the end.
ClearInv ==
    /\ seen \cup stack \subseteq KeysOf(pkgs)
    /\ searching => /\ KeyOf(Head(todo)) \in seen \cup stack
                    /\ \A key \in seen : ~HasEngineRun(key) /\ CallsOf(key) \subseteq seen \cup stack
    /\ \A t \in Range(included) :
          \/ Directive(KeyOf(t)) = "include"
          \/ \E keys \in SUBSET KeysOf(pkgs) : KeyOf(t) \in keys /\ ClearOfRun(keys)

\* Everything that is declared under a key.
DeclaredAs(key) == {y \in AllDecls : y[1] = key[1] /\ y[3].name = key[2]}

\* The search sees only what calls lead to by name; what was excluded was seen
\* to call Engine.Run.
CauseInv ==
    /\ searching => \A S \in Closed(Namesakes(Head(todo)), NamedCalls) :
                       \A key \in seen \cup stack : DeclaredAs(key) \subseteq S
    /\ \A t \in Range(excluded) :
          \/ Directive(KeyOf(t)) = "exclude"
          \/ RunsFrom(Namesakes(t), NamedCalls)

DiscoverInv == SplitInv /\ ClearInv /\ CauseInv

\* All that is said of the packages depends on them alone.
LEMMA PackagesOnly ==
  ASSUME pkgs' = pkgs
  PROVE  /\ AllTests' = AllTests /\ KeysOf(pkgs)' = KeysOf(pkgs)
         /\ AllDecls' = AllDecls /\ NamedCalls' = NamedCalls /\ TypedCalls' = TypedCalls
         /\ \A key : /\ Directive(key)' = Directive(key)
                     /\ HasEngineRun(key)' = HasEngineRun(key)
                     /\ CallsOf(key)' = CallsOf(key)
                     /\ DeclaredAs(key)' = DeclaredAs(key)
         /\ \A t : Namesakes(t)' = Namesakes(t)
         /\ \A start, calls : /\ Closed(start, calls)' = Closed(start, calls)
                              /\ RunsFrom(start, calls)' = RunsFrom(start, calls)
<1>1. Places' = Places /\ \A x : DeclAt(x)' = DeclAt(x) /\ TestAt(x)' = TestAt(x)
  BY DEF Places, DeclAt, TestAt
<1>2. KeysOf(pkgs)' = KeysOf(pkgs) /\ AllDecls' = AllDecls
  BY <1>1 DEF AllDecls
<1>3. \A key : PlacesOf(key)' = PlacesOf(key)
  BY <1>1 DEF PlacesOf
<1>4. AllTests' = AllTests
  BY <1>1 DEF AllTests
<1>5. \A key : Directive(key)' = Directive(key) /\ HasEngineRun(key)' = HasEngineRun(key)
  BY <1>1, <1>3 DEF Directive, HasEngineRun
<1>6. \A key : CallsOf(key)' = CallsOf(key)
  BY <1>1, <1>2, <1>3 DEF CallsOf, CallsAt
<1>7. NamedCalls' = NamedCalls /\ TypedCalls' = TypedCalls
  BY <1>2 DEF NamedCalls, TypedCalls, NotShadowed
<1>8. /\ \A key : DeclaredAs(key)' = DeclaredAs(key)
      /\ \A t : Namesakes(t)' = Namesakes(t)
  BY <1>2 DEF DeclaredAs, Namesakes
<1>9. \A start, calls : /\ Closed(start, calls)' = Closed(start, calls)
                        /\ RunsFrom(start, calls)' = RunsFrom(start, calls)
  BY <1>2 DEF Closed, RunsFrom
<1> QED BY <1>2, <1>4, <1>5, <1>6, <1>7, <1>8, <1>9

-----------------------------------------------------------------------------
(***************************************************************************)
(* Deciding one test after another.                                        *)
(***************************************************************************)

\* One more is taken, after all that were.
LEMMA TakeOneMore ==
  ASSUME NEW T, NEW s \in Seq(T), NEW t, NEW n \in Nat, NEW R, R \subseteq 1 .. n,
         TakenFrom(s, t, R)
  PROVE  TakenFrom(Append(s, t[n + 1]), t, R \cup {n + 1})
<1>0. PICK at \in [DOMAIN s -> R] :
          /\ Range(at) = R
          /\ \A k \in DOMAIN s : s[k] = t[at[k]]
          /\ \A j, k \in DOMAIN s : j < k => at[j] < at[k]
  BY DEF TakenFrom
<1> DEFINE m == Len(s)
           more == Append(s, t[n + 1])
           to == [k \in 1 .. m + 1 |-> IF k = m + 1 THEN n + 1 ELSE at[k]]
<1>1. m \in Nat /\ DOMAIN s = 1 .. m /\ DOMAIN more = 1 .. m + 1
  OBVIOUS
<1>2. \A k \in 1 .. m : more[k] = s[k]
  OBVIOUS
<1>3. more[m + 1] = t[n + 1]
  OBVIOUS
<1> HIDE DEF m, more
<1>4. \A k \in 1 .. m : at[k] \in R /\ at[k] \in 1 .. n
  BY <1>1
<1>5. \A k \in 1 .. m + 1 : k # m + 1 => k \in 1 .. m
  BY <1>1
<1>6. to \in [1 .. m + 1 -> R \cup {n + 1}]
  BY <1>4, <1>5
<1>7. to[m + 1] = n + 1 /\ \A k \in 1 .. m : to[k] = at[k]
  BY <1>1
<1> HIDE DEF to
<1>8. \A k \in 1 .. m + 1 : more[k] = t[to[k]]
  BY <1>0, <1>1, <1>2, <1>3, <1>5, <1>7
<1>9. \A j, k \in 1 .. m + 1 : j < k => to[j] < to[k]
  <2> SUFFICES ASSUME NEW j \in 1 .. m + 1, NEW k \in 1 .. m + 1, j < k PROVE to[j] < to[k]
    OBVIOUS
  <2>1. j \in 1 .. m
    BY <1>1
  <2>2. CASE k = m + 1
    BY <1>4, <1>7, <2>1, <2>2
  <2>3. CASE k # m + 1
    BY <1>0, <1>1, <1>5, <1>7, <2>1, <2>3
  <2> QED BY <2>2, <2>3
<1>10. Range(to) = R \cup {n + 1}
  <2>1. DOMAIN to = 1 .. m + 1 /\ DOMAIN at = 1 .. m /\ m + 1 \in 1 .. m + 1
    BY <1>1, <1>6
  <2>2. 1 .. m \subseteq 1 .. m + 1
    BY <1>1
  <2> QED BY <1>0, <1>5, <1>7, <2>1, <2>2 DEF Range
<1>11. TakenFrom(more, t, R \cup {n + 1})
  BY <1>1, <1>6, <1>8, <1>9, <1>10 DEF TakenFrom
<1> QED BY <1>11 DEF more

\* The first test that is left is the next of all.
LEMMA NextTest ==
  ASSUME ArePackages(pkgs), SplitInv, todo # <<>>, NEW n \in 0 .. Len(AllTests), Split(n)
  PROVE  /\ n + 1 \in DOMAIN AllTests /\ Head(todo) = AllTests[n + 1]
         /\ Head(todo) \in Range(AllTests) /\ Tail(todo) \in Seq(Range(AllTests))
         /\ Len(Tail(todo)) = Len(AllTests) - (n + 1)
         /\ \A k \in DOMAIN Tail(todo) : Tail(todo)[k] = AllTests[(n + 1) + k]
<1> DEFINE T == Range(AllTests)
           L == Len(AllTests)
<1>1. L \in Nat /\ DOMAIN AllTests = 1 .. L
  BY TestsFound
<1>2. todo \in Seq(T)
  BY DEF SplitInv
<1>3. Len(todo) = L - n /\ \A k \in DOMAIN todo : todo[k] = AllTests[n + k]
  BY DEF Split
<1> HIDE DEF T, L
<1>4. n \in Nat /\ n =< L
  BY <1>1 DEF L
<1>5. /\ Len(todo) \in Nat \ {0} /\ DOMAIN todo = 1 .. Len(todo)
      /\ Head(todo) = todo[1] /\ Head(todo) \in T /\ Tail(todo) \in Seq(T)
  BY <1>2
<1>6. Len(Tail(todo)) = Len(todo) - 1 /\ DOMAIN Tail(todo) = 1 .. Len(todo) - 1
  BY <1>2, <1>5
<1>7. \A k \in 1 .. Len(todo) - 1 : Tail(todo)[k] = todo[k + 1]
  BY <1>2, <1>5
<1>8. n + 1 \in 1 .. L
  BY <1>1, <1>3, <1>4, <1>5
<1>9. Head(todo) = AllTests[n + 1]
  BY <1>3, <1>5
<1>10. \A k \in 1 .. Len(todo) - 1 : k + 1 \in 1 .. Len(todo) /\ n + (k + 1) = (n + 1) + k
  BY <1>4, <1>5
<1>11. \A k \in 1 .. Len(todo) - 1 : Tail(todo)[k] = AllTests[(n + 1) + k]
  BY <1>3, <1>5, <1>7, <1>10
<1>12. Len(Tail(todo)) = L - (n + 1)
  BY <1>1, <1>3, <1>4, <1>6
<1> QED BY <1>1, <1>5, <1>6, <1>8, <1>9, <1>11, <1>12 DEF T, L

\* A test goes to one of the lists.
LEMMA MoveSplits ==
  ASSUME ArePackages(pkgs), SplitInv, stage = "decide", todo # <<>>, pkgs' = pkgs, stage' = stage,
         todo' = Tail(todo), searching' = FALSE,
         \/ included' = Append(included, Head(todo)) /\ excluded' = excluded
         \/ excluded' = Append(excluded, Head(todo)) /\ included' = included
  PROVE  SplitInv'
<1> DEFINE T == Range(AllTests)
<1>1. PICK n \in 0 .. Len(AllTests) : Split(n)
  BY DEF SplitInv, Undecided
<1>2. PICK ins \in SUBSET (1 .. n) :
          TakenFrom(included, AllTests, ins) /\ TakenFrom(excluded, AllTests, (1 .. n) \ ins)
  BY <1>1 DEF Split
<1>3. /\ included \in Seq(T) /\ excluded \in Seq(T)
      /\ AllTests' = AllTests
  BY PackagesOnly DEF SplitInv
<1>4. /\ n + 1 \in DOMAIN AllTests /\ Head(todo) = AllTests[n + 1] /\ Head(todo) \in T
      /\ todo' \in Seq(T) /\ Len(todo') = Len(AllTests) - (n + 1)
      /\ \A k \in DOMAIN todo' : todo'[k] = AllTests[(n + 1) + k]
  BY <1>1, NextTest
<1>5. n \in Nat /\ n + 1 \in 0 .. Len(AllTests)
  BY <1>4, TestsFound
<1>6. 1 .. n + 1 = (1 .. n) \cup {n + 1} /\ n + 1 \notin 1 .. n
  BY <1>5
<1>7. /\ included' \in Seq(T) /\ excluded' \in Seq(T)
  <2> HIDE DEF T
  <2>1. Append(included, Head(todo)) \in Seq(T) /\ Append(excluded, Head(todo)) \in Seq(T)
    BY <1>3, <1>4
  <2> QED BY <1>3, <2>1
<1>8. \E ins2 \in SUBSET (1 .. n + 1) :
          /\ TakenFrom(included', AllTests, ins2)
          /\ TakenFrom(excluded', AllTests, (1 .. n + 1) \ ins2)
  <2>1. CASE included' = Append(included, Head(todo)) /\ excluded' = excluded
    <3>1. TakenFrom(Append(included, AllTests[n + 1]), AllTests, ins \cup {n + 1})
      BY <1>2, <1>3, <1>5, TakeOneMore
    <3>2. (1 .. n + 1) \ (ins \cup {n + 1}) = (1 .. n) \ ins /\ ins \cup {n + 1} \in SUBSET (1 .. n + 1)
      BY <1>6
    <3> QED BY <1>2, <1>4, <2>1, <3>1, <3>2
  <2>2. CASE excluded' = Append(excluded, Head(todo)) /\ included' = included
    <3>1. TakenFrom(Append(excluded, AllTests[n + 1]), AllTests, ((1 .. n) \ ins) \cup {n + 1})
      BY <1>2, <1>3, <1>5, TakeOneMore
    <3>2. (1 .. n + 1) \ ins = ((1 .. n) \ ins) \cup {n + 1} /\ ins \in SUBSET (1 .. n + 1)
      BY <1>6
    <3> QED BY <1>2, <1>4, <2>2, <3>1, <3>2
  <2> QED BY <2>1, <2>2
<1>9. Split(n + 1)'
  BY <1>3, <1>4, <1>8 DEF Split
<1> HIDE DEF T
<1>10. T = Range(AllTests')
  BY <1>3 DEF T
<1>11. \E m \in 0 .. Len(AllTests') : Split(m)'
  BY <1>3, <1>5, <1>9
<1>12. searching' = FALSE /\ stage' = "decide"
  OBVIOUS
<1>13. todo' \in Seq(Range(AllTests')) /\ included' \in Seq(Range(AllTests'))
       /\ excluded' \in Seq(Range(AllTests'))
  BY <1>4, <1>7, <1>10
<1> QED BY <1>11, <1>12, <1>13 DEF SplitInv, Undecided

-----------------------------------------------------------------------------
(***************************************************************************)
(* The invariant, one part at a time.                                      *)
(***************************************************************************)

\* Discovery reads the packages only.
LEMMA DiscoverReads ==
  SplitInv /\ DiscoverNext =>
      UNCHANGED <<loaded, pkgs>> /\ stage \in {"discover", "decide"} /\ stage' \in {"decide", "collect"}
BY DEF SplitInv, DiscoverNext, FindTests, Deciding, IncludeByDirective, ExcludeByDirective,
       BeginSearch, Visit, ReachesRun, DoesNotReachRun, DiscoverDone, loadVars

LEMMA NextLoadInv ==
  LoadInv /\ SplitInv /\ DiscoverNext => LoadInv'
<1> SUFFICES ASSUME LoadInv, SplitInv, DiscoverNext PROVE LoadInv'
  OBVIOUS
<1>1. /\ UNCHANGED <<loaded, pkgs>> /\ stage \in {"discover", "decide"}
      /\ stage' \in {"decide", "collect"}
  BY DiscoverReads
<1>2. Kept' = Kept
  BY <1>1 DEF Kept
<1>3. LoadedPackages' = LoadedPackages
  BY <1>1, <1>2 DEF LoadedPackages
<1> QED BY <1>1, <1>3 DEF LoadInv

LEMMA NextSplit ==
  LoadInv /\ SplitInv /\ DiscoverNext => SplitInv'
<1> SUFFICES ASSUME LoadInv, SplitInv, DiscoverNext PROVE SplitInv'
  OBVIOUS
<1>1. pkgs' = pkgs /\ ArePackages(pkgs)
  BY DiscoverReads, PackagesBuilt
<1>2. /\ AllTests' = AllTests
      /\ \A key : Directive(key)' = Directive(key)
      /\ \A n : todo' = todo /\ included' = included /\ excluded' = excluded => Split(n)' = Split(n)
  <2>1. AllTests' = AllTests /\ \A key : Directive(key)' = Directive(key)
    BY <1>1, PackagesOnly
  <2> QED BY <2>1 DEF Split
<1>3. CASE FindTests
  <2>1. /\ stage = "discover" /\ stage' = "decide" /\ todo' = AllTests
        /\ included' = <<>> /\ excluded' = <<>> /\ ~searching'
    BY <1>3 DEF FindTests, SplitInv, Undecided
  <2>2. Len(AllTests) \in Nat /\ DOMAIN AllTests = 1 .. Len(AllTests)
    BY <1>1, TestsFound
  <2>3. AllTests \in Seq(Range(AllTests))
    BY <1>1, TestsFound
  <2>4. TakenFrom(<<>>, AllTests, {})
    <3>1. DOMAIN <<>> = {}
      OBVIOUS
    <3>2. <<>> \in [DOMAIN <<>> -> {}] /\ Range(<<>>) = {}
      BY <3>1 DEF Range
    <3> QED BY <3>1, <3>2 DEF TakenFrom
  <2>5. 1 .. 0 = {} /\ 0 \in 0 .. Len(AllTests)
    BY <2>2
  <2>6. Split(0)'
    BY <1>2, <2>1, <2>2, <2>4, <2>5 DEF Split
  <2> QED BY <1>2, <2>1, <2>3, <2>5, <2>6 DEF SplitInv, Undecided
<1>4. CASE IncludeByDirective \/ ExcludeByDirective
  <2>1. /\ stage = "decide" /\ todo # <<>> /\ searching' = FALSE
        /\ stage' = stage /\ todo' = Tail(todo)
        /\ \/ included' = Append(included, Head(todo)) /\ excluded' = excluded
           \/ excluded' = Append(excluded, Head(todo)) /\ included' = included
    BY <1>4 DEF IncludeByDirective, ExcludeByDirective, Deciding, loadVars
  <2> QED BY <1>1, <2>1, MoveSplits
<1>5. CASE DoesNotReachRun \/ \E key \in stack : ReachesRun(key)
  <2>1. /\ stage = "decide" /\ todo # <<>> /\ searching' = FALSE
        /\ stage' = stage /\ todo' = Tail(todo)
        /\ \/ included' = Append(included, Head(todo)) /\ excluded' = excluded
           \/ excluded' = Append(excluded, Head(todo)) /\ included' = included
    BY <1>5 DEF DoesNotReachRun, ReachesRun, loadVars, SplitInv
  <2> QED BY <1>1, <2>1, MoveSplits
<1>6. CASE BeginSearch \/ \E key \in stack : Visit(key)
  <2>1. /\ stage = "decide" /\ todo # <<>> /\ stage' = stage /\ searching'
        /\ UNCHANGED <<todo, included, excluded>>
        /\ Directive(KeyOf(Head(todo))) = "none"
    BY <1>6 DEF BeginSearch, Visit, Deciding, loadVars, SplitInv
  <2>2. \E n \in 0 .. Len(AllTests') : Split(n)'
    BY <1>2, <2>1 DEF SplitInv, Undecided
  <2> QED BY <1>2, <2>1, <2>2 DEF SplitInv, Undecided, KeyOf
<1>7. CASE DiscoverDone
  <2>1. /\ stage = "decide" /\ stage' = "collect" /\ todo = <<>>
        /\ UNCHANGED <<todo, searching, included, excluded>>
    BY <1>7 DEF DiscoverDone, discoverVars
  <2>2. \E n \in 0 .. Len(AllTests') : Split(n)'
    BY <1>2, <2>1 DEF SplitInv, Undecided
  <2> QED BY <1>2, <2>1, <2>2 DEF SplitInv, Undecided
<1> QED BY <1>3, <1>4, <1>5, <1>6, <1>7 DEF DiscoverNext

\* What is appended comes to the range of a list.
LEMMA AppendRange ==
  ASSUME NEW T, NEW s \in Seq(T), NEW e
  PROVE  Range(Append(s, e)) = Range(s) \cup {e}
<1>1. Len(s) \in Nat /\ DOMAIN s = 1 .. Len(s) /\ DOMAIN Append(s, e) = 1 .. Len(s) + 1
  OBVIOUS
<1>2. /\ \A k \in 1 .. Len(s) : Append(s, e)[k] = s[k]
      /\ Append(s, e)[Len(s) + 1] = e
  OBVIOUS
<1>3. 1 .. Len(s) + 1 = (1 .. Len(s)) \cup {Len(s) + 1}
  BY <1>1
<1> QED BY <1>1, <1>2, <1>3 DEF Range

\* The keys of calls are known.
LEMMA CallsKnown ==
  ASSUME ArePackages(pkgs), NEW key
  PROVE  CallsOf(key) \subseteq KeysOf(pkgs)
<1>1. \A x \in PlacesOf(key) : CallsAt(x) \subseteq KeysOf(pkgs)
  BY KeyFacts, ResolvedIsNamed
<1> QED BY <1>1 DEF CallsOf

\* A step that includes or excludes the first test leaves the rest.
LEMMA NextClear ==
  LoadInv /\ SplitInv /\ ClearInv /\ DiscoverNext => ClearInv'
<1> SUFFICES ASSUME LoadInv, SplitInv, ClearInv, DiscoverNext PROVE ClearInv'
  OBVIOUS
<1>1. pkgs' = pkgs /\ ArePackages(pkgs)
  BY DiscoverReads, PackagesBuilt
<1> DEFINE Safe(t) == \/ Directive(KeyOf(t)) = "include"
                      \/ \E keys \in SUBSET KeysOf(pkgs) : KeyOf(t) \in keys /\ ClearOfRun(keys)
<1>2. /\ \A key : /\ Directive(key)' = Directive(key)
                  /\ HasEngineRun(key)' = HasEngineRun(key)
                  /\ CallsOf(key)' = CallsOf(key)
      /\ KeysOf(pkgs)' = KeysOf(pkgs)
  BY <1>1, PackagesOnly
<1>3. \A t : Safe(t)' = Safe(t)
  BY <1>2 DEF KeyOf, ClearOfRun
<1>4. \A t \in Range(included) : Safe(t)
  BY DEF ClearInv
<1>5. todo # <<>> => Range(Append(included, Head(todo))) = Range(included) \cup {Head(todo)}
  BY AppendRange DEF SplitInv
<1> HIDE DEF Safe
<1>6. CASE included' = included \/ (todo # <<>> /\ Safe(Head(todo)) /\ included' = Append(included, Head(todo)))
  <2>1. \A t \in Range(included') : Safe(t)'
    BY <1>3, <1>4, <1>5, <1>6
  <2>2. CASE UNCHANGED <<seen, stack>> /\ (searching' => searching /\ todo' = todo)
    BY <1>2, <2>1, <2>2 DEF ClearInv, Safe, KeyOf
  <2>3. CASE BeginSearch
    <3>1. seen' = {} /\ stack' = {KeyOf(Head(todo))} /\ todo' = todo /\ todo # <<>>
      BY <2>3 DEF BeginSearch, Deciding
    <3>2. KeyOf(Head(todo)) \in KeysOf(pkgs)
      <4>1. PICK n \in 0 .. Len(AllTests) : Split(n)
        BY <2>3 DEF SplitInv, BeginSearch, Deciding, Undecided
      <4> QED BY <1>1, <3>1, <4>1, NextTest, KeyOfTest
    <3> QED BY <1>2, <2>1, <3>1, <3>2 DEF ClearInv, Safe, KeyOf
  <2>4. ASSUME NEW key \in stack, Visit(key) PROVE ClearInv'
    <3>1. /\ ~HasEngineRun(key) /\ searching /\ searching' /\ todo' = todo
          /\ seen' = seen \cup {key}
          /\ seen' \cup stack' = seen \cup stack \cup CallsOf(key)
      BY <2>4 DEF Visit
    <3>2. seen' \cup stack' \subseteq KeysOf(pkgs)
      BY <1>1, <3>1, CallsKnown DEF ClearInv
    <3>3. \A k \in seen' : ~HasEngineRun(k) /\ CallsOf(k) \subseteq seen' \cup stack'
      BY <3>1 DEF ClearInv
    <3>4. KeyOf(Head(todo)) \in seen' \cup stack'
      BY <3>1 DEF ClearInv
    <3> QED BY <1>2, <2>1, <3>1, <3>2, <3>3, <3>4 DEF ClearInv, Safe, KeyOf
  <2>5. CASE \/ FindTests \/ IncludeByDirective \/ ExcludeByDirective \/ DoesNotReachRun
             \/ DiscoverDone \/ \E key \in stack : ReachesRun(key)
    <3>1. CASE FindTests
      <4>1. ~searching' /\ UNCHANGED <<seen, stack>>
        BY <3>1 DEF FindTests, SplitInv
      <4> QED BY <2>2, <4>1
    <3>2. CASE \/ IncludeByDirective \/ ExcludeByDirective \/ DoesNotReachRun
               \/ DiscoverDone \/ \E key \in stack : ReachesRun(key)
      <4>1. UNCHANGED <<seen, stack>> /\ (searching' => searching /\ todo' = todo)
        BY <3>2 DEF Deciding, IncludeByDirective, ExcludeByDirective, ReachesRun,
                    DoesNotReachRun, DiscoverDone, discoverVars
      <4> QED BY <2>2, <4>1
    <3> QED BY <2>5, <3>1, <3>2
  <2> QED BY <2>3, <2>4, <2>5 DEF DiscoverNext
<1>7. CASE IncludeByDirective
  BY <1>6, <1>7 DEF IncludeByDirective, Deciding, Safe
<1>8. CASE DoesNotReachRun
  <2>1. searching /\ stack = {} /\ todo # <<>> /\ included' = Append(included, Head(todo))
    BY <1>8 DEF DoesNotReachRun, SplitInv
  <2>2. seen \in SUBSET KeysOf(pkgs) /\ KeyOf(Head(todo)) \in seen /\ ClearOfRun(seen)
    BY <2>1 DEF ClearInv, ClearOfRun
  <2> QED BY <1>6, <2>1, <2>2 DEF Safe
<1>9. CASE ~IncludeByDirective /\ ~DoesNotReachRun
  BY <1>6, <1>9 DEF DiscoverNext, FindTests, ExcludeByDirective, BeginSearch, Visit, ReachesRun,
                    DiscoverDone, discoverVars
<1> QED BY <1>7, <1>8, <1>9

\* A search that has come to a key has come there by calls with the names.
LEMMA CallsAreNamed ==
  ASSUME ArePackages(pkgs), NEW key, NEW callee \in CallsOf(key),
         NEW start, NEW S \in Closed(start, NamedCalls), DeclaredAs(key) \subseteq S
  PROVE  DeclaredAs(callee) \subseteq S
<1>1. PICK x \in PlacesOf(key) : callee \in CallsAt(x)
  BY DEF CallsOf
<1>2. x \in Places /\ pkgs[x[1]].id = key[1] /\ DeclAt(x).name = key[2]
  BY DEF PlacesOf
<1>3. Known(x) \in AllDecls /\ Known(x)[1] = key[1] /\ Known(x)[3] = DeclAt(x)
  BY <1>2, KnownFacts DEF Known
<1>4. Known(x) \in S
  BY <1>2, <1>3 DEF DeclaredAs
<1>5. NamedCalls[Known(x)] \subseteq S
  BY <1>4 DEF Closed
<1>6. callee \in KeysOf(pkgs)
  BY <1>1, <1>2, ResolvedIsNamed
<1>7. PICK call \in DeclAt(x).calls :
         /\ callee[2] = call.name
         /\ \/ call.qual # NoIdent
            \/ callee[1] = pkgs[x[1]].id
            \/ \A y \in Places : KeyAt(y) = callee =>
                                  call.target = <<pkgs[y[1]].path, DeclAt(y).name>>
  BY <1>1, <1>2, ResolvedIsNamed
<1>8. ASSUME NEW y \in DeclaredAs(callee) PROVE y \in NamedCalls[Known(x)]
  <2>1. PICK w \in Places : y = Known(w)
    BY KnownFacts DEF DeclaredAs
  <2>2. y[1] = pkgs[w[1]].id /\ y[2] = pkgs[w[1]].path /\ y[3] = DeclAt(w)
    BY <2>1 DEF Known
  <2>3. y \in AllDecls /\ y[1] = callee[1] /\ y[3].name = callee[2]
    BY DEF DeclaredAs
  <2>4. KeyAt(w) = callee
    <3>1. PICK z \in Places : callee = KeyAt(z)
      BY <1>6, KeyFacts
    <3>2. callee = <<callee[1], callee[2]>>
      BY <3>1 DEF KeyAt
    <3> QED BY <2>2, <2>3, <3>2 DEF KeyAt
  <2>5. call.qual # NoIdent \/ y[1] = Known(x)[1] \/ call.target = <<y[2], y[3].name>>
    BY <1>2, <1>3, <1>7, <2>2, <2>3, <2>4
  <2>6. call.name = y[3].name
    BY <1>7, <2>3
  <2> QED BY <1>3, <2>3, <2>5, <2>6 DEF NamedCalls
<1> QED BY <1>5, <1>8

LEMMA NextCause ==
  LoadInv /\ SplitInv /\ CauseInv /\ DiscoverNext => CauseInv'
<1> SUFFICES ASSUME LoadInv, SplitInv, CauseInv, DiscoverNext PROVE CauseInv'
  OBVIOUS
<1>1. pkgs' = pkgs /\ ArePackages(pkgs)
  BY DiscoverReads, PackagesBuilt
<1> DEFINE Caused(t) == Directive(KeyOf(t)) = "exclude" \/ RunsFrom(Namesakes(t), NamedCalls)
           InView(t, keys) == \A S \in Closed(Namesakes(t), NamedCalls) :
                                  \A key \in keys : DeclaredAs(key) \subseteq S
<1>2. /\ \A t : Caused(t)' = Caused(t)
      /\ \A t, keys : InView(t, keys)' = InView(t, keys)
  <2>1. /\ \A key : Directive(key)' = Directive(key) /\ DeclaredAs(key)' = DeclaredAs(key)
        /\ \A t : Namesakes(t)' = Namesakes(t)
        /\ NamedCalls' = NamedCalls
        /\ \A start, calls : /\ Closed(start, calls)' = Closed(start, calls)
                             /\ RunsFrom(start, calls)' = RunsFrom(start, calls)
    BY <1>1, PackagesOnly
  <2> QED BY <2>1 DEF KeyOf
<1>3. CauseInv = ((searching => InView(Head(todo), seen \cup stack)) /\ \A t \in Range(excluded) : Caused(t))
  BY DEF CauseInv
<1>4. todo # <<>> => Range(Append(excluded, Head(todo))) = Range(excluded) \cup {Head(todo)}
  BY AppendRange DEF SplitInv
<1>5. CauseInv' <=> /\ searching' => InView(Head(todo)', (seen \cup stack)')
                    /\ \A t \in Range(excluded') : Caused(t)
  BY <1>2 DEF CauseInv
<1>6. ASSUME NEW key \in stack, Visit(key) PROVE CauseInv'
  <2>1. /\ searching /\ todo' = todo /\ excluded' = excluded
        /\ seen' \cup stack' = seen \cup stack \cup CallsOf(key)
    BY <1>6 DEF Visit
  <2>2. ASSUME NEW S \in Closed(Namesakes(Head(todo)), NamedCalls), NEW k \in seen' \cup stack'
        PROVE  DeclaredAs(k) \subseteq S
    <3>1. \A j \in seen \cup stack : DeclaredAs(j) \subseteq S
      BY <1>3, <2>1
    <3>2. CASE k \in CallsOf(key)
      BY <1>1, <3>1, <3>2, CallsAreNamed
    <3> QED BY <2>1, <3>1, <3>2
  <2>3. InView(Head(todo)', (seen \cup stack)')
    BY <2>1, <2>2
  <2>4. \A t \in Range(excluded') : Caused(t)
    BY <1>3, <2>1
  <2> QED BY <1>5, <2>3, <2>4
<1>7. ASSUME NEW key \in stack, ReachesRun(key) PROVE CauseInv'
  <2>1. /\ searching /\ ~searching' /\ todo # <<>> /\ HasEngineRun(key)
        /\ excluded' = Append(excluded, Head(todo))
    BY <1>7 DEF ReachesRun, SplitInv
  <2>2. PICK x \in PlacesOf(key) : CallsRun(DeclAt(x))
    BY <2>1 DEF HasEngineRun
  <2>3. Known(x) \in DeclaredAs(key) /\ CallsRun(Known(x)[3])
    BY <1>1, <2>2, KnownFacts DEF PlacesOf, DeclaredAs, Known
  <2>4. \A S \in Closed(Namesakes(Head(todo)), NamedCalls) : Known(x) \in S
    BY <1>3, <2>1, <2>3
  <2>5. RunsFrom(Namesakes(Head(todo)), NamedCalls)
    BY <2>3, <2>4 DEF RunsFrom, DeclaredAs
  <2> QED BY <1>3, <1>4, <1>5, <2>1, <2>5
<1>8. CASE BeginSearch
  <2>1. /\ seen' \cup stack' = {KeyOf(Head(todo))} /\ todo' = todo /\ excluded' = excluded
    BY <1>8 DEF BeginSearch
  <2>2. DeclaredAs(KeyOf(Head(todo))) = Namesakes(Head(todo))
    BY DEF DeclaredAs, KeyOf, Namesakes
  <2>3. InView(Head(todo)', (seen \cup stack)')
    BY <2>1, <2>2 DEF Closed
  <2> QED BY <1>3, <1>5, <2>1, <2>3
<1>9. CASE ExcludeByDirective
  <2>1. /\ todo # <<>> /\ Caused(Head(todo)) /\ ~searching'
        /\ excluded' = Append(excluded, Head(todo))
    BY <1>9 DEF ExcludeByDirective, Deciding
  <2> QED BY <1>3, <1>4, <1>5, <2>1
<1>10. CASE FindTests \/ IncludeByDirective \/ DoesNotReachRun \/ DiscoverDone
  <2>1. excluded' = excluded /\ ~searching'
    BY <1>10 DEF FindTests, IncludeByDirective, DoesNotReachRun, DiscoverDone, Deciding,
                 discoverVars, SplitInv
  <2> QED BY <1>3, <1>5, <2>1
<1> QED BY <1>6, <1>7, <1>8, <1>9, <1>10 DEF DiscoverNext

NextDiscoverInv == LoadInv' /\ DiscoverInv'

LEMMA DiscoverSteps ==
  LoadInv /\ DiscoverInv /\ DiscoverNext => NextDiscoverInv
BY NextLoadInv, NextSplit, NextClear, NextCause DEF DiscoverInv, NextDiscoverInv

\* Nothing is found of an empty list of packages, and nothing decided.
LEMMA NothingDecided ==
  ASSUME stage \in Undecided, todo = <<>>, included = <<>>, excluded = <<>>,
         seen = {}, stack = {}, ~searching
  PROVE  DiscoverInv
<1>1. Range(<<>>) = {}
  BY DEF Range
<1>2. \A T : <<>> \in Seq(T)
  OBVIOUS
<1> HIDE DEF Range
<1>3. SplitInv
  BY <1>2 DEF SplitInv, Undecided
<1>4. ClearInv /\ CauseInv
  BY <1>1 DEF ClearInv, CauseInv
<1> QED BY <1>3, <1>4 DEF DiscoverInv

LEMMA DiscoverStarts == LoadInit /\ DiscoverInit => LoadInv /\ DiscoverInv
<1> SUFFICES ASSUME LoadInit, DiscoverInit PROVE LoadInv /\ DiscoverInv
  OBVIOUS
<1>1. LoadInv
  BY DEF LoadInit, LoadInv
<1>2. DiscoverInv
  BY NothingDecided DEF LoadInit, DiscoverInit, Undecided
<1> QED BY <1>1, <1>2

LEMMA LoadSteps ==
  LoadInv /\ DiscoverInv /\ (LoadFails \/ LoadOK) /\ UNCHANGED discoverVars => NextDiscoverInv
<1> SUFFICES ASSUME LoadInv, DiscoverInv, LoadFails \/ LoadOK, UNCHANGED discoverVars
             PROVE  NextDiscoverInv
  OBVIOUS
<1>1. stage = "load" /\ pkgs = <<>> /\ loaded' = loaded /\ stage' \in {"failed", "discover"}
  BY DEF LoadFails, LoadOK, LoadInv
<1>2. LoadInv'
  <2>1. loaded' \in Loads
    BY <1>1 DEF LoadInv
  <2>2. Kept' = Kept
    BY <1>1 DEF Kept
  <2>3. LoadedPackages' = LoadedPackages
    BY <1>1, <2>2 DEF LoadedPackages
  <2>4. CASE LoadFails
    BY <1>1, <2>1, <2>4 DEF LoadFails, LoadInv
  <2>5. CASE LoadOK
    <3>1. /\ pkgs' = LoadedPackages /\ stage' = "discover"
          /\ \A k \in DOMAIN loaded : ~loaded[k].errors
      BY <2>5 DEF LoadOK, LoadedPackages, Kept
    <3> QED BY <1>1, <2>1, <2>3, <3>1 DEF LoadInv
  <2> QED BY <2>4, <2>5
<1>3. KeysOf(pkgs) = {}
  BY <1>1 DEF KeysOf, Packages
<1>4. /\ todo = <<>> /\ included = <<>> /\ excluded = <<>> /\ ~searching
      /\ seen = {} /\ stack = {}
  BY <1>1, <1>3 DEF DiscoverInv, SplitInv, ClearInv, Undecided
<1>5. /\ todo' = <<>> /\ included' = <<>> /\ excluded' = <<>> /\ ~searching'
      /\ seen' = {} /\ stack' = {} /\ stage' \in Undecided
  BY <1>1, <1>4 DEF discoverVars, Undecided
<1>6. DiscoverInv'
  <2>1. Range(<<>>) = {}
    BY DEF Range
  <2>2. \A T : <<>> \in Seq(T)
    OBVIOUS
  <2>3. SplitInv'
    BY <1>5, <2>2 DEF SplitInv, Undecided
  <2>4. ClearInv' /\ CauseInv'
    BY <1>5, <2>1 DEF ClearInv, CauseInv
  <2> QED BY <2>3, <2>4 DEF DiscoverInv
<1> QED BY <1>2, <1>6 DEF NextDiscoverInv

\* The steps of others that come after, or none.
LEMMA OtherSteps ==
  ASSUME LoadInv, DiscoverInv, UNCHANGED <<loaded, pkgs, discoverVars>>,
         \/ stage' = stage
         \/ stage \in {"collect", "walk"} /\ stage' \in {"walk", "prepared"}
  PROVE  NextDiscoverInv
<1>1. /\ pkgs' = pkgs /\ loaded' = loaded
      /\ UNCHANGED <<todo, searching, seen, stack, included, excluded>>
  BY DEF discoverVars
<1>2. stage' = stage \/ (stage \notin Undecided \cup {"decide"} /\ stage' \notin Undecided \cup {"decide"})
  BY DEF Undecided
<1>3. LoadInv'
  <2>1. LoadedPackages' = LoadedPackages
    BY <1>1 DEF LoadedPackages, Kept
  <2> QED BY <1>1, <1>2, <2>1 DEF LoadInv, Undecided
<1>4. /\ AllTests' = AllTests /\ KeysOf(pkgs)' = KeysOf(pkgs) /\ NamedCalls' = NamedCalls
      /\ \A key : /\ Directive(key)' = Directive(key)
                  /\ HasEngineRun(key)' = HasEngineRun(key)
                  /\ CallsOf(key)' = CallsOf(key)
                  /\ DeclaredAs(key)' = DeclaredAs(key)
      /\ \A t : Namesakes(t)' = Namesakes(t)
      /\ \A start, calls : /\ Closed(start, calls)' = Closed(start, calls)
                           /\ RunsFrom(start, calls)' = RunsFrom(start, calls)
  BY <1>1, PackagesOnly
<1>5. \A n : Split(n)' = Split(n)
  BY <1>1, <1>4 DEF Split
<1>6. SplitInv'
  BY <1>1, <1>2, <1>4, <1>5 DEF DiscoverInv, SplitInv, KeyOf, Undecided
<1>7. ClearInv'
  BY <1>1, <1>4 DEF DiscoverInv, ClearInv, ClearOfRun, KeyOf
<1>8. CauseInv'
  BY <1>1, <1>4 DEF DiscoverInv, CauseInv, KeyOf
<1> QED BY <1>3, <1>6, <1>7, <1>8 DEF NextDiscoverInv, DiscoverInv

-----------------------------------------------------------------------------
(***************************************************************************)
(* What the invariant says of the tests.                                   *)
(***************************************************************************)

LEMMA DiscoverTypes == LoadInv /\ DiscoverInv => DiscoverTypeOK
<1> SUFFICES ASSUME LoadInv, DiscoverInv PROVE DiscoverTypeOK
  OBVIOUS
<1> DEFINE T == Range(AllTests)
<1>1. todo \in Seq(T) /\ included \in Seq(T) /\ excluded \in Seq(T)
  BY DEF DiscoverInv, SplitInv
<1> HIDE DEF T
<1>2. Range(todo) \subseteq T /\ Range(included) \subseteq T /\ Range(excluded) \subseteq T
  BY <1>1, RangeFinite
<1>3. (searching => todo # <<>>) /\ seen \cup stack \subseteq KeysOf(pkgs)
  BY DEF DiscoverInv, SplitInv, ClearInv
<1> QED BY <1>2, <1>3 DEF DiscoverTypeOK, T

LEMMA EachDecided == LoadInv /\ DiscoverInv => EachTestDecided
<1> SUFFICES ASSUME LoadInv, DiscoverInv, Decided
             PROVE  \E ins \in SUBSET DOMAIN AllTests :
                       /\ TakenFrom(included, AllTests, ins)
                       /\ TakenFrom(excluded, AllTests, DOMAIN AllTests \ ins)
  BY DEF EachTestDecided
<1>1. todo = <<>> /\ stage \notin Undecided
  BY DEF Decided, Undecided, DiscoverInv, SplitInv
<1>2. PICK n \in 0 .. Len(AllTests) : Split(n)
  BY <1>1 DEF DiscoverInv, SplitInv
<1>3. Len(AllTests) \in Nat /\ DOMAIN AllTests = 1 .. Len(AllTests)
  BY PackagesBuilt, TestsFound
<1>4. Len(todo) = 0 /\ Len(todo) = Len(AllTests) - n
  BY <1>1, <1>2 DEF Split
<1>5. n = Len(AllTests)
  <2> DEFINE L == Len(AllTests)
  <2>1. L \in Nat /\ n \in 0 .. L /\ 0 = L - n
    BY <1>3, <1>4
  <2> HIDE DEF L
  <2>2. n = L
    BY <2>1
  <2> QED BY <2>2 DEF L
<1> QED BY <1>2, <1>3, <1>5 DEF Split

\* The functions of visited keys, in all variants, are closed under typed calls.
LEMMA NoneNested == LoadInv /\ DiscoverInv => NoNestedRun
<1> SUFFICES ASSUME LoadInv, DiscoverInv, NEW t \in Range(included),
                    RunsFrom(DeclsOfTest(t), TypedCalls), Directive(KeyOf(t)) # "include"
             PROVE  FALSE
  BY DEF NoNestedRun
<1>0. ArePackages(pkgs)
  BY PackagesBuilt
<1>1. PICK keys \in SUBSET KeysOf(pkgs) : KeyOf(t) \in keys /\ ClearOfRun(keys)
  BY DEF DiscoverInv, ClearInv
<1> DEFINE Visited(y) == \E x \in Places : /\ KeyAt(x) \in keys
                                           /\ pkgs[x[1]].path = y[2] /\ DeclAt(x) = y[3]
           S == {y \in AllDecls : Visited(y)}
<1>2. DeclsOfTest(t) \subseteq S
  <2> SUFFICES ASSUME NEW y \in DeclsOfTest(t) PROVE y \in S
    OBVIOUS
  <2>1. y \in AllDecls /\ y[1] = t.id /\ y[3].name = t.name
    BY DEF DeclsOfTest, Namesakes
  <2>2. PICK x \in Places : y = Known(x)
    BY <1>0, <2>1, KnownFacts
  <2>3. KeyAt(x) = KeyOf(t) /\ pkgs[x[1]].path = y[2] /\ DeclAt(x) = y[3]
    BY <2>1, <2>2 DEF Known, KeyAt, KeyOf
  <2> QED BY <1>1, <2>1, <2>3
<1>3. ASSUME NEW y \in S, NEW z \in TypedCalls[y] PROVE z \in S
  <2>1. PICK x \in Places : KeyAt(x) \in keys /\ pkgs[x[1]].path = y[2] /\ DeclAt(x) = y[3]
    OBVIOUS
  <2>2. y \in AllDecls
    OBVIOUS
  <2>3. /\ z \in AllDecls /\ NotShadowed(z)
        /\ \E call \in y[3].calls : call.target = <<z[2], z[3].name>>
    BY <2>2 DEF TypedCalls
  <2>4. PICK call \in DeclAt(x).calls : call.target = <<z[2], z[3].name>>
    BY <2>1, <2>3
  <2>5. PICK w \in Places : z = Known(w)
    BY <1>0, <2>3, KnownFacts
  <2>6. z[1] = pkgs[w[1]].id /\ z[2] = pkgs[w[1]].path /\ z[3] = DeclAt(w)
    BY <2>5 DEF Known
  <2>7. call.target = <<pkgs[w[1]].path, DeclAt(w).name>>
    BY <2>4, <2>6
  <2>8. PICK v \in Places : /\ KeyAt(v) \in CallsAt(x)
                           /\ pkgs[v[1]].path = z[2] /\ DeclAt(v).name = z[3].name
    BY <1>0, <2>6, <2>7, TypedIsResolved
  <2>9. KeyAt(v) \in keys
    <3>1. x \in PlacesOf(KeyAt(x))
      BY <1>0, KeyFacts
    <3>2. KeyAt(v) \in CallsOf(KeyAt(x))
      BY <2>8, <3>1 DEF CallsOf
    <3> QED BY <1>1, <2>1, <3>2 DEF ClearOfRun
  <2>10. /\ Known(v) \in AllDecls /\ Known(v)[1] = pkgs[v[1]].id
         /\ Known(v)[2] = z[2] /\ Known(v)[3].name = z[3].name
    BY <1>0, <2>8, KnownFacts DEF Known
  <2>11. PICK u \in AllDecls : u[1] = pkgs[v[1]].id /\ SameName(z, u) /\ u[3].top
    BY <2>3, <2>10 DEF NotShadowed, SameName
  <2>12. PICK p \in Places : u = Known(p)
    BY <1>0, KnownFacts
  <2>13. /\ pkgs[p[1]].id = pkgs[v[1]].id /\ pkgs[p[1]].path = z[2]
         /\ DeclAt(p).name = z[3].name /\ DeclAt(p).top
    BY <2>11, <2>12 DEF Known, SameName
  <2>14. KeyAt(p) = KeyAt(v)
    BY <2>8, <2>13 DEF KeyAt
  <2>15. DeclAt(p) = z[3]
    <3>1. DeclAt(w).top
      BY <2>3, <2>6 DEF NotShadowed
    <3>2. call.target = <<pkgs[p[1]].path, DeclAt(p).name>>
      BY <2>4, <2>13
    <3> QED BY <2>6, <2>7, <2>13, <3>1, <3>2, DeclaredOnce
  <2> QED BY <2>3, <2>9, <2>13, <2>14, <2>15
<1>4. S \in Closed(DeclsOfTest(t), TypedCalls)
  <2> HIDE DEF S
  <2>1. S \in SUBSET AllDecls
    BY DEF S
  <2> QED BY <1>2, <1>3, <2>1 DEF Closed
<1>5. PICK y \in AllDecls : CallsRun(y[3]) /\ y \in S
  <2> HIDE DEF S
  <2> QED BY <1>4 DEF RunsFrom
<1>6. PICK x \in Places : KeyAt(x) \in keys /\ DeclAt(x) = y[3]
  BY <1>5
<1>7. HasEngineRun(KeyAt(x))
  BY <1>0, <1>5, <1>6, KeyFacts DEF HasEngineRun
<1> QED BY <1>1, <1>6, <1>7 DEF ClearOfRun

LEMMA AllForCause == DiscoverInv => ExcludedForCause
BY DEF DiscoverInv, CauseInv, ExcludedForCause
=============================================================================
