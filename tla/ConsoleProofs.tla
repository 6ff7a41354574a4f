--------------------------- MODULE ConsoleProofs ---------------------------
(***************************************************************************)
(* What a request relies on, proved for any number of people, tabs,        *)
(* environments, data sources and threads: a part of the module for each   *)
(* component that Console puts together, and last the five of them.        *)
(***************************************************************************)
EXTENDS Console, FiniteSetTheorems, TLAPS

-----------------------------------------------------------------------------
(*****************************************************************************)
(* The policy document: S3AccessPolicy                                       *)
(*****************************************************************************)

GrantsOf == [Names -> Grants \cup {NoGrant}]

\* The data sources granted at level l, and their resources.
At(g, l) == {n \in Names : g[n] # NoGrant /\ g[n].level = l}
Held(g, l) == UNION {Under(n, g[n].paths) : n \in At(g, l)}

\* What a grant q of n adds at level l.
Added(n, q, l) == IF q.level = l THEN Under(n, q.paths) ELSE {}

\* The document has its six parts, whatever they hold.
DocShape(d) ==
  d = [readonly |-> d.readonly, readwrite |-> d.readwrite, list |-> d.list,
       meta |-> d.meta, listFolder |-> d.listFolder, listSubFolders |-> d.listSubFolders]

\* The inductive invariant: ObjectsAsGranted, over a document of that shape.
ObjectsInv ==
  /\ DocShape(doc)
  /\ granted \in GrantsOf /\ unlisted \subseteq Folders
  /\ \A l \in Levels : doc[l] = Held(granted, l)
  /\ doc.list = {b \in Buckets : granted[b] # NoGrant}

-----------------------------------------------------------------------------
(* Resources *)

\* The resources of one data source start with its name.
LEMMA HeadOfUnder ==
  ASSUME NEW n \in Names, NEW P \in SUBSET Paths, NEW r \in Under(n, P)
  PROVE  Head(r) = n
<1>1. ASSUME NEW p \in Paths PROVE Head(<<n>> \o p) = n
  <2>1. p \in Seq(Segments) BY S3AccessPolicyAssumption
  <2> DEFINE U == Names \cup Segments
  <2>2. <<n>> \in Seq(U) /\ p \in Seq(U) BY <2>1
  <2> QED BY <2>2
<1> QED BY <1>1 DEF Under

\* Removing one data source's resources leaves those of the others.
LEMMA Removed ==
  ASSUME NEW g \in GrantsOf, NEW n \in Names, NEW l \in Levels
  PROVE  RemoveResource(Held(g, l), n) = UNION {Under(m, g[m].paths) : m \in At(g, l) \ {n}}
<1>1. ASSUME NEW m \in At(g, l), NEW r \in Under(m, g[m].paths)
      PROVE  Head(r) = m
  <2>1. m \in Names /\ g[m] \in Grants BY <1>1 DEF At, GrantsOf
  <2>2. g[m].paths \in SUBSET Paths BY <2>1 DEF Grants
  <2> QED BY <2>1, <2>2, HeadOfUnder, <1>1
<1> QED BY <1>1 DEF RemoveResource, Held

\* What a revocation leaves, at each level.
LEMMA HeldAfterRevoke ==
  ASSUME NEW g \in GrantsOf, NEW n \in Names, NEW l \in Levels,
         NEW after, after = [g EXCEPT ![n] = NoGrant]
  PROVE  after \in GrantsOf /\ Held(after, l) = RemoveResource(Held(g, l), n)
<1>1. after \in GrantsOf BY DEF GrantsOf
<1>2. At(after, l) = At(g, l) \ {n} BY DEF At, GrantsOf
<1>3. \A m \in At(after, l) : after[m] = g[m] BY <1>2 DEF At, GrantsOf
<1>4. Held(after, l) = UNION {Under(m, g[m].paths) : m \in At(g, l) \ {n}}
  BY <1>2, <1>3 DEF Held
<1> QED BY <1>1, <1>4, Removed

\* What a grant leaves, at each level: the grant it replaces is gone.
LEMMA HeldAfterGrant ==
  ASSUME NEW g \in GrantsOf, NEW n \in Names, NEW q \in Grants, NEW l \in Levels,
         NEW after, after = [g EXCEPT ![n] = q]
  PROVE  /\ after \in GrantsOf
         /\ Held(after, l) = RemoveResource(Held(g, l), n)
                               \cup Added(n, q, l)
<1>1. after \in GrantsOf BY DEF GrantsOf
<1>2. q # NoGrant BY S3AccessPolicyAssumption
<1>3. after[n] = q /\ \A m \in Names \ {n} : after[m] = g[m] BY DEF GrantsOf
<1>4. At(after, l) = (At(g, l) \ {n}) \cup (IF q.level = l THEN {n} ELSE {})
  BY <1>2, <1>3 DEF At
<1>5. ASSUME NEW r
      PROVE  r \in Held(after, l) <=>
               r \in UNION {Under(m, g[m].paths) : m \in At(g, l) \ {n}} \/ r \in Added(n, q, l)
  <2>1. r \in Held(after, l) <=> \E m \in At(after, l) : r \in Under(m, after[m].paths)
    BY DEF Held
  <2>2. r \in UNION {Under(m, g[m].paths) : m \in At(g, l) \ {n}} <=>
          \E m \in At(g, l) \ {n} : r \in Under(m, after[m].paths)
    <3>1. \A m \in At(g, l) \ {n} : after[m] = g[m] BY <1>3 DEF At
    <3> QED BY <3>1
  <2>3. r \in Added(n, q, l) <=> q.level = l /\ r \in Under(n, after[n].paths)
    BY <1>3 DEF Added
  <2> QED BY <1>4, <2>1, <2>2, <2>3
<1>6. Held(after, l) = (UNION {Under(m, g[m].paths) : m \in At(g, l) \ {n}}) \cup Added(n, q, l)
  BY <1>5
<1> QED BY <1>1, <1>6, Removed

-----------------------------------------------------------------------------
(* One lemma per operation *)

LEMMA RevokeBucketKeeps ==
  ASSUME ObjectsInv, NEW b \in Buckets, RevokeBucket(b)
  PROVE  ObjectsInv'
<1>1. b \in Names BY DEF Names
<1>2. DocShape(doc)' /\ doc'.list = doc.list \ {b}
  BY DEF ObjectsInv, DocShape, RevokeBucket, RevokeAccess
<1>3. \A l \in Levels : doc'[l] = RemoveResource(doc[l], b)
  BY DEF ObjectsInv, DocShape, RevokeBucket, RevokeAccess, Levels
<1>4. granted' \in GrantsOf /\ \A l \in Levels : doc'[l] = Held(granted', l)
  <2>1. granted' = [granted EXCEPT ![b] = NoGrant] BY DEF RevokeBucket
  <2>2. \A l \in Levels : granted' \in GrantsOf
                          /\ Held(granted', l) = RemoveResource(Held(granted, l), b)
    BY <1>1, <2>1, HeldAfterRevoke DEF ObjectsInv
  <2> QED BY <1>3, <2>2 DEF ObjectsInv, Levels
<1>5. doc'.list = {c \in Buckets : granted'[c] # NoGrant}
  BY <1>2 DEF ObjectsInv, RevokeBucket, GrantsOf, Names
<1>8. unlisted' \subseteq Folders BY DEF ObjectsInv, RevokeBucket
<1> QED BY <1>2, <1>4, <1>5, <1>8 DEF ObjectsInv, DocShape

LEMMA RevokeFolderKeeps ==
  ASSUME ObjectsInv, NEW f \in Folders, RevokeFolder(f)
  PROVE  ObjectsInv'
<1>1. f \in Names /\ f \notin Buckets BY S3AccessPolicyAssumption DEF Names
<1>2. DocShape(doc)' /\ doc'.list = doc.list
  BY DEF ObjectsInv, DocShape, RevokeFolder, RevokeFolderAccess
<1>3. \A l \in Levels : doc'[l] = RemoveResource(doc[l], f)
  BY DEF ObjectsInv, DocShape, RevokeFolder, RevokeFolderAccess, Levels
<1>4. granted' \in GrantsOf /\ \A l \in Levels : doc'[l] = Held(granted', l)
  <2>1. granted' = [granted EXCEPT ![f] = NoGrant] BY DEF RevokeFolder
  <2>2. \A l \in Levels : granted' \in GrantsOf
                          /\ Held(granted', l) = RemoveResource(Held(granted, l), f)
    BY <1>1, <2>1, HeldAfterRevoke DEF ObjectsInv
  <2> QED BY <1>3, <2>2 DEF ObjectsInv, Levels
<1>5. doc'.list = {c \in Buckets : granted'[c] # NoGrant}
  BY <1>1, <1>2 DEF ObjectsInv, RevokeFolder, GrantsOf, Names
<1>8. unlisted' \subseteq Folders BY DEF ObjectsInv, RevokeFolder, Unlist
<1> QED BY <1>2, <1>4, <1>5, <1>8 DEF ObjectsInv, DocShape

LEMMA GrantBucketKeeps ==
  ASSUME ObjectsInv, NEW b \in Buckets, NEW g \in Grants, GrantBucket(b, g)
  PROVE  ObjectsInv'
<1>1. b \in Names /\ g # NoGrant /\ g.level \in Levels
  BY S3AccessPolicyAssumption DEF Names, Grants
<1>2. DocShape(doc)' /\ doc'.list = doc.list \cup {b}
  BY <1>1 DEF ObjectsInv, DocShape, GrantBucket, RevokeAccess, AddObjects, Levels
<1>3. \A l \in Levels : doc'[l] = RemoveResource(doc[l], b)
                                   \cup Added(b, g, l)
  BY <1>1 DEF ObjectsInv, DocShape, GrantBucket, RevokeAccess, AddObjects, Levels, Added
<1>4. granted' \in GrantsOf /\ \A l \in Levels : doc'[l] = Held(granted', l)
  <2>1. granted' = [granted EXCEPT ![b] = g] BY DEF GrantBucket
  <2>2. ASSUME NEW l \in Levels
        PROVE  /\ granted' \in GrantsOf
               /\ Held(granted', l) = RemoveResource(Held(granted, l), b) \cup Added(b, g, l)
    <3>1. granted \in GrantsOf BY DEF ObjectsInv
    <3>2. b \in Names BY <1>1
    <3>3. [granted EXCEPT ![b] = g] \in GrantsOf BY <3>1, <3>2, HeldAfterGrant
    <3>4. Held([granted EXCEPT ![b] = g], l) =
            RemoveResource(Held(granted, l), b) \cup Added(b, g, l)
      BY <3>1, <3>2, HeldAfterGrant
    <3> QED BY <2>1, <3>3, <3>4
  <2> QED BY <1>3, <2>2 DEF ObjectsInv, Levels
<1>5. doc'.list = {c \in Buckets : granted'[c] # NoGrant}
  BY <1>1, <1>2 DEF ObjectsInv, GrantBucket, GrantsOf, Names
<1>8. unlisted' \subseteq Folders BY DEF ObjectsInv, GrantBucket
<1> QED BY <1>2, <1>4, <1>5, <1>8 DEF ObjectsInv, DocShape

LEMMA GrantFolderKeeps ==
  ASSUME ObjectsInv, NEW f \in Folders, NEW g \in Grants, NEW order, GrantFolder(f, g, order)
  PROVE  ObjectsInv'
<1>1. f \in Names /\ f \notin Buckets /\ g.level \in Levels
  BY S3AccessPolicyAssumption DEF Names, Grants
<1> DEFINE revoked == RevokeFolderAccess(doc, f)
           whole == IF order = << >> THEN << <<f>> >> ELSE [i \in DOMAIN order |-> <<f>> \o order[i]]
           objects == AddObjects(revoked, f, g)
           kept == {x \in doc.listFolder : ~BeginsWith(x[1], f)}
           folders == IF kept = {Root} THEN {} ELSE kept
           subFolders == {s \in doc.listSubFolders : ~BeginsWith(s, f)}
<1>2. /\ DocShape(revoked) /\ revoked.list = doc.list
      /\ \A l \in Levels : revoked[l] = RemoveResource(doc[l], f)
  <2>1. DocShape(doc) BY DEF ObjectsInv
  <2>2. revoked = [readonly |-> RemoveResource(doc.readonly, f),
                   readwrite |-> RemoveResource(doc.readwrite, f),
                   list |-> doc.list, meta |-> FALSE,
                   listFolder |-> folders, listSubFolders |-> subFolders]
    <3> HIDE DEF kept
    <3>1. revoked = [doc EXCEPT !.readonly = RemoveResource(@, f),
                                !.readwrite = RemoveResource(@, f), !.meta = FALSE,
                                !.listFolder = folders, !.listSubFolders = subFolders]
      BY DEF RevokeFolderAccess, kept
    <3> HIDE DEF revoked, folders, subFolders
    <3> QED BY <2>1, <3>1 DEF DocShape
  <2> HIDE DEF revoked, kept, folders, subFolders
  <2> QED BY <2>2 DEF DocShape, Levels
<1> HIDE DEF revoked
<1>3. /\ DocShape(objects) /\ objects.list = revoked.list
      /\ \A l \in Levels : objects[l] = revoked[l]
                             \cup Added(f, g, l)
  <2> DEFINE new == Under(f, g.paths)
  <2>1. CASE g.level = "readonly"
    <3>1. objects = [revoked EXCEPT !.readonly = @ \cup new] BY <2>1 DEF AddObjects
    <3> HIDE DEF objects, new
    <3>2. objects = [readonly |-> revoked.readonly \cup new, readwrite |-> revoked.readwrite,
                     list |-> revoked.list, meta |-> revoked.meta,
                     listFolder |-> revoked.listFolder,
                     listSubFolders |-> revoked.listSubFolders]
      BY <1>2, <3>1 DEF DocShape
    <3>3. DocShape(objects) /\ objects.list = revoked.list
          /\ objects["readonly"] = revoked["readonly"] \cup new
          /\ objects["readwrite"] = revoked["readwrite"]
      BY <3>2 DEF DocShape
    <3> QED BY <3>3, <2>1 DEF Levels, Added, new
  <2>2. CASE g.level = "readwrite"
    <3>1. objects = [revoked EXCEPT !.readwrite = @ \cup new] BY <2>2 DEF AddObjects
    <3> HIDE DEF objects, new
    <3>2. objects = [readonly |-> revoked.readonly, readwrite |-> revoked.readwrite \cup new,
                     list |-> revoked.list, meta |-> revoked.meta,
                     listFolder |-> revoked.listFolder,
                     listSubFolders |-> revoked.listSubFolders]
      BY <1>2, <3>1 DEF DocShape
    <3>3. DocShape(objects) /\ objects.list = revoked.list
          /\ objects["readonly"] = revoked["readonly"]
          /\ objects["readwrite"] = revoked["readwrite"] \cup new
      BY <3>2 DEF DocShape
    <3> QED BY <3>3, <2>2 DEF Levels, Added, new
  <2> QED BY <1>1, <2>1, <2>2 DEF Levels
<1> HIDE DEF objects, whole
<1>4. doc' = [objects EXCEPT !.meta = TRUE,
                             !.listFolder = FoldLeft(AddPrefix, @, whole),
                             !.listSubFolders = @ \cup Under(f, g.paths)]
  BY DEF GrantFolder, AddFolder, objects, revoked, whole
<1>5. /\ DocShape(doc)' /\ doc'.list = objects.list
      /\ \A l \in Levels : doc'[l] = objects[l]
  BY <1>3, <1>4 DEF DocShape, Levels
<1>6. granted' \in GrantsOf /\ \A l \in Levels : doc'[l] = Held(granted', l)
  <2>1. granted' = [granted EXCEPT ![f] = g] BY DEF GrantFolder
  <2>2. ASSUME NEW l \in Levels
        PROVE  /\ granted' \in GrantsOf
               /\ Held(granted', l) = RemoveResource(Held(granted, l), f) \cup Added(f, g, l)
    <3>1. granted \in GrantsOf BY DEF ObjectsInv
    <3>2. f \in Names BY <1>1
    <3>3. [granted EXCEPT ![f] = g] \in GrantsOf BY <3>1, <3>2, HeldAfterGrant
    <3>4. Held([granted EXCEPT ![f] = g], l) =
            RemoveResource(Held(granted, l), f) \cup Added(f, g, l)
      BY <3>1, <3>2, HeldAfterGrant
    <3> QED BY <2>1, <3>3, <3>4
  <2> QED BY <1>2, <1>3, <1>5, <2>2 DEF ObjectsInv, Levels
<1>7. doc'.list = {c \in Buckets : granted'[c] # NoGrant}
  BY <1>1, <1>2, <1>3, <1>5 DEF ObjectsInv, GrantFolder, GrantsOf, Names
<1>8. unlisted' \subseteq Folders BY DEF ObjectsInv, GrantFolder, Unlist
<1> QED BY <1>5, <1>6, <1>7, <1>8 DEF ObjectsInv, DocShape

-----------------------------------------------------------------------------
(* The theorem *)

LEMMA PolicyInitHolds == Init => ObjectsInv
<1> SUFFICES ASSUME Init PROVE ObjectsInv OBVIOUS
<1>1. granted \in GrantsOf BY DEF Init, GrantsOf
<1>2. \A l \in Levels : At(granted, l) = {} BY DEF Init, At
<1>3. \A l \in Levels : doc[l] = Held(granted, l)
  BY <1>2 DEF Init, EmptyDoc, Held, Levels
<1> QED BY <1>1, <1>3 DEF Init, EmptyDoc, ObjectsInv, DocShape, Names

LEMMA PolicyStepHolds == ObjectsInv /\ [Next]_vars => ObjectsInv'
<1> SUFFICES ASSUME ObjectsInv, [Next]_vars PROVE ObjectsInv' OBVIOUS
<1>1. CASE \E b \in Buckets : RevokeBucket(b) BY <1>1, RevokeBucketKeeps
<1>2. CASE \E b \in Buckets : \E g \in Grants : GrantBucket(b, g) BY <1>2, GrantBucketKeeps
<1>3. CASE \E f \in Folders : RevokeFolder(f) BY <1>3, RevokeFolderKeeps
<1>4. CASE \E f \in Folders : \E g \in Grants : \E order \in SetToSeqs(g.paths) :
             GrantFolder(f, g, order)
  BY <1>4, GrantFolderKeeps
<1>5. CASE UNCHANGED vars BY <1>5 DEF vars, ObjectsInv, DocShape
<1> QED BY <1>1, <1>2, <1>3, <1>4, <1>5 DEF Next

LEMMA PolicyInvImplies == ObjectsInv => ObjectsAsGranted
<1> SUFFICES ASSUME ObjectsInv PROVE ObjectsAsGranted OBVIOUS
<1>1. \A l \in Levels : At(granted, l) = {m \in Granted(Names) : granted[m].level = l}
  BY DEF At, Granted
<1>2. \A l \in Levels :
        doc[l] = UNION {GrantedPaths(n) : n \in {m \in Granted(Names) : granted[m].level = l}}
  BY <1>1 DEF ObjectsInv, Held, GrantedPaths
<1> QED BY <1>2 DEF ObjectsInv, ObjectsAsGranted, Granted

\* For every set of buckets, folders and paths, and whatever names begin
\* with each other: grant_bucket_access, grant_folder_access and the two
\* revocations leave object access exactly as last granted.
THEOREM ObjectAccessAsGranted == Spec => []ObjectsAsGranted
<1> QED BY PolicyInitHolds, PolicyStepHolds, PolicyInvImplies, PTL DEF Spec

-----------------------------------------------------------------------------
(* Counting *)

\* A set of numbers has a least one.
LEMMA FirstNumber == ASSUME NEW T \in SUBSET Nat, T # {} PROVE \E n \in T : \A m \in T : n <= m
<1>1. PICK n \in T : \A m \in T : ~ (<<m, n>> \in OpToRel(<, Nat))
  BY NatLessThanWellFounded, WFMin
<1>2. \A m \in T : ~ (m < n)
  BY <1>1 DEF OpToRel
<1> QED BY <1>2

\* What holds of 0, and of a number when it holds of the one before, holds of all.
LEMMA CountsUp ==
  ASSUME NEW n \in Nat, NEW T, 0 \in T, \A k \in 1 .. n : k - 1 \in T => k \in T
  PROVE  \A k \in 0 .. n : k \in T
<1> SUFFICES ASSUME NEW j \in 0 .. n, j \notin T PROVE FALSE
  OBVIOUS
<1> DEFINE Missing == {k \in Nat : k <= n /\ k \notin T}
<1>1. PICK k \in Missing : \A m \in Missing : k <= m
  <2>1. Missing \in SUBSET Nat /\ j \in Missing OBVIOUS
  <2> HIDE DEF Missing
  <2> QED BY <2>1, FirstNumber
<1>2. k # 0 /\ k \in 1 .. n /\ k - 1 \in Nat /\ k - 1 <= n OBVIOUS
<1>3. k - 1 \in T BY <1>1, <1>2
<1> QED BY <1>1, <1>2, <1>3

-----------------------------------------------------------------------------
(* The fold over the paths of a grant *)

\* Max, by which the fold takes the last path first.
LEMMA GreatestIs ==
  ASSUME NEW k \in Nat, NEW s \in SUBSET (1 .. k), k \in s
  PROVE  Max(s) = k
<1>1. \A y \in s : k >= y OBVIOUS
<1>2. ASSUME NEW x \in s, \A y \in s : x >= y PROVE x = k BY <1>2
<1> QED BY <1>1, <1>2 DEF Max

\* What the fold makes of each set of the paths' numbers.
Folds(it, n, L, paths) ==
  it = [s \in SUBSET (1 .. n) |->
          IF s = {} THEN L ELSE AddPrefix(it[s \ {Max(s)}], paths[Max(s)])]

\* There is such a function, which the definition of the fold picks.
LEMMA FoldsExist ==
  ASSUME NEW n \in Nat, NEW L, NEW paths
  PROVE  \E it : Folds(it, n, L, paths)
<1> DEFINE T == {k \in Nat : \E it : Folds(it, k, L, paths)}
<1>1. 0 \in T
  <2> DEFINE it == [s \in {{}} |-> L]
  <2>1. SUBSET (1 .. 0) = {{}} OBVIOUS
  <2>2. Folds(it, 0, L, paths) BY <2>1 DEF Folds
  <2> QED BY <2>2
<1>2. ASSUME NEW k \in 1 .. n, k - 1 \in T PROVE k \in T
  <2>1. PICK it : Folds(it, k - 1, L, paths) BY <1>2
  <2> DEFINE up == [s \in SUBSET (1 .. k) |->
                      IF k \in s THEN AddPrefix(it[s \ {k}], paths[k]) ELSE it[s]]
  <2>2. ASSUME NEW s \in SUBSET (1 .. k)
        PROVE  up[s] = IF s = {} THEN L ELSE AddPrefix(up[s \ {Max(s)}], paths[Max(s)])
    <3>1. CASE k \in s
      <4>1. Max(s) = k BY <3>1, GreatestIs
      <4>2. s \ {k} \in SUBSET (1 .. k) /\ k \notin s \ {k} OBVIOUS
      <4>3. up[s \ {k}] = it[s \ {k}] BY <4>2
      <4> HIDE DEF up
      <4>4. up[s] = AddPrefix(it[s \ {k}], paths[k]) BY <3>1 DEF up
      <4> QED BY <3>1, <4>1, <4>3, <4>4
    <3>2. CASE k \notin s
      <4>1. s \in SUBSET (1 .. k - 1) BY <3>2
      <4>2. it[s] = IF s = {} THEN L ELSE AddPrefix(it[s \ {Max(s)}], paths[Max(s)])
        BY <2>1, <4>1 DEF Folds
      <4>3. s \ {Max(s)} \in SUBSET (1 .. k) /\ k \notin s \ {Max(s)} BY <3>2
      <4>4. up[s \ {Max(s)}] = it[s \ {Max(s)}] BY <4>3
      <4>5. up[s] = it[s] BY <3>2
      <4> HIDE DEF up
      <4> QED BY <4>2, <4>4, <4>5
    <3> QED BY <3>1, <3>2
  <2> HIDE DEF up
  <2>3. Folds(up, k, L, paths)
    <3>1. DOMAIN up = SUBSET (1 .. k) BY DEF up
    <3>2. up = [s \in SUBSET (1 .. k) |-> up[s]] BY DEF up
    <3> QED BY <2>2, <3>2 DEF Folds
  <2> QED BY <2>3
<1> HIDE DEF T
<1>3. n \in T BY <1>1, <1>2, CountsUp
<1> QED BY <1>3 DEF T

\* The list of prefixes that AddFolder makes.
PrefixesAdded(L, paths) == FoldLeft(AddPrefix, L, paths)

\* The first n of them.
Items(paths, n) == {paths[i] : i \in 1 .. n}

\* FoldLeft goes from the first path to the last.
LEMMA FoldGoes ==
  ASSUME NEW n \in Nat, NEW L, NEW paths, DOMAIN paths = 1 .. n
  PROVE  \E step : /\ step[0] = L
                   /\ \A k \in 1 .. n : step[k] = AddPrefix(step[k - 1], paths[k])
                   /\ PrefixesAdded(L, paths) = step[n]
<1> DEFINE it == CHOOSE h : Folds(h, n, L, paths)
<1>1. Folds(it, n, L, paths)
  BY FoldsExist
<1>2. PrefixesAdded(L, paths) = it[1 .. n]
  BY DEF PrefixesAdded, FoldLeft, MapThenFoldSet, Folds
<1> HIDE DEF it
<1> DEFINE step == [k \in 0 .. n |-> it[1 .. k]]
<1>3. \A s \in SUBSET (1 .. n) :
        it[s] = IF s = {} THEN L ELSE AddPrefix(it[s \ {Max(s)}], paths[Max(s)])
  BY <1>1 DEF Folds
<1>4. step[0] = L
  <2>1. 1 .. 0 = {} /\ {} \in SUBSET (1 .. n) OBVIOUS
  <2>2. step[0] = it[{}] BY <2>1
  <2> HIDE DEF step
  <2> QED BY <1>3, <2>1, <2>2
<1>5. ASSUME NEW k \in 1 .. n PROVE step[k] = AddPrefix(step[k - 1], paths[k])
  <2>1. 1 .. k \in SUBSET (1 .. n) /\ k \in 1 .. k OBVIOUS
  <2>2. Max(1 .. k) = k BY GreatestIs
  <2>3. (1 .. k) \ {k} = 1 .. (k - 1) OBVIOUS
  <2>4. it[1 .. k] = AddPrefix(it[1 .. (k - 1)], paths[k]) BY <1>3, <2>1, <2>2, <2>3
  <2>5. step[k] = it[1 .. k] /\ step[k - 1] = it[1 .. (k - 1)] OBVIOUS
  <2> QED BY <2>4, <2>5
<1>6. PrefixesAdded(L, paths) = step[n] BY <1>2
<1> HIDE DEF step
<1> QED BY <1>4, <1>5, <1>6

-----------------------------------------------------------------------------
(* What leads to a path *)

\* The directories above a path, and the prefixes that lead to it.
Above(s) == {SubSeq(s, 1, k) : k \in 1 .. Len(s) - 1}
Leading(s) == {<<s, "">>} \cup Above(s) \X {"", "/"}

\* The list R that L has become when the paths P were added: a directory above
\* a path is in it without a slash, and with one unless it is such a path itself.
Complete(R, P) ==
  \A s \in P : /\ <<s, "">> \in R
              /\ \A a \in Above(s) : <<a, "">> \in R /\ (<<a, "/">> \in R \/ a \in P)
Sound(R, L, P) == \A x \in R : x \in L \/ x = Root \/ \E s \in P : x \in Leading(s)

\* L has nothing yet of what leads to s.
NothingAbove(L, s) == \A a \in Above(s) : <<a, "">> \notin L /\ <<a, "">> # Root

\* AddPrefix goes through one path more.
LEMMA PrefixAdded ==
  ASSUME NEW R, NEW L, NEW P, NEW s, NEW Q, Q = AddPrefix(R, s),
         Complete(R, P), Sound(R, L, P), L \subseteq R,
         NothingAbove(L, s)
  PROVE  /\ Complete(Q, P \cup {s}) /\ Sound(Q, L, P \cup {s})
         /\ L \subseteq Q /\ Root \in Q
<1> DEFINE above == {a \in Above(s) : <<a, "">> \notin R}
<1>1. Q = R \cup {Root, <<s, "">>} \cup above \X {"", "/"}
  BY DEF AddPrefix, Above
<1>2. ASSUME NEW t \in P \cup {s}, NEW a \in Above(t)
      PROVE  <<a, "">> \in Q /\ (<<a, "/">> \in Q \/ a \in P \cup {s})
  <2>1. CASE t \in P BY <1>1, <2>1 DEF Complete
  <2>2. CASE t = s /\ a \in above
    <3>1. <<a, "">> \in above \X {"", "/"} /\ <<a, "/">> \in above \X {"", "/"} BY <2>2
    <3> QED BY <1>1, <3>1
  <2>3. CASE t = s /\ a \notin above
    <3>1. <<a, "">> \in R BY <2>3, <1>2
    <3>2. PICK u \in P : <<a, "">> \in Leading(u) BY <2>3, <1>2, <3>1 DEF Sound, NothingAbove
    <3>3. a = u \/ a \in Above(u) BY <3>2 DEF Leading
    <3> QED BY <1>1, <3>1, <3>3 DEF Complete
  <2> QED BY <2>1, <2>2, <2>3
<1>3. Complete(Q, P \cup {s}) BY <1>1, <1>2 DEF Complete
<1>4. ASSUME NEW x \in Q PROVE x \in L \/ x = Root \/ \E t \in P \cup {s} : x \in Leading(t)
  <2>1. CASE x \in R BY <2>1 DEF Sound
  <2>2. CASE x = <<s, "">> BY <2>2 DEF Leading
  <2>3. CASE x \in above \X {"", "/"}
    <3>1. x \in Above(s) \X {"", "/"} BY <2>3
    <3> QED BY <3>1 DEF Leading
  <2> QED BY <1>1, <1>4, <2>1, <2>2, <2>3
<1> QED BY <1>1, <1>3, <1>4 DEF Sound

\* Adding the paths one by one goes through them all.
LEMMA FoldLists ==
  ASSUME NEW n \in Nat, NEW L, NEW paths, DOMAIN paths = 1 .. n,
         NEW R, R = PrefixesAdded(L, paths), NEW P, P = Items(paths, n),
         \A i \in 1 .. n : NothingAbove(L, paths[i])
  PROVE  /\ Complete(R, P) /\ Sound(R, L, P)
         /\ L \subseteq R /\ (n > 0 => Root \in R)
<1>1. PICK step : /\ step[0] = L
                  /\ \A k \in 1 .. n : step[k] = AddPrefix(step[k - 1], paths[k])
                  /\ PrefixesAdded(L, paths) = step[n]
  BY FoldGoes
<1> DEFINE Gone(k) == Items(paths, k)
           Fine(k) == /\ Complete(step[k], Gone(k)) /\ Sound(step[k], L, Gone(k))
                      /\ L \subseteq step[k] /\ (k > 0 => Root \in step[k])
           T == {k \in 0 .. n : Fine(k)}
<1>2. 0 \in T
  <2>1. Gone(0) = {}
    <3>1. \A i \in 1 .. 0 : FALSE OBVIOUS
    <3> QED BY <3>1 DEF Items
  <2> HIDE DEF Gone
  <2>2. Fine(0) BY <1>1, <2>1 DEF Complete, Sound
  <2> QED BY <2>2
<1>3. ASSUME NEW k \in 1 .. n, k - 1 \in T PROVE k \in T
  <2>1. /\ Complete(step[k - 1], Gone(k - 1)) /\ Sound(step[k - 1], L, Gone(k - 1))
        /\ L \subseteq step[k - 1]
    BY <1>3
  <2>2. Gone(k) = Gone(k - 1) \cup {paths[k]}
    <3>1. 1 .. k = (1 .. k - 1) \cup {k} OBVIOUS
    <3> QED BY <3>1 DEF Items
  <2>3. step[k] = AddPrefix(step[k - 1], paths[k]) BY <1>1
  <2> HIDE DEF Gone
  <2>4. /\ Complete(step[k], Gone(k - 1) \cup {paths[k]}) /\ Sound(step[k], L, Gone(k - 1) \cup {paths[k]})
        /\ L \subseteq step[k] /\ Root \in step[k]
    <3> HIDE DEF Fine, T
    <3>1. NothingAbove(L, paths[k]) OBVIOUS
    <3> DEFINE was == step[k - 1]
               is == step[k]
               done == Gone(k - 1)
               path == paths[k]
    <3>2. Complete(was, done) /\ Sound(was, L, done) /\ L \subseteq was /\ is = AddPrefix(was, path)
          /\ NothingAbove(L, path)
      BY <2>1, <2>3, <3>1
    <3> HIDE DEF was, is, done, path
    <3>3. Complete(is, done \cup {path}) /\ Sound(is, L, done \cup {path}) /\ L \subseteq is /\ Root \in is
      BY <3>2, PrefixAdded
    <3> QED BY <3>3 DEF is, done, path
  <2>5. Fine(k) BY <2>2, <2>4
  <2> QED BY <2>5
<1> HIDE DEF T
<1>4. n \in T BY <1>2, <1>3, CountsUp
<1> QED BY <1>1, <1>4 DEF T

-----------------------------------------------------------------------------
(* The two lists of a document, after each operation *)

\* Revoking folder f takes the prefixes of folder h.
Takes(f, h) == h = f \/ <<f, h>> \in Begins

\* The grants whose prefixes the lists still have.
Listed == [n \in Names |-> IF n \in unlisted THEN NoGrant ELSE granted[n]]

FoldersOf(g) == {f \in Folders : g[f] # NoGrant}
PathsOf(g, f) == Under(f, g[f].paths)

\* The prefixes lead to the paths of the folders granted in g, and the
\* patterns are those paths.
ListsFor(prefixes, patterns, g) ==
  /\ patterns = UNION {PathsOf(g, f) : f \in FoldersOf(g)}
  /\ \A f \in FoldersOf(g) : Root \in prefixes /\ Complete(prefixes, PathsOf(g, f))
  /\ FoldersOf(g) = {} => prefixes = {}
  /\ \A x \in prefixes : x = Root \/ \E f \in FoldersOf(g) : \E s \in PathsOf(g, f) : x \in Leading(s)

\* A path of a folder, and what is above it, starts with the folder's name.
LEMMA PathFacts ==
  ASSUME NEW f \in Folders, NEW P \in SUBSET Paths, NEW s \in Under(f, P)
  PROVE  /\ s \in Seq(Names \cup Segments) /\ s # << >> /\ Head(s) = f
         /\ \A a \in Above(s) : a \in Seq(Names \cup Segments) /\ a # << >> /\ Head(a) = f
<1> DEFINE U == Names \cup Segments
<1>1. s \in Seq(U) /\ s # << >> /\ Head(s) = f
  <2>1. <<f>> \in Seq(U) /\ <<f>> # << >> /\ Head(<<f>>) = f
    BY DEF Names
  <2>2. ASSUME NEW p \in Paths PROVE <<f>> \o p \in Seq(U) /\ <<f>> \o p # << >> /\ Head(<<f>> \o p) = f
    <3>1. p \in Seq(U) BY S3AccessPolicyAssumption
    <3> QED BY <2>1, <3>1
  <2> QED BY <2>1, <2>2 DEF Under
<1>2. ASSUME NEW a \in Above(s) PROVE a \in Seq(U) /\ a # << >> /\ Head(a) = f
  <2>1. PICK k \in 1 .. Len(s) - 1 : a = SubSeq(s, 1, k) BY DEF Above
  <2> QED BY <1>1, <2>1
<1> QED BY <1>1, <1>2

\* A way to a folder's path is the root or starts with the folder's name.
LEMMA LeadingStarts ==
  ASSUME NEW f \in Folders, NEW P \in SUBSET Paths, NEW s \in Under(f, P), NEW x \in Leading(s)
  PROVE  x[1] # << >> /\ Head(x[1]) = f
<1>1. x = <<s, "">> \/ x \in Above(s) \X {"", "/"} BY DEF Leading
<1>2. CASE x \in Above(s) \X {"", "/"}
  <2>1. x[1] \in Above(s) BY <1>2
  <2> QED BY <2>1, PathFacts
<1>3. CASE x = <<s, "">>
  <2>1. x[1] = s BY <1>3
  <2> QED BY <2>1, PathFacts
<1> QED BY <1>1, <1>2, <1>3

LEMMA SomePath == ASSUME NEW f, NEW P PROVE \E s : s \in Under(f, P)
BY DEF Under

LEMMA CompleteGrows ==
  ASSUME NEW R, NEW Q, NEW P, Complete(R, P), R \subseteq Q
  PROVE  Complete(Q, P)
BY DEF Complete

LEMMA GrantPaths ==
  ASSUME NEW g \in GrantsOf, NEW f \in FoldersOf(g)
  PROVE  f \in Folders /\ f \in Names /\ g[f].paths \in SUBSET Paths
BY DEF GrantsOf, FoldersOf, Grants, Names

\* What revoking a folder leaves of the two lists.
KeptPrefixes(prefixes, f) ==
  LET kept == {x \in prefixes : ~ BeginsWith(x[1], f)} IN IF kept = {Root} THEN {} ELSE kept
KeptPatterns(patterns, f) == {s \in patterns : ~ BeginsWith(s, f)}

\* A revocation takes the folder's own prefixes and those of folders whose names
\* begin with its name, and the root with the last ones.
LEMMA ListsAfterRevoke ==
  ASSUME NEW g \in GrantsOf, NEW f \in Folders, NEW prefixes, NEW patterns,
         ListsFor(prefixes, patterns, g),
         NEW after, after = [h \in Names |-> IF Takes(f, h) THEN NoGrant ELSE g[h]]
  PROVE  ListsFor(KeptPrefixes(prefixes, f), KeptPatterns(patterns, f), after)
<1> DEFINE kept == {x \in prefixes : ~ BeginsWith(x[1], f)}
           left == KeptPrefixes(prefixes, f)
<1>1. after \in GrantsOf /\ FoldersOf(after) = {h \in FoldersOf(g) : ~ Takes(f, h)}
      /\ \A h \in FoldersOf(after) : PathsOf(after, h) = PathsOf(g, h)
  BY DEF GrantsOf, FoldersOf, PathsOf, Names
<1>2. ASSUME NEW h \in FoldersOf(g), NEW s \in PathsOf(g, h)
      PROVE  /\ BeginsWith(s, f) <=> Takes(f, h)
             /\ \A x \in Leading(s) : BeginsWith(x[1], f) <=> Takes(f, h)
  <2>1. h \in Folders /\ s # << >> /\ Head(s) = h /\ \A x \in Leading(s) : x[1] # << >> /\ Head(x[1]) = h
    BY GrantPaths, PathFacts, LeadingStarts DEF PathsOf
  <2> QED BY <2>1 DEF BeginsWith, Takes
<1>3. KeptPatterns(patterns, f) = UNION {PathsOf(after, h) : h \in FoldersOf(after)}
  <2>1. ASSUME NEW s
        PROVE  s \in KeptPatterns(patterns, f) <=> \E h \in FoldersOf(after) : s \in PathsOf(after, h)
    <3>1. s \in patterns <=> \E h \in FoldersOf(g) : s \in PathsOf(g, h) BY DEF ListsFor
    <3> QED BY <1>1, <1>2, <3>1 DEF KeptPatterns
  <2> QED BY <2>1
<1>4. ~ BeginsWith(Root[1], f) BY DEF Root, BeginsWith
<1>5. ASSUME NEW h \in FoldersOf(after) PROVE Root \in kept /\ Complete(kept, PathsOf(after, h))
  <2>1. Root \in prefixes /\ Complete(prefixes, PathsOf(g, h)) /\ ~ Takes(f, h) /\ h \in FoldersOf(g)
    BY <1>1, <1>5 DEF ListsFor
  <2>2. ASSUME NEW s \in PathsOf(g, h)
        PROVE  /\ <<s, "">> \in kept
               /\ \A a \in Above(s) : <<a, "">> \in kept /\ (<<a, "/">> \in kept \/ a \in PathsOf(g, h))
    <3>1. \A x \in Leading(s) : x \in prefixes => x \in kept BY <1>2, <2>1, <2>2
    <3>2. <<s, "">> \in Leading(s) /\ \A a \in Above(s) : <<a, "">> \in Leading(s) /\ <<a, "/">> \in Leading(s)
      BY DEF Leading
    <3> HIDE DEF kept
    <3> QED BY <2>1, <3>1, <3>2 DEF Complete
  <2> HIDE DEF kept
  <2>3. Complete(kept, PathsOf(g, h)) BY <2>2 DEF Complete
  <2> QED BY <1>1, <1>4, <2>1, <2>3 DEF kept
<1>6. ASSUME NEW x \in kept
      PROVE  x = Root \/ \E h \in FoldersOf(after) : \E s \in PathsOf(after, h) : x \in Leading(s)
  <2>1. x \in prefixes /\ ~ BeginsWith(x[1], f) OBVIOUS
  <2>2. CASE x # Root
    <3>1. PICK h \in FoldersOf(g) : \E s \in PathsOf(g, h) : x \in Leading(s) BY <2>1, <2>2 DEF ListsFor
    <3>2. ~ Takes(f, h) BY <1>2, <2>1, <3>1
    <3> QED BY <1>1, <3>1, <3>2
  <2> QED BY <2>2
<1>7. FoldersOf(after) = {} => left = {}
  <2>1. ASSUME FoldersOf(after) = {} PROVE \A x \in kept : x = Root BY <1>6, <2>1
  <2>2. FoldersOf(after) = {} => kept = {} \/ kept = {Root} BY <2>1
  <2> HIDE DEF kept
  <2>3. left = IF kept = {Root} THEN {} ELSE kept BY DEF KeptPrefixes, kept
  <2> QED BY <2>2, <2>3
<1>8. ASSUME NEW h \in FoldersOf(after) PROVE left = kept
  <2>1. PICK s : s \in PathsOf(after, h) BY SomePath DEF PathsOf
  <2>2. <<s, "">> \in kept BY <1>5, <2>1 DEF Complete
  <2>3. s # << >> BY <1>1, <2>1, GrantPaths, PathFacts DEF PathsOf
  <2>4. <<s, "">> # Root BY <2>3 DEF Root
  <2> HIDE DEF kept
  <2>5. left = IF kept = {Root} THEN {} ELSE kept BY DEF KeptPrefixes, kept
  <2> QED BY <2>2, <2>4, <2>5
<1> HIDE DEF kept, left
<1>9. \A h \in FoldersOf(after) : Root \in left /\ Complete(left, PathsOf(after, h))
  BY <1>5, <1>8
<1>10. \A x \in left : x = Root \/ \E h \in FoldersOf(after) : \E s \in PathsOf(after, h) : x \in Leading(s)
  BY <1>6, <1>7, <1>8
<1> QED BY <1>3, <1>7, <1>9, <1>10 DEF ListsFor, left

\* The paths that AddFolder goes through.
Whole(f, order) == IF order = << >> THEN << <<f>> >> ELSE [i \in DOMAIN order |-> <<f>> \o order[i]]

\* The paths of a grant, in whatever order, are its resources.
LEMMA OrderedPaths ==
  ASSUME NEW f, NEW P, IsFiniteSet(P), NEW order \in SetToSeqs(P), NEW whole, whole = Whole(f, order)
  PROVE  \E n \in Nat : n > 0 /\ DOMAIN whole = 1 .. n /\ Under(f, P) = Items(whole, n)
<1> DEFINE n == Cardinality(P)
<1>1. n \in Nat BY FS_CardinalityType
<1>2. order \in [1 .. n -> P] /\ \A i, j \in 1 .. n : i # j => order[i] # order[j]
  BY DEF SetToSeqs
<1>3. order \in Injection(1 .. n, P) BY <1>2 DEF Injection, IsInjective
<1>4. Cardinality(1 .. n) = n BY <1>1, FS_Interval
<1>5. order \in Surjection(1 .. n, P) BY <1>3, <1>4, FS_Injection
<1>6. \A p \in P : \E i \in 1 .. n : order[i] = p BY <1>5 DEF Surjection
<1> HIDE DEF n
<1>7. CASE n = 0
  <2>1. P = {}
    <3>1. \A i \in 1 .. n : FALSE BY <1>7
    <3> QED BY <1>6, <3>1
  <2>2. order = << >>
    <3>1. order \in Seq(P) /\ Len(order) = 0 BY <1>2, <1>7
    <3> QED BY <3>1
  <2>3. Under(f, P) = {<<f>>} BY <2>1 DEF Under
  <2> DEFINE all == <<f>>
  <2>4. whole = <<all>> BY <2>2 DEF Whole
  <2>5. Under(f, P) = {all} BY <2>3
  <2> HIDE DEF all
  <2>6. DOMAIN whole = 1 .. 1 /\ whole[1] = all BY <2>4
  <2>7. Under(f, P) = Items(whole, 1) BY <2>5, <2>6 DEF Items
  <2> QED BY <2>6, <2>7
<1>8. CASE n # 0
  <2>1. 1 \in 1 .. n /\ order[1] \in P BY <1>1, <1>2, <1>8
  <2>2. P # {} BY <2>1
  <2>3. order # << >>
    <3>1. DOMAIN order = 1 .. n BY <1>2
    <3>2. DOMAIN << >> = {} OBVIOUS
    <3> QED BY <2>1, <3>1, <3>2
  <2>4. whole = [i \in 1 .. n |-> <<f>> \o order[i]] BY <1>2, <2>3 DEF Whole
  <2>5. DOMAIN whole = 1 .. n BY <2>4
  <2>6. \A i \in 1 .. n : whole[i] = <<f>> \o order[i] BY <2>4
  <2>7. Under(f, P) = {<<f>> \o p : p \in P} BY <2>2 DEF Under
  <2>8. ASSUME NEW r PROVE (\E i \in 1 .. n : r = whole[i]) <=> \E p \in P : r = <<f>> \o p
    <3>1. ASSUME NEW i \in 1 .. n PROVE order[i] \in P /\ whole[i] = <<f>> \o order[i] BY <1>2, <2>6
    <3>2. ASSUME NEW p \in P PROVE \E i \in 1 .. n : whole[i] = <<f>> \o p
      <4>1. PICK i \in 1 .. n : order[i] = p BY <1>6
      <4> QED BY <2>6, <4>1
    <3> QED BY <3>1, <3>2
  <2>9. Under(f, P) = Items(whole, n) BY <2>7, <2>8 DEF Items
  <2>11. n > 0 BY <1>1, <1>8
  <2> QED BY <1>1, <2>5, <2>9, <2>11
<1> QED BY <1>7, <1>8

\* A grant adds what leads to its paths, of which the lists have nothing yet.
LEMMA ListsAfterGrant ==
  ASSUME IsFiniteSet(Paths), NEW g \in GrantsOf, NEW f \in Folders, g[f] = NoGrant,
         NEW prefixes, NEW patterns, ListsFor(prefixes, patterns, g),
         NEW q \in Grants, NEW order \in SetToSeqs(q.paths), NEW whole, whole = Whole(f, order),
         NEW after, after = [g EXCEPT ![f] = q]
  PROVE  ListsFor(PrefixesAdded(prefixes, whole), patterns \cup Under(f, q.paths), after)
<1> DEFINE P == Under(f, q.paths)
           R == PrefixesAdded(prefixes, whole)
<1>1. q.paths \in SUBSET Paths /\ IsFiniteSet(q.paths) /\ q # NoGrant
  BY FS_Subset, S3AccessPolicyAssumption DEF Grants
<1>2. PICK n \in Nat : n > 0 /\ DOMAIN whole = 1 .. n /\ P = Items(whole, n)
  BY <1>1, OrderedPaths
<1>3. /\ FoldersOf(after) = FoldersOf(g) \cup {f} /\ f \notin FoldersOf(g)
      /\ PathsOf(after, f) = P /\ \A h \in FoldersOf(g) : PathsOf(after, h) = PathsOf(g, h)
  BY <1>1 DEF FoldersOf, GrantsOf, PathsOf, Names
<1>4. ASSUME NEW s \in P PROVE NothingAbove(prefixes, s)
  <2> SUFFICES ASSUME NEW a \in Above(s) PROVE <<a, "">> \notin prefixes /\ <<a, "">> # Root
    BY DEF NothingAbove
  <2>1. a # << >> /\ Head(a) = f BY <1>1, PathFacts
  <2>2. <<a, "">> # Root BY <2>1 DEF Root
  <2>3. ASSUME <<a, "">> \in prefixes PROVE FALSE
    <3>1. PICK h \in FoldersOf(g) : \E t \in PathsOf(g, h) : <<a, "">> \in Leading(t)
      BY <2>2, <2>3 DEF ListsFor
    <3>2. Head(<<a, "">>[1]) = h BY <3>1, GrantPaths, LeadingStarts DEF PathsOf
    <3> QED BY <1>3, <2>1, <3>1, <3>2
  <2> QED BY <2>2, <2>3
<1>5. \A i \in 1 .. n : NothingAbove(prefixes, whole[i])
  <2>1. \A i \in 1 .. n : whole[i] \in P BY <1>2 DEF Items
  <2> HIDE DEF P
  <2> QED BY <1>4, <2>1
<1>6. /\ Complete(R, P) /\ Sound(R, prefixes, P)
      /\ prefixes \subseteq R /\ Root \in R
  BY <1>2, <1>5, FoldLists
<1> HIDE DEF P, R
<1>7. patterns \cup P = UNION {PathsOf(after, h) : h \in FoldersOf(after)}
  <2>1. ASSUME NEW s PROVE s \in patterns \cup P <=> \E h \in FoldersOf(after) : s \in PathsOf(after, h)
    <3>1. s \in patterns <=> \E h \in FoldersOf(g) : s \in PathsOf(g, h) BY DEF ListsFor
    <3> QED BY <1>3, <3>1
  <2> QED BY <2>1
<1>8. ASSUME NEW h \in FoldersOf(after) PROVE Root \in R /\ Complete(R, PathsOf(after, h))
  BY <1>3, <1>6, CompleteGrows DEF ListsFor
<1>9. ASSUME NEW x \in R
      PROVE  x = Root \/ \E h \in FoldersOf(after) : \E s \in PathsOf(after, h) : x \in Leading(s)
  <2>1. CASE x \in prefixes BY <1>3, <2>1 DEF ListsFor
  <2>2. CASE \E s \in P : x \in Leading(s) BY <1>3, <2>2
  <2> QED BY <1>6, <2>1, <2>2 DEF Sound
<1> QED BY <1>3, <1>7, <1>8, <1>9 DEF ListsFor, P, R

-----------------------------------------------------------------------------
(* The property *)

\* Leading to a path, as the property says it and as the code lists it.
LEMMA LeadsIs ==
  ASSUME NEW s \in Seq(Names \cup Segments), s # << >>, NEW x
  PROVE  /\ x \in Leading(s) \cup {Root} => LeadsTo(x, s)
         /\ LeadsTo(x, s) /\ x[1] \in Seq(Names \cup Segments) /\ x[1] # << >> =>
              x = <<s, "">> \/ x[1] \in Above(s)
<1> DEFINE U == Names \cup Segments
<1>1. ASSUME NEW a \in Above(s) PROVE IsStrictPrefix(a, s)
  <2>1. PICK k \in 1 .. Len(s) - 1 : a = SubSeq(s, 1, k) BY DEF Above
  <2>2. a \in Seq(U) /\ Len(a) = k /\ k <= Len(s) /\ a # s BY <2>1
  <2>3. SubSeq(a, 1, k) = SubSeq(s, 1, k) BY <2>1, <2>2
  <2> QED BY <2>2, <2>3 DEF IsStrictPrefix, IsPrefix
<1>2. ASSUME x \in Leading(s) PROVE LeadsTo(x, s)
  <2>1. x = <<s, "">> \/ x \in Above(s) \X {"", "/"} BY <1>2 DEF Leading
  <2>2. CASE x \in Above(s) \X {"", "/"}
    <3>1. x[1] \in Above(s) BY <2>2
    <3> QED BY <1>1, <3>1 DEF LeadsTo
  <2> QED BY <2>1, <2>2 DEF LeadsTo
<1>3. ASSUME x = Root PROVE LeadsTo(x, s)
  <2>1. x[1] = << >> BY <1>3 DEF Root
  <2>2. IsStrictPrefix(<< >>, s) BY DEF IsStrictPrefix, IsPrefix
  <2> QED BY <2>1, <2>2 DEF LeadsTo
<1>4. ASSUME NEW a \in Seq(U), a # << >>, IsStrictPrefix(a, s) PROVE a \in Above(s)
  <2>1. Len(a) \in Nat /\ Len(a) > 0 /\ Len(a) <= Len(s) /\ a # s
        /\ SubSeq(a, 1, Len(a)) = SubSeq(s, 1, Len(a))
    BY <1>4 DEF IsStrictPrefix, IsPrefix
  <2>2. a = SubSeq(s, 1, Len(a)) BY <2>1
  <2>3. Len(a) # Len(s) BY <2>1, <2>2
  <2>4. Len(a) \in 1 .. Len(s) - 1 BY <2>1, <2>3
  <2> QED BY <2>2, <2>4 DEF Above
<1> QED BY <1>2, <1>3, <1>4 DEF LeadsTo

LEMMA DirectoryIs ==
  ASSUME NEW a \in Directories
  PROVE  a \in Seq(Names \cup Segments) /\ a # << >>
<1> DEFINE U == Names \cup Segments
<1>1. PICK f \in Folders, p \in Paths : a \in Prefixes(<<f>> \o p) BY DEF Directories
<1>2. <<f>> \o p \in Seq(U)
  <2>1. p \in Seq(U) /\ <<f>> \in Seq(U) BY S3AccessPolicyAssumption DEF Names
  <2> QED BY <2>1
<1>3. PICK l \in 0 .. Len(<<f>> \o p) : a = SubSeq(<<f>> \o p, 1, l) BY <1>1 DEF Prefixes
<1>4. a \in Seq(U) BY <1>2, <1>3
<1> QED BY <1>4 DEF Directories

LEMMA AskedIs ==
  ASSUME NEW x \in Asked, x # Root
  PROVE  /\ x[1] \in Seq(Names \cup Segments) /\ x[1] # << >>
         /\ x[2] \in {"", "/"} /\ x = <<x[1], x[2]>>
<1> DEFINE marks == {"", "/"}
<1>1. x \in Directories \X marks BY DEF Asked
<1> HIDE DEF marks
<1>2. x[1] \in Directories /\ x[2] \in marks /\ x = <<x[1], x[2]>> BY <1>1
<1> QED BY <1>2, DirectoryIs DEF marks

\* The inductive invariant: the lists are those of the folders granted, but for
\* those whose prefixes went.
ListsInv ==
  /\ DocShape(doc)
  /\ granted \in GrantsOf /\ unlisted \subseteq Folders
  /\ ListsFor(doc.listFolder, doc.listSubFolders, Listed)

LEMMA ListedIs ==
  ASSUME granted \in GrantsOf
  PROVE  /\ Listed \in GrantsOf /\ FoldersOf(Listed) = FoldersOf(granted) \ unlisted
         /\ \A f \in FoldersOf(Listed) : PathsOf(Listed, f) = PathsOf(granted, f)
BY DEF GrantsOf, Listed, FoldersOf, PathsOf, Names

LEMMA ListedWhenListed == ListsInv => FoldersListedAsGranted
<1> SUFFICES ASSUME ListsInv, NEW x \in Asked
             PROVE  CanList(x) <=> \E f \in Granted(Folders) \ unlisted : \E s \in GrantedPaths(f) : LeadsTo(x, s) \/ Below(x, s)
  BY DEF FoldersListedAsGranted
<1> DEFINE lists == doc.listFolder
           patterns == doc.listSubFolders
           g == Listed
<1>1. Granted(Folders) \ unlisted = FoldersOf(g) /\ \A f \in FoldersOf(g) : GrantedPaths(f) = PathsOf(g, f)
  <2>1. Granted(Folders) = FoldersOf(granted) /\ \A f \in Folders : GrantedPaths(f) = PathsOf(granted, f)
    BY DEF Granted, FoldersOf, GrantedPaths, PathsOf
  <2>2. \A f \in FoldersOf(g) : f \in Folders BY DEF FoldersOf
  <2> QED BY <2>1, <2>2, ListedIs DEF ListsInv
<1>2. ListsFor(lists, patterns, g) /\ g \in GrantsOf BY ListedIs DEF ListsInv
<1>3. CanList(x) <=> x \in lists \/ \E s \in patterns : Below(x, s) BY DEF CanList
<1> HIDE DEF lists, patterns, g
<1>4. \A s : s \in patterns <=> \E f \in FoldersOf(g) : s \in PathsOf(g, f) BY <1>2 DEF ListsFor
<1>5. ASSUME NEW f \in FoldersOf(g), NEW s \in PathsOf(g, f)
      PROVE  f \in Folders /\ s \in Seq(Names \cup Segments) /\ s # << >>
  BY <1>2, GrantPaths, PathFacts DEF PathsOf
<1>6. ASSUME x \in lists
      PROVE  \E f \in FoldersOf(g) : \E s \in PathsOf(g, f) : LeadsTo(x, s)
  <2>1. CASE x = Root
    <3>1. PICK f \in FoldersOf(g) : TRUE BY <1>2, <1>6 DEF ListsFor
    <3>2. PICK s : s \in PathsOf(g, f) BY SomePath DEF PathsOf
    <3>3. LeadsTo(x, s) BY <1>5, <2>1, <3>2, LeadsIs
    <3> QED BY <3>2, <3>3
  <2>2. CASE x # Root
    <3>1. PICK f \in FoldersOf(g) : \E s \in PathsOf(g, f) : x \in Leading(s)
      BY <1>2, <1>6, <2>2 DEF ListsFor
    <3>2. PICK s \in PathsOf(g, f) : x \in Leading(s) BY <3>1
    <3>3. LeadsTo(x, s) BY <1>5, <3>2, LeadsIs
    <3> QED BY <3>2, <3>3
  <2> QED BY <2>1, <2>2
<1>7. ASSUME NEW f \in FoldersOf(g), NEW s \in PathsOf(g, f), LeadsTo(x, s)
      PROVE  x \in lists \/ \E t \in patterns : Below(x, t)
  <2>1. Root \in lists /\ Complete(lists, PathsOf(g, f)) BY <1>2 DEF ListsFor
  <2>2. CASE x # Root
    <3>1. x[1] \in Seq(Names \cup Segments) /\ x[1] # << >> /\ x[2] \in {"", "/"} /\ x = <<x[1], x[2]>>
      BY <2>2, AskedIs
    <3>2. x = <<s, "">> \/ x[1] \in Above(s) BY <1>5, <1>7, <3>1, LeadsIs
    <3>3. CASE x = <<s, "">> BY <2>1, <3>3 DEF Complete
    <3>4. CASE x[1] \in Above(s)
      <4>1. /\ <<x[1], "">> \in lists
            /\ <<x[1], "/">> \in lists \/ x[1] \in PathsOf(g, f)
        BY <2>1, <3>4 DEF Complete
      <4>2. CASE x[2] = "/" /\ x[1] \in PathsOf(g, f)
        <5>1. \A a \in Seq(Names \cup Segments) : IsPrefix(a, a) BY DEF IsPrefix
        <5>2. Below(x, x[1]) BY <3>1, <4>2, <5>1 DEF Below
        <5> QED BY <1>4, <4>2, <5>2
      <4> QED BY <3>1, <4>1, <4>2
    <3> QED BY <3>2, <3>3, <3>4
  <2> QED BY <2>1, <2>2
<1>8. CanList(x) => \E f \in FoldersOf(g) : \E s \in PathsOf(g, f) : LeadsTo(x, s) \/ Below(x, s)
  BY <1>3, <1>4, <1>6
<1>9. ASSUME NEW f \in FoldersOf(g), NEW s \in PathsOf(g, f), LeadsTo(x, s) \/ Below(x, s)
      PROVE  CanList(x)
  BY <1>3, <1>4, <1>7, <1>9
<1>10. \A f \in FoldersOf(g) : f \in Folders BY DEF FoldersOf
<1> QED BY <1>1, <1>8, <1>9, <1>10

-----------------------------------------------------------------------------
(* The lists follow the grants *)

LEMMA ListsStart == Init => ListsInv
<1> SUFFICES ASSUME Init PROVE ListsInv OBVIOUS
<1>1. DocShape(doc) /\ doc.listFolder = {} /\ doc.listSubFolders = {} BY DEF Init, EmptyDoc, DocShape
<1>2. granted \in GrantsOf /\ unlisted = {} /\ FoldersOf(Listed) = {}
  BY DEF Init, GrantsOf, FoldersOf, Listed, Names
<1> QED BY <1>1, <1>2 DEF ListsInv, ListsFor

LEMMA ListsStep ==
  ASSUME IsFiniteSet(Paths), ListsInv, [Next]_vars
  PROVE  ListsInv'
<1> DEFINE lists == doc.listFolder
           patterns == doc.listSubFolders
           Rest(f) == [h \in Names |-> IF Takes(f, h) THEN NoGrant ELSE Listed[h]]
<1>0. /\ DocShape(doc) /\ granted \in GrantsOf /\ unlisted \subseteq Folders
      /\ ListsFor(lists, patterns, Listed) /\ Listed \in GrantsOf
  BY ListedIs DEF ListsInv
<1>1. ASSUME NEW b \in Buckets, NEW q \in Grants \cup {NoGrant},
             DocShape(doc'), doc'.listFolder = lists, doc'.listSubFolders = patterns,
             granted' = [granted EXCEPT ![b] = q], UNCHANGED unlisted
      PROVE  ListsInv'
  <2>1. granted' \in GrantsOf /\ FoldersOf(Listed') = FoldersOf(Listed)
        /\ \A f \in FoldersOf(Listed) : PathsOf(Listed', f) = PathsOf(Listed, f)
    BY <1>0, <1>1, S3AccessPolicyAssumption DEF GrantsOf, FoldersOf, PathsOf, Names, Listed
  <2>2. ListsFor(lists, patterns, Listed') BY <1>0, <2>1 DEF ListsFor
  <2> QED BY <1>0, <1>1, <2>1, <2>2 DEF ListsInv
<1>2. ASSUME NEW b \in Buckets, RevokeBucket(b) PROVE ListsInv'
  <2>1. DocShape(doc') /\ doc'.listFolder = lists /\ doc'.listSubFolders = patterns
    BY <1>0, <1>2 DEF RevokeBucket, RevokeAccess, DocShape
  <2> QED BY <1>1, <1>2, <2>1 DEF RevokeBucket
<1>3. ASSUME NEW b \in Buckets, NEW q \in Grants, GrantBucket(b, q) PROVE ListsInv'
  <2>1. DocShape(doc') /\ doc'.listFolder = lists /\ doc'.listSubFolders = patterns
    BY <1>0, <1>3 DEF GrantBucket, AddObjects, RevokeAccess, DocShape, Grants, Levels
  <2> QED BY <1>1, <1>3, <2>1 DEF GrantBucket
<1>4. ASSUME NEW f \in Folders
      PROVE  LET d == RevokeFolderAccess(doc, f)
                 g == Rest(f)
             IN  DocShape(d) /\ ListsFor(d.listFolder, d.listSubFolders, g) /\ g \in GrantsOf /\ g[f] = NoGrant
  <2> DEFINE d == RevokeFolderAccess(doc, f)
             g == Rest(f)
  <2>1. DocShape(d) /\ d.listFolder = KeptPrefixes(lists, f) /\ d.listSubFolders = KeptPatterns(patterns, f)
    <3> DEFINE A == KeptPrefixes(lists, f)
               B == KeptPatterns(patterns, f)
    <3>1. d = [doc EXCEPT !.readonly = RemoveResource(@, f), !.readwrite = RemoveResource(@, f),
                          !.meta = FALSE, !.listFolder = A, !.listSubFolders = B]
      BY DEF RevokeFolderAccess, KeptPrefixes, KeptPatterns
    <3> HIDE DEF d, A, B
    <3>2. DocShape(d) /\ d.listFolder = A /\ d.listSubFolders = B BY <1>0, <3>1 DEF DocShape
    <3> QED BY <3>2 DEF A, B
  <2>2. g \in GrantsOf /\ g[f] = NoGrant BY <1>0 DEF GrantsOf, Names, Takes
  <2>3. ListsFor(KeptPrefixes(lists, f), KeptPatterns(patterns, f), g) BY <1>0, ListsAfterRevoke
  <2> QED BY <2>1, <2>2, <2>3
\* What is listed once f has the grant q, or none, and others went with it.
<1>5. ASSUME NEW f \in Folders, NEW q \in Grants \cup {NoGrant}, granted' = [granted EXCEPT ![f] = q], Unlist(f)
      PROVE  /\ granted' \in GrantsOf /\ unlisted' \subseteq Folders
             /\ \A h \in Folders : Listed'[h] = [Rest(f) EXCEPT ![f] = q][h]
  <2>1. unlisted' = (unlisted \cup {h \in Folders : <<f, h>> \in Begins}) \ {f} BY <1>5 DEF Unlist
  <2>2. granted' \in GrantsOf BY <1>0, <1>5 DEF GrantsOf, Names
  <2>3. ASSUME NEW h \in Folders PROVE Listed'[h] = [Rest(f) EXCEPT ![f] = q][h]
    <3>1. CASE h = f BY <1>0, <1>5, <2>1, <3>1 DEF Listed, GrantsOf, Names
    <3>2. CASE h # f
      BY <1>0, <1>5, <2>1, <3>2, S3AccessPolicyAssumption DEF Listed, GrantsOf, Names, Takes
    <3> QED BY <3>1, <3>2
  <2> QED BY <1>0, <2>1, <2>2, <2>3
\* The lists speak of folders only.
<1>6. ASSUME NEW A, NEW B, NEW g \in GrantsOf, NEW k, \A h \in Folders : k[h] = g[h], ListsFor(A, B, g)
      PROVE  ListsFor(A, B, k)
  <2>1. FoldersOf(k) = FoldersOf(g) /\ \A h \in FoldersOf(g) : PathsOf(k, h) = PathsOf(g, h)
    BY <1>6 DEF FoldersOf, PathsOf
  <2> QED BY <1>6, <2>1 DEF ListsFor
<1>7. ASSUME NEW f \in Folders, RevokeFolder(f) PROVE ListsInv'
  <2> DEFINE g == Rest(f)
  <2>1. /\ DocShape(doc') /\ ListsFor(doc'.listFolder, doc'.listSubFolders, g)
        /\ g \in GrantsOf /\ g[f] = NoGrant
    BY <1>4, <1>7 DEF RevokeFolder
  <2>2. /\ granted' \in GrantsOf /\ unlisted' \subseteq Folders
        /\ \A h \in Folders : Listed'[h] = [g EXCEPT ![f] = NoGrant][h]
    BY <1>5, <1>7 DEF RevokeFolder
  <2> HIDE DEF g
  <2>3. \A h \in Folders : Listed'[h] = g[h] BY <2>1, <2>2 DEF GrantsOf, Names
  <2> QED BY <1>6, <2>1, <2>2, <2>3 DEF ListsInv
<1>8. ASSUME NEW f \in Folders, NEW q \in Grants, NEW order \in SetToSeqs(q.paths), GrantFolder(f, q, order)
      PROVE  ListsInv'
  <2> DEFINE d == RevokeFolderAccess(doc, f)
             g == Rest(f)
  <2>1. DocShape(d) /\ ListsFor(d.listFolder, d.listSubFolders, g) /\ g \in GrantsOf /\ g[f] = NoGrant BY <1>4
  <2> HIDE DEF d
  <2>2. /\ DocShape(doc') /\ doc'.listFolder = PrefixesAdded(d.listFolder, Whole(f, order))
        /\ doc'.listSubFolders = d.listSubFolders \cup Under(f, q.paths)
    BY <1>8, <2>1 DEF GrantFolder, AddFolder, AddObjects, DocShape, Grants, Levels, PrefixesAdded, Whole, d
  <2>3. /\ granted' \in GrantsOf /\ unlisted' \subseteq Folders
        /\ \A h \in Folders : Listed'[h] = [g EXCEPT ![f] = q][h]
    BY <1>5, <1>8 DEF GrantFolder
  <2> HIDE DEF g
  <2> DEFINE after == [g EXCEPT ![f] = q]
             A == d.listFolder
             B == d.listSubFolders
             whole == Whole(f, order)
  <2>4. ListsFor(A, B, g) /\ whole = Whole(f, order) /\ after = [g EXCEPT ![f] = q] BY <2>1
  <2>5. after \in GrantsOf BY <2>1 DEF GrantsOf, Names
  <2>6. \A h \in Folders : Listed'[h] = after[h] BY <2>3
  <2> HIDE DEF after, A, B, whole
  <2>7. ListsFor(PrefixesAdded(A, whole), B \cup Under(f, q.paths), after) BY <1>8, <2>1, <2>4, ListsAfterGrant
  <2>8. ListsFor(PrefixesAdded(A, whole), B \cup Under(f, q.paths), Listed') BY <1>6, <2>5, <2>6, <2>7
  <2>9. ListsFor(doc'.listFolder, doc'.listSubFolders, Listed') BY <2>2, <2>8 DEF A, B, whole
  <2> QED BY <2>2, <2>3, <2>9 DEF ListsInv
<1>9. CASE UNCHANGED vars BY <1>9 DEF vars, ListsInv, Listed, DocShape
<1> QED BY <1>2, <1>3, <1>7, <1>8, <1>9 DEF Next

\* For any folders, whatever their names, any finite set of paths and any order
\* of grants and revocations: a folder can be listed on the way to and below what
\* was granted last, and nowhere else, and not at all once one was granted or
\* revoked that its name begins with (aws.py grant_folder_access,
\* revoke_folder_access, remove_prefix).
THEOREM FolderListsAsGranted == IsFiniteSet(Paths) /\ Spec => []FoldersListedAsGranted
<1> SUFFICES ASSUME IsFiniteSet(Paths) PROVE Spec => []FoldersListedAsGranted
  OBVIOUS
<1>1. ListsInv /\ [Next]_vars => ListsInv' BY ListsStep
<1> QED BY <1>1, ListsStart, ListedWhenListed, PTL DEF Spec

-----------------------------------------------------------------------------
(*****************************************************************************)
(* Submissions and their confirmation: Previews                              *)
(*****************************************************************************)

Submissions ==
  [kind : {"grant"}, on : Datasources, to : Guests] \cup [kind : {"share"}, on : Analyses, to : {None}]
PageNames == {"home", "form", "submitted", "confirm", "register", "chosen", "preview"}
OfSource == {"form", "submit", "submitted", "look", "confirm"}
CallNames == {"none", "form", "submit", "look", "confirm", "register", "share", "preview", "post", "cancel"}
Carried == [shown : Nat, used : Nat, on : Datasources \cup Analyses, again : BOOLEAN]

\* A session holds submissions, each under its kind.
Holds(s, subs) ==
  /\ s \in [Kinds -> Nat]
  /\ \A k \in Kinds : s[k] # None => s[k] \in 1 .. Len(subs) /\ subs[s[k]].kind = k

\* A page that is to be confirmed shows a submission, and for its data source.
Shows(p, subs) ==
  /\ p \in [name : PageNames, on : Datasources \cup {None}, shown : Nat]
  /\ p.name \in OfSource => p.on \in Datasources
  /\ p.name \in {"confirm", "preview"} => p.shown \in 1 .. Len(subs)
  /\ p.name \notin {"confirm", "preview"} => p.shown = None
  /\ p.name = "confirm" => subs[p.shown].on = p.on

\* A request was asked for by the page that its tab shows.
AskedBy(c, p, subs) ==
  /\ c \in [name : CallNames, on : Datasources \cup {None}, read : [Kinds -> Nat]]
  /\ Holds(c.read, subs)
  /\ c.name \in OfSource => c.on \in Datasources
  /\ c.name = "confirm" => p.name = "confirm" /\ p.on = c.on
  /\ c.name = "post" => p.name = "preview"

PreviewsTypes ==
  /\ submitted \in Seq(Submissions) /\ Len(submitted) <= MaxSubmits
  /\ Holds(session, submitted)
  /\ page \in [Tabs -> [name : PageNames, on : Datasources \cup {None}, shown : Nat]]
  /\ call \in [Tabs -> [name : CallNames, on : Datasources \cup {None}, read : [Kinds -> Nat]]]
  /\ \A t \in Tabs : Shows(page[t], submitted) /\ AskedBy(call[t], page[t], submitted)
  /\ rows \subseteq Datasources \X (Guests \cup Staff) /\ shared \subseteq Analyses
  /\ confirmed \subseteq Carried /\ \A c \in confirmed : c.used \in 1 .. Len(submitted)
  /\ overlapped \in BOOLEAN /\ trips \in 0 .. MaxTrips

\* What was carried out was as shown, once; and what waits was not yet.
Once(cs, s, subs) ==
  /\ \A c \in cs : ~ c.again /\ ((c.used = c.shown /\ c.on = subs[c.used].on) \/ c.used > c.shown)
  /\ \A k \in Kinds : s[k] # None => \A c \in cs : c.used # s[k]

\* What waits is what a page shows, or was submitted after it.
Newer(p, s) ==
  /\ p.name = "confirm" /\ s["grant"] # None => s["grant"] >= p.shown
  /\ p.name = "preview" /\ s["share"] # None => s["share"] >= p.shown

\* Requests that do not overlap work on the session as it is.
PreviewsSerial ==
  /\ \A t \in Tabs : call[t] # NoCall =>
       call[t].read = session /\ \A u \in Tabs \ {t} : call[u] = NoCall
  /\ Once(confirmed, session, submitted)
  /\ \A t \in Tabs : Newer(page[t], session)

PreviewsInv == PreviewsTypes /\ (~ overlapped => PreviewsSerial)

-----------------------------------------------------------------------------
\* What was true of the submissions there were stays true of them.
LEMMA SubmissionsStay ==
  ASSUME submitted \in Seq(Submissions), NEW x \in Submissions, submitted' = Append(submitted, x)
  PROVE  /\ submitted' \in Seq(Submissions) /\ Len(submitted') = Len(submitted) + 1
         /\ \A i \in 1 .. Len(submitted) : submitted'[i] = submitted[i]
         /\ submitted'[Len(submitted) + 1] = x
OBVIOUS

LEMMA NoCallTyped == 
  ASSUME NEW p, NEW subs
  PROVE  AskedBy(NoCall, p, subs)
BY DEF NoCall, AskedBy, Holds, CallNames, OfSource, None

\* One answer: what it must leave for the rest to stay as it was.
LEMMA Answered ==
  ASSUME PreviewsInv, NEW t \in Tabs, NEW name \in CallNames \ {"none"}, NEW s, NEW next,
         Answer(t, name, s, next),
         submitted' \in Seq(Submissions), Len(submitted') <= MaxSubmits,
         Len(submitted') >= Len(submitted),
         \A i \in 1 .. Len(submitted) : submitted'[i] = submitted[i],
         Holds(s, submitted'), Shows(next, submitted'),
         rows' \subseteq Datasources \X (Guests \cup Staff), shared' \subseteq Analyses,
         confirmed' \subseteq Carried, \A c \in confirmed' : c.used \in 1 .. Len(submitted'),
         ~ overlapped => /\ Once(confirmed', s, submitted') /\ Newer(next, s)
                         /\ \A k \in Kinds : s[k] \in {None, session[k]} \/ s[k] > Len(submitted)
  PROVE  PreviewsInv'
<1>1. /\ session' = IF s = call[t].read THEN session ELSE s
      /\ page' = [page EXCEPT ![t] = next] /\ call' = [call EXCEPT ![t] = NoCall]
      /\ UNCHANGED <<overlapped, trips>> /\ call[t].name = name
  BY DEF Answer
<1>2. submitted \in Seq(Submissions) /\ Holds(session, submitted)
      /\ \A u \in Tabs : Shows(page[u], submitted) /\ AskedBy(call[u], page[u], submitted)
  BY DEF PreviewsInv, PreviewsTypes
<1>3. ASSUME NEW x, Holds(x, submitted) PROVE Holds(x, submitted')
  BY <1>2, <1>3 DEF Holds
<1>4. Holds(session', submitted') BY <1>1, <1>2, <1>3
<1>5. /\ page' \in [Tabs -> [name : PageNames, on : Datasources \cup {None}, shown : Nat]]
      /\ page'[t] = next /\ \A u \in Tabs \ {t} : page'[u] = page[u]
  BY <1>1 DEF PreviewsInv, PreviewsTypes, Shows
<1>6. /\ call' \in [Tabs -> [name : CallNames, on : Datasources \cup {None}, read : [Kinds -> Nat]]]
      /\ call'[t] = NoCall /\ \A u \in Tabs \ {t} : call'[u] = call[u]
  BY <1>1, NoCallTyped DEF PreviewsInv, PreviewsTypes, AskedBy
<1>7. ASSUME NEW u \in Tabs \ {t}
      PROVE  Shows(page[u], submitted') /\ AskedBy(call[u], page[u], submitted')
  <2>1. Shows(page[u], submitted') BY <1>2 DEF Shows
  <2>2. AskedBy(call[u], page[u], submitted') BY <1>2, <1>3 DEF AskedBy
  <2> QED BY <2>1, <2>2
<1>8. \A u \in Tabs : Shows(page'[u], submitted') /\ AskedBy(call'[u], page'[u], submitted')
  BY <1>5, <1>6, <1>7, NoCallTyped
<1>9. PreviewsTypes' BY <1>1, <1>4, <1>5, <1>6, <1>8 DEF PreviewsTypes, PreviewsInv
<1>10. ASSUME ~ overlapped PROVE PreviewsSerial'
  <2>1. PreviewsSerial BY <1>10 DEF PreviewsInv
  <2>2. call[t] # NoCall BY <1>1 DEF NoCall
  <2>3. call[t].read = session /\ \A u \in Tabs \ {t} : call[u] = NoCall
    BY <2>1, <2>2 DEF PreviewsSerial
  <2>4. session' = s BY <1>1, <2>3
  <2>5. ASSUME NEW u \in Tabs PROVE call'[u] = NoCall
    <3>1. CASE u = t BY <1>6, <3>1
    <3>2. CASE u # t
      <4>1. u \in Tabs \ {t} BY <3>2
      <4>2. call[u] = NoCall BY <2>3, <4>1
      <4>3. call'[u] = call[u] BY <1>6, <4>1
      <4> QED BY <4>2, <4>3
    <3> QED BY <3>1, <3>2
  <2>6. ASSUME NEW u \in Tabs \ {t} PROVE Newer(page[u], s)
    <3>1. Newer(page[u], session) /\ Shows(page[u], submitted) BY <1>2, <2>1 DEF PreviewsSerial
    <3>2. \A k \in Kinds : s[k] \in {None, session[k]} \/ s[k] > Len(submitted) BY <1>10
    <3>3. Len(submitted) \in Nat /\ s["grant"] \in Nat /\ s["share"] \in Nat
      BY <1>2 DEF Holds, Kinds
    <3>4. page[u].name \in {"confirm", "preview"} => page[u].shown \in 1 .. Len(submitted)
      BY <3>1 DEF Shows
    <3> QED BY <3>1, <3>2, <3>3, <3>4 DEF Newer, Kinds
  <2>7. \A u \in Tabs : Newer(page'[u], session') BY <1>5, <1>10, <2>4, <2>6
  <2> QED BY <1>10, <2>4, <2>5, <2>7 DEF PreviewsSerial
<1> QED BY <1>1, <1>9, <1>10 DEF PreviewsInv
-----------------------------------------------------------------------------
\* A request begins: it reads the session as it is.
LEMMA AskKeeps ==
  ASSUME PreviewsInv, NEW t \in Tabs, NEW name \in CallNames \ {"none"},
         NEW on \in Datasources \cup {None}, Ask(t, name, on),
         name \in OfSource => on \in Datasources,
         name = "confirm" => page[t].name = "confirm" /\ page[t].on = on,
         name = "post" => page[t].name = "preview"
  PROVE  PreviewsInv'
<1> DEFINE now == [name |-> name, on |-> on, read |-> session]
<1>1. /\ call' = [call EXCEPT ![t] = now]
      /\ overlapped' = (overlapped \/ \E u \in Tabs \ {t} : call[u] # NoCall)
      /\ UNCHANGED <<session, submitted, page, rows, shared, confirmed, trips>>
  BY DEF Ask
<1>2. AskedBy(now, page[t], submitted) BY DEF PreviewsInv, PreviewsTypes, AskedBy, Holds
<1>3. now.read = session OBVIOUS
<1> HIDE DEF now
<1>4. /\ call' \in [Tabs -> [name : CallNames, on : Datasources \cup {None}, read : [Kinds -> Nat]]]
      /\ call'[t] = now /\ \A u \in Tabs \ {t} : call'[u] = call[u]
  BY <1>1, <1>2 DEF PreviewsInv, PreviewsTypes, AskedBy
<1>5. \A u \in Tabs : AskedBy(call'[u], page[u], submitted)
  BY <1>2, <1>4 DEF PreviewsInv, PreviewsTypes
<1>6. PreviewsTypes' BY <1>1, <1>4, <1>5 DEF PreviewsTypes, PreviewsInv
<1>7. ASSUME ~ overlapped' PROVE PreviewsSerial'
  <2>1. ~ overlapped /\ \A u \in Tabs \ {t} : call[u] = NoCall BY <1>1, <1>7
  <2>2. PreviewsSerial BY <2>1 DEF PreviewsInv
  <2>3. \A u \in Tabs \ {t} : call'[u] = NoCall BY <1>4, <2>1
  <2> QED BY <1>1, <1>3, <1>4, <2>2, <2>3 DEF PreviewsSerial
<1> QED BY <1>6, <1>7 DEF PreviewsInv

\* A request ends, or rows are undone, and the session and the pages stay.
LEMMA StopKeeps ==
  ASSUME PreviewsInv, UNCHANGED <<session, submitted, page, confirmed, overlapped>>,
         \/ call' = call
         \/ \E t \in Tabs : call' = [call EXCEPT ![t] = NoCall],
         rows' \subseteq rows, shared' \subseteq shared, trips' \in 0 .. MaxTrips
  PROVE  PreviewsInv'
<1>1. /\ call' \in [Tabs -> [name : CallNames, on : Datasources \cup {None}, read : [Kinds -> Nat]]]
      /\ \A u \in Tabs : call'[u] \in {call[u], NoCall}
  <2>1. NoCall \in [name : CallNames, on : Datasources \cup {None}, read : [Kinds -> Nat]]
    BY NoCallTyped DEF AskedBy
  <2>2. call \in [Tabs -> [name : CallNames, on : Datasources \cup {None}, read : [Kinds -> Nat]]]
    BY DEF PreviewsInv, PreviewsTypes
  <2> QED BY <2>1, <2>2
<1>2. \A u \in Tabs : AskedBy(call'[u], page[u], submitted)
  BY <1>1, NoCallTyped DEF PreviewsInv, PreviewsTypes
<1>3. PreviewsTypes' BY <1>1, <1>2 DEF PreviewsTypes, PreviewsInv
<1>4. ASSUME ~ overlapped PROVE PreviewsSerial'
  BY <1>1, <1>4 DEF PreviewsInv, PreviewsSerial
<1> QED BY <1>3, <1>4 DEF PreviewsInv

\* What an answer may leave in the session: what was read, without one kind.
LEMMA ReadHolds ==
  ASSUME PreviewsInv, NEW t \in Tabs
  PROVE  /\ Holds(call[t].read, submitted)
         /\ \A kind \in Kinds : Holds(Without(t, kind), submitted)
         /\ call[t] # NoCall /\ ~ overlapped => call[t].read = session
         /\ \A kind \in Kinds : call[t] # NoCall /\ ~ overlapped =>
              \A k \in Kinds : Without(t, kind)[k] \in {None, session[k]}
<1>1. Holds(call[t].read, submitted) BY DEF PreviewsInv, PreviewsTypes, AskedBy
<1>2. \A kind \in Kinds : Holds(Without(t, kind), submitted)
  BY <1>1 DEF Holds, Without, None
<1>3. call[t] # NoCall /\ ~ overlapped => call[t].read = session
  BY DEF PreviewsInv, PreviewsSerial
<1>4. \A kind \in Kinds : call[t] # NoCall /\ ~ overlapped =>
        \A k \in Kinds : Without(t, kind)[k] \in {None, session[k]}
  BY <1>1, <1>3 DEF Holds, Without
<1> QED BY <1>1, <1>2, <1>3, <1>4

-----------------------------------------------------------------------------
(* One lemma per request *)

\* An answer that carries nothing out and leaves no page to confirm.
LEMMA QuietAnswer ==
  ASSUME PreviewsInv, NEW t \in Tabs, NEW name \in CallNames \ {"none"}, NEW s, NEW next,
         Answer(t, name, s, next), submitted' = submitted, confirmed' = confirmed,
         rows' \subseteq Datasources \X (Guests \cup Staff), shared' \subseteq Analyses,
         s \in {call[t].read, Without(t, "grant"), Without(t, "share")},
         Shows(next, submitted),
         ~ overlapped => Newer(next, s)
  PROVE  PreviewsInv'
<1>1. Holds(s, submitted) BY ReadHolds DEF Kinds
<1>2. call[t] # NoCall BY DEF Answer, NoCall
<1>3. ~ overlapped => \A k \in Kinds : s[k] \in {None, session[k]}
  BY <1>2, ReadHolds DEF Kinds
<1>4. ~ overlapped => Once(confirmed, s, submitted)
  BY <1>3 DEF PreviewsInv, PreviewsSerial, Once
<1>5. submitted \in Seq(Submissions) /\ Len(submitted) <= MaxSubmits /\ confirmed \subseteq Carried
      /\ \A c \in confirmed : c.used \in 1 .. Len(submitted)
  BY DEF PreviewsInv, PreviewsTypes
<1>6. ~ overlapped => /\ Once(confirmed', s, submitted') /\ Newer(next, s)
                      /\ \A k \in Kinds : s[k] \in {None, session[k]} \/ s[k] > Len(submitted)
  BY <1>3, <1>4
<1>7. Len(submitted') >= Len(submitted) BY <1>5
<1> QED BY <1>1, <1>5, <1>6, <1>7, Answered

\* A page that confirms nothing.
LEMMA PlainPage ==
  ASSUME NEW name \in PageNames \ {"confirm", "preview"}, NEW on \in Datasources \cup {None},
         name \in OfSource => on \in Datasources
  PROVE  \A s, subs : Newer(Page(name, on, None), s) /\ Shows(Page(name, on, None), subs)
BY DEF Newer, Shows, Page, None

\* The submission that waits is one of its kind.
LEMMA WaitingIs ==
  ASSUME PreviewsInv, NEW t \in Tabs, NEW kind \in Kinds, Waiting(t, kind) # None
  PROVE  /\ Waiting(t, kind) \in 1 .. Len(submitted)
         /\ submitted[Waiting(t, kind)] \in Submissions
         /\ submitted[Waiting(t, kind)].kind = kind
<1>1. Holds(call[t].read, submitted) BY ReadHolds
<1>2. submitted \in Seq(Submissions) BY DEF PreviewsInv, PreviewsTypes
<1> QED BY <1>1, <1>2 DEF Holds, Waiting

LEMMA CallIs ==
  ASSUME PreviewsInv, NEW t \in Tabs
  PROVE  /\ call[t].on \in Datasources \cup {None}
         /\ call[t].name \in OfSource => call[t].on \in Datasources
         /\ Shows(page[t], submitted)
         /\ AskedBy(call[t], page[t], submitted)
BY DEF PreviewsInv, PreviewsTypes, AskedBy

\* A submission waits under its kind, newer than any page and not yet used.
LEMMA SubmitAnswers ==
  ASSUME PreviewsInv, NEW t \in Tabs, NEW name \in CallNames \ {"none"}, NEW kind \in Kinds,
         NEW on, NEW to, [kind |-> kind, on |-> on, to |-> to] \in Submissions,
         NEW after \in PageNames \ {"confirm", "preview"}, NEW b \in Datasources \cup {None},
         after \in OfSource => b \in Datasources,
         Submits(kind, on, to),
         Answer(t, name, [call[t].read EXCEPT ![kind] = Len(submitted')], Page(after, b, None)),
         UNCHANGED <<rows, shared, confirmed>>
  PROVE  PreviewsInv'
<1> DEFINE x == [kind |-> kind, on |-> on, to |-> to]
           s == [call[t].read EXCEPT ![kind] = Len(submitted')]
           next == Page(after, b, None)
<1>1. /\ submitted' \in Seq(Submissions) /\ Len(submitted') = Len(submitted) + 1
      /\ \A i \in 1 .. Len(submitted) : submitted'[i] = submitted[i]
      /\ submitted'[Len(submitted) + 1] = x
      /\ Len(submitted) \in Nat /\ Len(submitted') <= MaxSubmits
  <2>1. submitted \in Seq(Submissions) BY DEF PreviewsInv, PreviewsTypes
  <2>2. Len(submitted) < MaxSubmits /\ submitted' = Append(submitted, x) BY DEF Submits
  <2>3. x \in Submissions OBVIOUS
  <2> HIDE DEF x
  <2> QED BY <2>1, <2>2, <2>3, PreviewsAssumption
<1>2. x.kind = kind OBVIOUS
<1> HIDE DEF x
<1>3. s[kind] = Len(submitted) + 1 /\ s \in [Kinds -> Nat]
      /\ \A k \in Kinds \ {kind} : s[k] = call[t].read[k]
  BY <1>1, ReadHolds DEF Holds
<1>4. Holds(call[t].read, submitted) BY ReadHolds
<1>5. call[t] # NoCall BY DEF Answer, NoCall
<1>6. ~ overlapped => call[t].read = session BY <1>5, ReadHolds
<1> HIDE DEF s
<1>7. Holds(s, submitted')
  <2>1. ASSUME NEW k \in Kinds, s[k] # None
        PROVE  s[k] \in 1 .. Len(submitted') /\ submitted'[s[k]].kind = k
    <3>1. CASE k = kind BY <1>1, <1>2, <1>3, <3>1
    <3>2. CASE k # kind BY <1>1, <1>3, <1>4, <2>1, <3>2 DEF Holds
    <3> QED BY <3>1, <3>2
  <2> QED BY <1>3, <2>1 DEF Holds
<1>8. Shows(next, submitted') /\ Newer(next, s) BY PlainPage
<1> HIDE DEF next
<1>9. confirmed \subseteq Carried /\ \A c \in confirmed : c.used \in 1 .. Len(submitted)
  BY DEF PreviewsInv, PreviewsTypes
<1>10. ASSUME ~ overlapped
       PROVE  /\ Once(confirmed, s, submitted')
              /\ \A k \in Kinds : s[k] \in {None, session[k]} \/ s[k] > Len(submitted)
  <2>1. Once(confirmed, session, submitted) BY <1>10 DEF PreviewsInv, PreviewsSerial
  <2>2. \A k \in Kinds : s[k] = session[k] \/ s[k] = Len(submitted) + 1
    BY <1>3, <1>6, <1>10
  <2>3. \A c \in confirmed : c.used # Len(submitted) + 1 BY <1>1, <1>9
  <2>4. Once(confirmed, s, submitted') BY <1>1, <1>9, <2>1, <2>2, <2>3 DEF Once
  <2> QED BY <1>1, <2>2, <2>4
<1>11. rows \subseteq Datasources \X (Guests \cup Staff) /\ shared \subseteq Analyses
  BY DEF PreviewsInv, PreviewsTypes
<1>12. Len(submitted') >= Len(submitted) BY <1>1
<1>13. Answer(t, name, s, next) BY DEF s, next
<1>14. \A c \in confirmed' : c.used \in 1 .. Len(submitted') BY <1>1, <1>9
<1> QED BY <1>1, <1>7, <1>8, <1>9, <1>10, <1>11, <1>12, <1>13, <1>14, Answered

\* The submission that waits is carried out: as shown, for the first time,
\* and no longer waits.
LEMMA ConfirmAnswers ==
  ASSUME PreviewsInv, NEW t \in Tabs, NEW kind \in Kinds, NEW on,
         Waiting(t, kind) # None,
         \/ kind = "grant" /\ page[t].name = "confirm" /\ on = call[t].on /\ call[t].name = "confirm"
         \/ kind = "share" /\ page[t].name = "preview" /\ on = submitted[Waiting(t, kind)].on
              /\ call[t].name = "post",
         Answer(t, call[t].name, Without(t, kind), page[t]),
         Confirms(t, Waiting(t, kind), on), submitted' = submitted,
         rows' \subseteq Datasources \X (Guests \cup Staff), shared' \subseteq Analyses
  PROVE  PreviewsInv'
<1> DEFINE n == Waiting(t, kind)
           s == Without(t, kind)
           c0 == [shown |-> page[t].shown, used |-> n, on |-> on,
                  again |-> \E c \in confirmed : c.used = n]
<1>1. n \in 1 .. Len(submitted) /\ submitted[n] \in Submissions /\ submitted[n].kind = kind
  BY WaitingIs
<1>2. Shows(page[t], submitted) /\ AskedBy(call[t], page[t], submitted) BY CallIs
<1>3. on \in Datasources \cup Analyses
  BY <1>1, <1>2 DEF AskedBy, OfSource, Submissions
<1>4. page[t].shown \in 1 .. Len(submitted) BY <1>2 DEF Shows
<1>5. submitted \in Seq(Submissions) /\ Len(submitted) <= MaxSubmits /\ Len(submitted) \in Nat
      /\ confirmed \subseteq Carried /\ \A c \in confirmed : c.used \in 1 .. Len(submitted)
  BY DEF PreviewsInv, PreviewsTypes
<1>6. confirmed' = confirmed \cup {c0} BY DEF Confirms
<1>7. c0 \in Carried /\ c0.used = n
  BY <1>1, <1>3, <1>4, <1>5 DEF Carried
<1>8. call[t] # NoCall BY DEF NoCall
<1>9. /\ Holds(s, submitted)
      /\ ~ overlapped => call[t].read = session /\ \A k \in Kinds : s[k] \in {None, session[k]}
      /\ s[kind] = None
  BY <1>8, ReadHolds DEF Without, Holds
<1>10. ASSUME ~ overlapped
       PROVE  Once(confirmed', s, submitted) /\ Newer(page[t], s)
  <2>1. /\ Once(confirmed, session, submitted) /\ Newer(page[t], session)
        /\ n = session[kind] /\ session[kind] # None
    BY <1>9, <1>10 DEF PreviewsInv, PreviewsSerial, Waiting
  <2>2. ~ c0.again BY <2>1 DEF Once
  <2>3. n >= page[t].shown BY <2>1 DEF Newer
  <2>4. (c0.used = c0.shown /\ c0.on = submitted[c0.used].on) \/ c0.used > c0.shown
    <3>1. CASE n = page[t].shown BY <1>2, <3>1 DEF Shows, AskedBy
    <3>2. CASE n # page[t].shown BY <1>1, <1>4, <1>5, <2>3, <3>2
    <3> QED BY <3>1, <3>2
  <2>5. \A k \in Kinds : s[k] # None => s[k] = session[k] /\ s[k] # n
    <3>1. \A k \in Kinds : s[k] # None => k # kind /\ s[k] = session[k] BY <1>9, <1>10
    <3>2. \A k \in Kinds : session[k] # None => submitted[session[k]].kind = k
      BY DEF PreviewsInv, PreviewsTypes, Holds
    <3> QED BY <1>1, <3>1, <3>2
  <2>6. Newer(page[t], s) BY <1>9, <1>10, <2>1 DEF Newer, Kinds
  <2> HIDE DEF c0, s, n
  <2>7. Once(confirmed', s, submitted) BY <1>6, <1>7, <2>1, <2>2, <2>4, <2>5 DEF Once
  <2> QED BY <2>6, <2>7
<1> HIDE DEF c0, s
<1>11. \A c \in confirmed' : c.used \in 1 .. Len(submitted') BY <1>1, <1>5, <1>6, <1>7
<1>12. ~ overlapped => /\ Once(confirmed', s, submitted') /\ Newer(page[t], s)
                       /\ \A k \in Kinds : s[k] \in {None, session[k]} \/ s[k] > Len(submitted)
  BY <1>9, <1>10
<1>13. call[t].name \in CallNames \ {"none"} BY DEF CallNames
<1>14. Answer(t, call[t].name, s, page[t]) BY DEF s
<1>15. Holds(s, submitted') /\ Shows(page[t], submitted') /\ confirmed' \subseteq Carried
       /\ Len(submitted') >= Len(submitted)
  BY <1>2, <1>5, <1>6, <1>7, <1>9
<1> QED BY <1>5, <1>11, <1>12, <1>13, <1>14, <1>15, Answered

LEMMA PreviewsInitHolds == PreviewsInit => PreviewsInv
<1> SUFFICES ASSUME PreviewsInit PROVE PreviewsInv OBVIOUS
<1>1. PreviewsTypes
  <2>1. Home \in [name : PageNames, on : Datasources \cup {None}, shown : Nat]
    BY DEF Home, Page, PageNames, None
  <2>2. NoCall \in [name : CallNames, on : Datasources \cup {None}, read : [Kinds -> Nat]]
    BY NoCallTyped DEF AskedBy
  <2>3. \A t \in Tabs : Shows(page[t], submitted) /\ AskedBy(call[t], page[t], submitted)
    BY NoCallTyped, PlainPage DEF PreviewsInit, Home, PageNames, OfSource
  <2>4. Holds(session, submitted) BY DEF PreviewsInit, Holds, None
  <2>5. submitted \in Seq(Submissions) /\ Len(submitted) <= MaxSubmits
    BY PreviewsAssumption DEF PreviewsInit
  <2>6. /\ page \in [Tabs -> [name : PageNames, on : Datasources \cup {None}, shown : Nat]]
        /\ call \in [Tabs -> [name : CallNames, on : Datasources \cup {None}, read : [Kinds -> Nat]]]
    BY <2>1, <2>2 DEF PreviewsInit
  <2>7. rows = {} /\ shared = {} /\ confirmed = {} /\ overlapped = FALSE /\ trips \in 0 .. MaxTrips
    BY PreviewsAssumption DEF PreviewsInit
  <2> QED BY <2>3, <2>4, <2>5, <2>6, <2>7 DEF PreviewsTypes
<1>2. PreviewsSerial
  BY PlainPage DEF PreviewsInit, PreviewsSerial, Once, Home, PageNames, OfSource
<1> QED BY <1>1, <1>2 DEF PreviewsInv

LEMMA AsksKeep ==
  ASSUME PreviewsInv, NEW t \in Tabs,
         \/ ToSubmit(t) \/ ToConfirm(t) \/ ToGrant(t) \/ \E b \in Datasources : ToForm(t, b)
         \/ ToRegister(t) \/ ToShare(t) \/ ToPreview(t) \/ ToPost(t) \/ ToCancel(t)
  PROVE  PreviewsInv'
<1>1. Shows(page[t], submitted) BY CallIs
<1>2. page[t].name \in {"form", "submitted", "confirm"} => page[t].on \in Datasources
  BY <1>1 DEF Shows, OfSource
<1>3. CASE ToSubmit(t) BY <1>2, <1>3, AskKeeps DEF ToSubmit, CallNames
<1>4. CASE ToConfirm(t) BY <1>2, <1>4, AskKeeps DEF ToConfirm, CallNames
<1>5. CASE ToGrant(t) BY <1>2, <1>5, AskKeeps DEF ToGrant, CallNames
<1>6. CASE \E b \in Datasources : ToForm(t, b) BY <1>6, AskKeeps DEF ToForm, CallNames
<1>7. CASE ToRegister(t) BY <1>7, AskKeeps DEF ToRegister, CallNames, OfSource
<1>8. CASE ToShare(t) BY <1>8, AskKeeps DEF ToShare, CallNames, OfSource
<1>9. CASE ToPreview(t) BY <1>9, AskKeeps DEF ToPreview, CallNames, OfSource
<1>10. CASE ToPost(t) BY <1>10, AskKeeps DEF ToPost, CallNames, OfSource
<1>11. CASE ToCancel(t) BY <1>11, AskKeeps DEF ToCancel, CallNames, OfSource
<1> QED BY <1>3, <1>4, <1>5, <1>6, <1>7, <1>8, <1>9, <1>10, <1>11

LEMMA GrantPagesKeep ==
  ASSUME PreviewsInv, NEW t \in Tabs,
         \/ OpenForm(t) \/ LookAtGrant(t) \/ \E g \in Guests : SubmitGuest(t, g)
         \/ \E u \in Staff : SubmitStaff(t, u)
  PROVE  PreviewsInv'
<1>1. call[t].on \in Datasources \cup {None}
      /\ (call[t].name \in OfSource => call[t].on \in Datasources)
  BY CallIs
<1>2. rows \subseteq Datasources \X (Guests \cup Staff) /\ shared \subseteq Analyses
  BY DEF PreviewsInv, PreviewsTypes
<1>3. CASE OpenForm(t)
  <2>1. call[t].name = "form" BY <1>3 DEF OpenForm, Answer
  <2>2. \A s : Shows(Page("form", call[t].on, None), submitted)
               /\ Newer(Page("form", call[t].on, None), s)
    BY <1>1, <2>1, PlainPage DEF PageNames, OfSource
  <2> QED BY <1>2, <1>3, <2>2, QuietAnswer DEF OpenForm, CallNames
<1>4. CASE LookAtGrant(t)
  <2> DEFINE n == AccessData(t)
  <2>1. call[t].name = "look" BY <1>4 DEF LookAtGrant, Answer
  <2>2. CASE n = None
    <3>1. \A s : Shows(Page("form", call[t].on, None), submitted)
                 /\ Newer(Page("form", call[t].on, None), s)
      BY <1>1, <2>1, PlainPage DEF PageNames, OfSource
    <3> QED BY <1>2, <1>4, <2>2, <3>1, QuietAnswer DEF LookAtGrant, CallNames
  <2>3. CASE n # None
    <3> DEFINE next == Page("confirm", call[t].on, n)
    <3>1. n = Waiting(t, "grant") /\ submitted[n].on = call[t].on BY <2>3 DEF AccessData
    <3>2. n \in 1 .. Len(submitted) BY <2>3, <3>1, WaitingIs DEF Kinds
    <3>3. Len(submitted) \in Nat BY DEF PreviewsInv, PreviewsTypes
    <3>4. Shows(next, submitted)
      BY <1>1, <2>1, <3>1, <3>2, <3>3 DEF Shows, Page, PageNames, OfSource
    <3>5. Newer(next, call[t].read) BY <3>1, <3>2, <3>3 DEF Newer, Page, Waiting
    <3>6. Answer(t, "look", call[t].read, next) BY <1>4, <2>3 DEF LookAtGrant
    <3> HIDE DEF next
    <3> QED BY <1>2, <1>4, <3>4, <3>5, <3>6, QuietAnswer DEF LookAtGrant, CallNames
  <2> QED BY <2>2, <2>3
<1>5. ASSUME NEW g \in Guests, SubmitGuest(t, g) PROVE PreviewsInv'
  <2>1. call[t].on \in Datasources BY <1>1, <1>5 DEF SubmitGuest, OfSource
  <2>2. [kind |-> "grant", on |-> call[t].on, to |-> g] \in Submissions BY <2>1 DEF Submissions
  <2> QED BY <1>5, <2>1, <2>2, SubmitAnswers DEF SubmitGuest, CallNames, PageNames, Kinds
<1>6. ASSUME NEW u \in Staff, SubmitStaff(t, u) PROVE PreviewsInv'
  <2>1. call[t].on \in Datasources BY <1>1, <1>6 DEF SubmitStaff, OfSource
  <2>2. \A s : Shows(Home, submitted) /\ Newer(Home, s)
    BY PlainPage DEF Home, PageNames, OfSource
  <2> QED BY <1>2, <1>6, <2>1, <2>2, QuietAnswer DEF SubmitStaff, CallNames
<1> QED BY <1>3, <1>4, <1>5, <1>6

LEMMA DashboardPagesKeep ==
  ASSUME PreviewsInv, NEW t \in Tabs,
         OpenRegister(t) \/ Preview(t) \/ Cancel(t) \/ \E d \in Analyses : Choose(t, d)
  PROVE  PreviewsInv'
<1>1. rows \subseteq Datasources \X (Guests \cup Staff) /\ shared \subseteq Analyses
  BY DEF PreviewsInv, PreviewsTypes
<1>2. \A s : /\ Shows(Page("register", None, None), submitted)
             /\ Newer(Page("register", None, None), s)
             /\ Shows(Home, submitted) /\ Newer(Home, s)
  BY PlainPage DEF Home, PageNames, OfSource
<1>3. CASE OpenRegister(t) BY <1>1, <1>2, <1>3, QuietAnswer DEF OpenRegister, CallNames
<1>4. CASE Cancel(t) BY <1>1, <1>2, <1>4, QuietAnswer DEF Cancel, CallNames
<1>5. CASE Preview(t)
  <2> DEFINE n == Waiting(t, "share")
  <2>1. CASE n = None BY <1>1, <1>2, <1>5, <2>1, QuietAnswer DEF Preview, CallNames
  <2>2. CASE n # None
    <3> DEFINE next == Page("preview", None, n)
    <3>1. n \in 1 .. Len(submitted) BY <2>2, WaitingIs DEF Kinds
    <3>2. Len(submitted) \in Nat BY DEF PreviewsInv, PreviewsTypes
    <3>3. Shows(next, submitted) BY <3>1, <3>2 DEF Shows, Page, PageNames, OfSource
    <3>4. Newer(next, call[t].read) BY <3>1, <3>2 DEF Newer, Page, Waiting
    <3>5. Answer(t, "preview", call[t].read, next) BY <1>5, <2>2 DEF Preview
    <3> HIDE DEF next
    <3> QED BY <1>1, <1>5, <3>3, <3>4, <3>5, QuietAnswer DEF Preview, CallNames
  <2> QED BY <2>1, <2>2
<1>6. ASSUME NEW d \in Analyses, Choose(t, d) PROVE PreviewsInv'
  <2>1. [kind |-> "share", on |-> d, to |-> None] \in Submissions BY DEF Submissions
  <2>2. "share" \in CallNames \ {"none"} /\ "share" \in Kinds
        /\ "chosen" \in PageNames \ {"confirm", "preview"} /\ "chosen" \notin OfSource
    BY DEF CallNames, Kinds, PageNames, OfSource
  <2>3. /\ Submits("share", d, None) /\ UNCHANGED <<rows, shared, confirmed>>
        /\ Answer(t, "share", [call[t].read EXCEPT !["share"] = Len(submitted')],
                  Page("chosen", None, None))
    BY <1>6 DEF Choose
  <2> QED BY <2>1, <2>2, <2>3, SubmitAnswers
<1> QED BY <1>3, <1>4, <1>5, <1>6

LEMMA ConfirmationsKeep ==
  ASSUME PreviewsInv, NEW t \in Tabs, ConfirmGrant(t) \/ Post(t)
  PROVE  PreviewsInv'
<1>1. rows \subseteq Datasources \X (Guests \cup Staff) /\ shared \subseteq Analyses
  BY DEF PreviewsInv, PreviewsTypes
<1>2. AskedBy(call[t], page[t], submitted) BY CallIs
<1>3. CASE ConfirmGrant(t)
  <2> DEFINE n == Waiting(t, "grant")
  <2>1. call[t].name = "confirm" /\ n # None BY <1>3 DEF ConfirmGrant
  <2>2. page[t].name = "confirm" /\ call[t].on \in Datasources
    BY <1>2, <2>1 DEF AskedBy, OfSource
  <2>3. submitted[n].to \in Guests BY <2>1, WaitingIs DEF Kinds, Submissions
  <2>4. rows' \subseteq Datasources \X (Guests \cup Staff) /\ shared' \subseteq Analyses
    BY <1>1, <1>3, <2>2, <2>3 DEF ConfirmGrant
  <2> QED BY <1>3, <2>1, <2>2, <2>4, ConfirmAnswers DEF ConfirmGrant, Kinds
<1>4. CASE Post(t)
  <2> DEFINE n == Waiting(t, "share")
  <2>1. call[t].name = "post" BY <1>4 DEF Post, Answer
  <2>2. page[t].name = "preview" BY <1>2, <2>1 DEF AskedBy
  <2>3. CASE n = None
    <3>1. Shows(page[t], submitted) BY CallIs
    <3>2. call[t] # NoCall BY <2>1 DEF NoCall
    <3>3. ASSUME ~ overlapped PROVE Newer(page[t], Without(t, "share"))
      BY <2>2, <3>2, <3>3, ReadHolds DEF Newer, Without, Holds, Kinds
    <3> QED BY <1>1, <1>4, <2>3, <3>1, <3>3, QuietAnswer DEF Post, CallNames
  <2>4. CASE n # None
    <3>1. submitted[n].on \in Analyses BY <2>4, WaitingIs DEF Kinds, Submissions
    <3>2. rows' \subseteq Datasources \X (Guests \cup Staff) /\ shared' \subseteq Analyses
      BY <1>1, <1>4, <2>4, <3>1 DEF Post
    <3> QED BY <1>4, <2>1, <2>2, <2>4, <3>2, ConfirmAnswers DEF Post, Kinds
  <2> QED BY <2>3, <2>4
<1> QED BY <1>3, <1>4

LEMMA PreviewsStepHolds == PreviewsInv /\ [PreviewsNext]_previewVars => PreviewsInv'
<1> SUFFICES ASSUME PreviewsInv, [PreviewsNext]_previewVars PROVE PreviewsInv' OBVIOUS
<1>1. trips \in 0 .. MaxTrips /\ (trips < MaxTrips => trips + 1 \in 0 .. MaxTrips)
  BY PreviewsAssumption DEF PreviewsInv, PreviewsTypes
<1>2. ASSUME NEW t \in Tabs, Fails(t) \/ ConfirmRaises(t) \/ PostRaises(t) PROVE PreviewsInv'
  BY <1>1, <1>2, StopKeeps DEF Fails, ConfirmRaises, PostRaises
<1>3. ASSUME NEW r \in rows, Revoked(r) PROVE PreviewsInv'
  BY <1>1, <1>3, StopKeeps DEF Revoked
<1>4. ASSUME NEW d \in shared, Unshare(d) PROVE PreviewsInv'
  BY <1>1, <1>4, StopKeeps DEF Unshare
<1>5. CASE UNCHANGED previewVars BY <1>1, <1>5, StopKeeps DEF previewVars
<1> QED BY <1>2, <1>3, <1>4, <1>5, AsksKeep, GrantPagesKeep, DashboardPagesKeep, ConfirmationsKeep
  DEF PreviewsNext

LEMMA PreviewsInvImplies == PreviewsInv => PreviewsTypeOK /\ ConfirmedOnceAsShown
<1> SUFFICES ASSUME PreviewsInv PROVE PreviewsTypeOK /\ ConfirmedOnceAsShown OBVIOUS
<1>1. PreviewsTypeOK
  <2>1. submitted \in Seq(Submissions) /\ Len(submitted) <= MaxSubmits BY DEF PreviewsInv, PreviewsTypes
  <2>2. DOMAIN submitted = 1 .. Len(submitted) /\ Len(submitted) \in Nat BY <2>1
  <2>3. session \in [Kinds -> {None} \cup Ids]
        /\ \A k \in Kinds : session[k] # None => submitted[session[k]].kind = k
    BY <2>1, <2>2, PreviewsAssumption DEF PreviewsInv, PreviewsTypes, Holds, Ids, None
  <2>4. \A t \in Tabs : page[t].shown \in {None} \cup DOMAIN submitted
    BY <2>2 DEF PreviewsInv, PreviewsTypes, Shows
  <2> QED BY <2>1, <2>2, <2>3, <2>4 DEF PreviewsInv, PreviewsTypes, PreviewsTypeOK
<1>2. ConfirmedOnceAsShown BY DEF PreviewsInv, PreviewsSerial, Once, ConfirmedOnceAsShown
<1> QED BY <1>1, <1>2

\* For any pages, tabs and drafts of one browser: while its requests do not
\* overlap, what is confirmed is what the page showed or what a tab submitted
\* since, and nothing is carried out twice (datasource.py GrantAccess,
\* dashboard.py RegisterDashboardPreview).
THEOREM ConfirmedAsShown == PreviewsSpec => []ConfirmedOnceAsShown
<1> QED BY PreviewsInitHolds, PreviewsStepHolds, PreviewsInvImplies, PTL DEF PreviewsSpec

-----------------------------------------------------------------------------
(*****************************************************************************)
(* The settings of an app: AppSettings                                       *)
(*****************************************************************************)

HeldValues == {"true", "false", "set", Absent}
Allowed(s) == Values[s[1]] \cup {Absent}
EditStates ==
  [step : {"begun", "create", "update", "delete"}, on : Settings, value : HeldValues, since : SUBSET HeldValues]
EditOK(e) ==
  \/ e = NoEdit
  \/ e \in EditStates /\ e.value \in Allowed(e.on) /\ e.since \subseteq Allowed(e.on)
ViewStates ==
  [step : {"list", "secrets", "variables", "status", "shown"},
   todo : SUBSET PageEnvs, now : SUBSET PageEnvs,
   read : SUBSET [env : PageEnvs, secret : BOOLEAN, required : BOOLEAN],
   message : BOOLEAN, offers : SUBSET (PageEnvs \X Offers), on : SUBSET PageEnvs,
   stood : SUBSET PageEnvs, knew : SUBSET PageEnvs]

Seen(v) == SeenIn(v.read)

\* What a page that is being gathered has not got yet it has still to read, or
\* says that it could not.
Honest(v, stands, knows) ==
  v # Blank =>
    /\ v.stood \subseteq stands /\ v.knew \subseteq knows
    /\ v.step \in {"secrets", "variables"} => v.stood \subseteq v.todo \cup Seen(v)
    /\ v.step = "variables" => v.now # {} /\ v.now \subseteq Seen(v)
    /\ v.step = "status" => v.message
    /\ v.step = "shown" =>
         /\ v.knew \subseteq v.on
         /\ \A e \in v.stood : <<e, "redundant">> \in v.offers => v.message

Asking(s) == {edit[a].value : a \in {b \in Editing : edit[b].on = s}}

SettingsInv ==
  /\ stored \in [Settings -> HeldValues] /\ could \in [Settings -> SUBSET HeldValues]
  /\ \A s \in Settings : stored[s] \in Allowed(s) /\ could[s] \subseteq Allowed(s)
  /\ standing \subseteq PageEnvs /\ known \subseteq PageEnvs
  /\ edit \in [Admins -> EditStates \cup {NoEdit}] /\ \A a \in Admins : EditOK(edit[a])
  /\ view \in [Readers -> ViewStates \cup {Blank}]
  /\ \A r \in Readers : Honest(view[r], standing, known)
  /\ edits \in 0 .. MaxSettings /\ hiccups \in 0 .. MaxHiccups
  /\ \A s \in Settings : stored[s] \in could[s] \cup Asking(s)

-----------------------------------------------------------------------------
LEMMA HiccupCounts == SettingsInv /\ (Hiccup \/ UNCHANGED hiccups) => hiccups' \in 0 .. MaxHiccups
BY SettingsAssumption DEF SettingsInv, Hiccup

LEMMA EditIs ==
  ASSUME SettingsInv, NEW a \in Admins, edit[a] # NoEdit
  PROVE  /\ edit[a] \in EditStates /\ edit[a].on \in Settings /\ edit[a].value \in HeldValues
         /\ edit[a].value \in Allowed(edit[a].on) /\ edit[a].since \subseteq Allowed(edit[a].on)
BY DEF SettingsInv, EditOK, EditStates

\* The requests change, the page does not.
LEMMA EditsKeep ==
  ASSUME SettingsInv, UNCHANGED <<standing, known, view>>,
         stored' \in [Settings -> HeldValues], could' \in [Settings -> SUBSET HeldValues],
         \A s \in Settings : stored'[s] \in Allowed(s) /\ could'[s] \subseteq Allowed(s),
         edit' \in [Admins -> EditStates \cup {NoEdit}], \A a \in Admins : EditOK(edit'[a]),
         edits' \in 0 .. MaxSettings, hiccups' \in 0 .. MaxHiccups,
         \A s \in Settings : stored'[s] \in could'[s] \cup Asking(s)'
  PROVE  SettingsInv'
BY DEF SettingsInv

\* One request moves on, and may have stored what it was for.
LEMMA MovesOn ==
  ASSUME SettingsInv, NEW a \in Admins, edit[a] # NoEdit,
         NEW step \in {"begun", "create", "update", "delete"},
         edit' = [edit EXCEPT ![a].step = step],
         Stores(a) \/ UNCHANGED stored,
         UNCHANGED <<standing, known, could, view, edits>>, Hiccup \/ UNCHANGED hiccups
  PROVE  SettingsInv'
<1> DEFINE now == [edit[a] EXCEPT !.step = step]
<1>1. edit[a] \in EditStates /\ edit[a].on \in Settings /\ edit[a].value \in HeldValues
      /\ edit[a].value \in Allowed(edit[a].on) /\ edit[a].since \subseteq Allowed(edit[a].on)
  BY EditIs
<1>2. now \in EditStates /\ now.on = edit[a].on /\ now.value = edit[a].value
      /\ now.since = edit[a].since
  BY <1>1 DEF EditStates
<1>3. now # NoEdit BY <1>2 DEF EditStates, NoEdit
<1>4. EditOK(now) BY <1>1, <1>2 DEF EditOK
<1>5. edit' = [edit EXCEPT ![a] = now] OBVIOUS
<1> HIDE DEF now
<1>6. edit' \in [Admins -> EditStates \cup {NoEdit}] /\ edit'[a] = now
      /\ \A b \in Admins \ {a} : edit'[b] = edit[b]
  BY <1>2, <1>5 DEF SettingsInv
<1>7. \A b \in Admins : EditOK(edit'[b]) BY <1>4, <1>6 DEF SettingsInv
<1>8. ASSUME NEW s \in Settings PROVE Asking(s)' = Asking(s)
  BY <1>2, <1>3, <1>6 DEF Asking, Editing
<1>9. /\ stored' \in [Settings -> HeldValues]
      /\ \A s \in Settings : stored'[s] = stored[s] \/ (s = edit[a].on /\ stored'[s] = edit[a].value)
  BY <1>1 DEF SettingsInv, Stores
<1>10. edit[a].value \in Asking(edit[a].on) BY <1>1 DEF Asking, Editing
<1>11. \A s \in Settings : stored'[s] \in could'[s] \cup Asking(s)'
  BY <1>8, <1>9, <1>10 DEF SettingsInv
<1>12. \A s \in Settings : stored'[s] \in Allowed(s) /\ could'[s] \subseteq Allowed(s)
  BY <1>1, <1>9 DEF SettingsInv
<1>13. hiccups' \in 0 .. MaxHiccups BY HiccupCounts
<1> QED BY <1>6, <1>7, <1>9, <1>11, <1>12, <1>13, EditsKeep DEF SettingsInv

\* One request ends: those under way on the same setting note its value.
LEMMA EndedKeeps ==
  ASSUME SettingsInv, NEW a \in Admins, edit[a] # NoEdit,
         edit' = [EndedOn(edit[a].on, edit[a].value) EXCEPT ![a] = NoEdit]
  PROVE  /\ edit' \in [Admins -> EditStates \cup {NoEdit}]
         /\ \A b \in Admins : EditOK(edit'[b])
         /\ \A s \in Settings : Asking(s) \subseteq
              Asking(s)' \cup (IF s = edit[a].on THEN {edit[a].value} ELSE {})
<1> DEFINE s0 == edit[a].on
           v0 == edit[a].value
<1>1. s0 \in Settings /\ v0 \in HeldValues /\ v0 \in Allowed(s0) BY EditIs
<1>2. ASSUME NEW b \in Admins, NEW e, e = EndedOn(s0, v0)[b]
      PROVE  /\ e \in EditStates \cup {NoEdit} /\ EditOK(e)
             /\ edit[b] # NoEdit => e # NoEdit /\ e.on = edit[b].on /\ e.value = edit[b].value
  <2>1. CASE edit[b] = NoEdit
    <3>1. e = NoEdit BY <1>2, <2>1 DEF EndedOn
    <3> QED BY <2>1, <3>1 DEF EditOK
  <2>2. CASE edit[b] # NoEdit /\ edit[b].on = s0
    <3>1. e = [edit[b] EXCEPT !.since = @ \cup {v0}] BY <1>2, <2>2 DEF EndedOn
    <3>2. edit[b] \in EditStates /\ edit[b].value \in Allowed(s0) /\ edit[b].since \subseteq Allowed(s0)
      BY <2>2, EditIs
    <3>3. e \in EditStates /\ e.on = s0 /\ e.value = edit[b].value /\ e.since = edit[b].since \cup {v0}
      BY <1>1, <2>2, <3>1, <3>2 DEF EditStates
    <3>4. e # NoEdit BY <3>3 DEF EditStates, NoEdit
    <3> QED BY <1>1, <2>2, <3>2, <3>3, <3>4 DEF EditOK
  <2>3. CASE edit[b] # NoEdit /\ edit[b].on # s0
    <3>1. e = edit[b] BY <1>2, <2>3 DEF EndedOn
    <3> QED BY <2>3, <3>1 DEF SettingsInv
  <2> QED BY <2>1, <2>2, <2>3
<1>3. edit' = [b \in Admins |-> IF b = a THEN NoEdit ELSE EndedOn(s0, v0)[b]]
  BY DEF EndedOn
<1> HIDE DEF s0, v0
<1>4. edit' \in [Admins -> EditStates \cup {NoEdit}] BY <1>2, <1>3
<1>5. ASSUME NEW b \in Admins PROVE EditOK(edit'[b])
  BY <1>2, <1>3 DEF EditOK
<1>6. ASSUME NEW s \in Settings, NEW b \in Admins, edit[b] # NoEdit, edit[b].on = s
      PROVE  edit[b].value \in Asking(s)' \cup (IF s = s0 THEN {v0} ELSE {})
  <2>1. CASE b = a BY <1>6, <2>1 DEF s0, v0
  <2>2. CASE b # a
    <3>1. edit'[b] = EndedOn(s0, v0)[b] BY <1>3, <2>2
    <3>2. edit'[b] # NoEdit /\ edit'[b].on = s /\ edit'[b].value = edit[b].value
      BY <1>2, <1>6, <3>1
    <3> QED BY <3>2 DEF Asking, Editing
  <2> QED BY <2>1, <2>2
<1>7. \A s \in Settings : Asking(s) \subseteq Asking(s)' \cup (IF s = s0 THEN {v0} ELSE {})
  BY <1>6 DEF Asking, Editing
<1> QED BY <1>4, <1>5, <1>7 DEF s0, v0

\* A request answers success, or an error that leaves open what it stored.
LEMMA EndKeeps ==
  ASSUME SettingsInv, NEW a \in Admins, edit[a] # NoEdit,
         \/ Stores(a) /\ Succeeds(a)
         \/ (Stores(a) \/ UNCHANGED stored) /\ Errs(a),
         UNCHANGED <<standing, known, view, edits>>, Hiccup \/ UNCHANGED hiccups
  PROVE  SettingsInv'
<1> DEFINE s0 == edit[a].on
           v0 == edit[a].value
<1>1. s0 \in Settings /\ v0 \in HeldValues /\ v0 \in Allowed(s0) /\ edit[a].since \subseteq Allowed(s0)
      /\ edit[a].since \subseteq HeldValues
  BY EditIs DEF EditStates
<1>2. edit' = [EndedOn(s0, v0) EXCEPT ![a] = NoEdit] BY DEF Succeeds, Errs
<1>3. /\ edit' \in [Admins -> EditStates \cup {NoEdit}] /\ \A b \in Admins : EditOK(edit'[b])
      /\ \A s \in Settings : Asking(s) \subseteq Asking(s)' \cup (IF s = s0 THEN {v0} ELSE {})
  BY <1>2, EndedKeeps
<1>4. /\ stored' \in [Settings -> HeldValues]
      /\ \A s \in Settings : stored'[s] = stored[s] \/ (s = s0 /\ stored'[s] = v0)
  BY <1>1 DEF SettingsInv, Stores
<1>5. /\ could' \in [Settings -> SUBSET HeldValues]
      /\ \A s \in Settings : s # s0 => could'[s] = could[s]
      /\ v0 \in could'[s0] /\ could'[s0] \subseteq Allowed(s0)
      /\ stored'[s0] = v0 \/ (could[s0] \subseteq could'[s0] /\ stored'[s0] = stored[s0])
  <2>1. CASE Stores(a) /\ Succeeds(a)
    <3>1. could' = [could EXCEPT ![s0] = edit[a].since \cup {v0}] BY <2>1 DEF Succeeds
    <3>2. stored'[s0] = v0 BY <1>1, <2>1 DEF Stores, SettingsInv
    <3> HIDE DEF s0, v0
    <3> QED BY <1>1, <3>1, <3>2 DEF SettingsInv
  <2>2. CASE (Stores(a) \/ UNCHANGED stored) /\ Errs(a)
    <3>1. could' = [could EXCEPT ![s0] = @ \cup {v0}] BY <2>2 DEF Errs
    <3>2. stored'[s0] = v0 \/ stored'[s0] = stored[s0] BY <1>1, <1>4
    <3> HIDE DEF s0, v0
    <3> QED BY <1>1, <3>1, <3>2 DEF SettingsInv
  <2> QED BY <2>1, <2>2
<1> HIDE DEF s0, v0
<1>6. \A s \in Settings : stored'[s] \in Allowed(s) /\ could'[s] \subseteq Allowed(s)
  BY <1>1, <1>4, <1>5 DEF SettingsInv
<1>7. ASSUME NEW s \in Settings PROVE stored'[s] \in could'[s] \cup Asking(s)'
  <2>1. stored[s] \in could[s] \cup Asking(s) BY DEF SettingsInv
  <2>2. CASE s # s0 BY <1>3, <1>4, <1>5, <2>1, <2>2
  <2>3. CASE s = s0 BY <1>3, <1>5, <2>1, <2>3
  <2> QED BY <2>2, <2>3
<1>8. hiccups' \in 0 .. MaxHiccups BY HiccupCounts
<1> QED BY <1>3, <1>4, <1>5, <1>6, <1>7, <1>8, EditsKeep DEF SettingsInv

LEMMA AskSettingKeeps ==
  ASSUME SettingsInv, NEW a \in Admins, NEW s \in Settings, NEW v \in Values[s[1]] \cup {Absent},
         AskSetting(a, s, v)
  PROVE  SettingsInv'
<1> DEFINE now == [step |-> "begun", on |-> s, value |-> v, since |-> {}]
<1>1. /\ edit[a] = NoEdit /\ edit' = [edit EXCEPT ![a] = now] /\ edits' = edits + 1
      /\ edits < MaxSettings /\ UNCHANGED <<stored, standing, known, could, view, hiccups>>
  BY DEF AskSetting
<1>2. v \in HeldValues /\ v \in Allowed(s)
  <2>1. s[1] \in {"variable", "secret"} BY DEF Settings
  <2> QED BY <2>1 DEF HeldValues, Allowed, Values
<1>3. now \in EditStates /\ EditOK(now) /\ now # NoEdit
  BY <1>2 DEF EditStates, EditOK, NoEdit
<1> HIDE DEF now
<1>4. edit' \in [Admins -> EditStates \cup {NoEdit}] /\ \A b \in Admins : EditOK(edit'[b])
  BY <1>1, <1>3 DEF SettingsInv
<1>5. \A x \in Settings : Asking(x) \subseteq Asking(x)'
  <2>1. \A b \in Admins : edit[b] # NoEdit => edit'[b] = edit[b] BY <1>1 DEF SettingsInv
  <2> QED BY <2>1 DEF Asking, Editing
<1>6. edits' \in 0 .. MaxSettings BY <1>1, SettingsAssumption DEF SettingsInv
<1> QED BY <1>1, <1>4, <1>5, <1>6, EditsKeep DEF SettingsInv

LEMMA EditStepKeeps ==
  ASSUME SettingsInv, NEW a \in Admins,
         FindRepository(a) \/ Creates(a) \/ NotCreated(a) \/ Updates(a) \/ Deletes(a) \/ EditFails(a)
  PROVE  SettingsInv'
<1>1. CASE FindRepository(a)
  <2>1. edit' = [edit EXCEPT ![a].step = IF edit[a].value = Absent THEN "delete" ELSE "create"]
        /\ edit[a] # NoEdit /\ UNCHANGED <<stored, standing, known, could, view, edits, hiccups>>
    BY <1>1 DEF FindRepository
  <2>2. CASE edit[a].value = Absent BY <2>1, <2>2, MovesOn
  <2>3. CASE edit[a].value # Absent BY <2>1, <2>3, MovesOn
  <2> QED BY <2>2, <2>3
<1>2. CASE NotCreated(a) BY <1>2, MovesOn DEF NotCreated
<1>3. CASE Creates(a) BY <1>3, EndKeeps DEF Creates
<1>4. CASE Updates(a) BY <1>4, EndKeeps DEF Updates
<1>5. CASE Deletes(a) BY <1>5, EndKeeps DEF Deletes
<1>6. CASE EditFails(a)
  <2>1. /\ edit[a] # NoEdit /\ Errs(a) /\ UNCHANGED <<standing, known, view, edits>>
        /\ Stores(a) \/ UNCHANGED stored
        /\ Hiccup \/ UNCHANGED hiccups
    BY <1>6 DEF EditFails
  <2> QED BY <2>1, EndKeeps
<1> QED BY <1>1, <1>2, <1>3, <1>4, <1>5, <1>6

-----------------------------------------------------------------------------
(* The page *)

LEMMA PageKeeps ==
  ASSUME SettingsInv, NEW r \in Readers, NEW v \in ViewStates \cup {Blank},
         view' = [view EXCEPT ![r] = v], Honest(v, standing, known),
         UNCHANGED <<stored, standing, known, edit, could, edits>>, Hiccup \/ UNCHANGED hiccups
  PROVE  SettingsInv'
<1>1. view' \in [Readers -> ViewStates \cup {Blank}]
      /\ \A x \in Readers : Honest(view'[x], standing, known)
  BY DEF SettingsInv
<1>2. \A s \in Settings : Asking(s)' = Asking(s) BY DEF Asking, Editing
<1>3. hiccups' \in 0 .. MaxHiccups BY HiccupCounts
<1> QED BY <1>1, <1>2, <1>3 DEF SettingsInv

LEMMA ViewIs ==
  ASSUME SettingsInv, NEW r \in Readers, view[r].step # "blank"
  PROVE  view[r] \in ViewStates /\ view[r] # Blank /\ Honest(view[r], standing, known)
BY DEF SettingsInv, Blank

LEMMA ReadingKeeps ==
  ASSUME SettingsInv, NEW r \in Readers,
         OpenPage(r) \/ ListEnvs(r) \/ ReadSecrets(r) \/ ReadVariables(r) \/ ReadStops(r)
  PROVE  SettingsInv'
<1> DEFINE v == view[r]
<1>1. standing \subseteq PageEnvs /\ known \subseteq PageEnvs BY DEF SettingsInv
<1>2. CASE OpenPage(r)
  <2> DEFINE now == [step |-> "list", todo |-> {}, now |-> {}, read |-> {}, message |-> FALSE,
                     offers |-> {}, on |-> {}, stood |-> standing, knew |-> known]
  <2>1. now \in ViewStates /\ Honest(now, standing, known) BY <1>1 DEF ViewStates, Honest
  <2> HIDE DEF now
  <2>2. view' = [view EXCEPT ![r] = now] BY <1>2 DEF OpenPage, now
  <2> QED BY <1>2, <2>1, <2>2, PageKeeps DEF OpenPage
<1>3. CASE ListEnvs(r)
  <2>1. v \in ViewStates /\ Honest(v, standing, known) /\ v # Blank BY <1>3, ViewIs DEF ListEnvs
  <2> DEFINE a == [v EXCEPT !.step = "secrets", !.todo = standing]
             b == [v EXCEPT !.step = "status", !.message = TRUE]
  <2>2. a \in ViewStates /\ Honest(a, standing, known)
    BY <1>1, <2>1 DEF ViewStates, Honest, Seen, SeenIn
  <2>3. b \in ViewStates /\ Honest(b, standing, known)
    BY <1>1, <2>1 DEF ViewStates, Honest, Seen, SeenIn
  <2>4. /\ UNCHANGED <<stored, standing, known, edit, could, edits>>
        /\ Hiccup \/ UNCHANGED hiccups
        /\ view' = [view EXCEPT ![r] = a] \/ view' = [view EXCEPT ![r] = b]
    BY <1>3 DEF ListEnvs
  <2> HIDE DEF a, b
  <2>5. CASE view' = [view EXCEPT ![r] = a] BY <2>2, <2>4, <2>5, PageKeeps
  <2>6. CASE view' = [view EXCEPT ![r] = b] BY <2>3, <2>4, <2>6, PageKeeps
  <2> QED BY <2>4, <2>5, <2>6
<1>4. CASE ReadSecrets(r)
  <2>1. v \in ViewStates /\ Honest(v, standing, known) /\ v # Blank BY <1>4, ViewIs DEF ReadSecrets
  <2>2. PICK e \in v.todo :
          view' = [view EXCEPT ![r].step = "variables", ![r].now = {e},
                               ![r].read = @ \cup {[env |-> e, required |-> TRUE,
                                 secret |-> stored[<<"secret", e>>] # Absent]}]
    BY <1>4 DEF ReadSecrets
  <2> DEFINE x == [env |-> e, required |-> TRUE, secret |-> stored[<<"secret", e>>] # Absent]
             a == [v EXCEPT !.step = "variables", !.now = {e}, !.read = @ \cup {x}]
  <2>3. e \in PageEnvs BY <2>1 DEF ViewStates
  <2>4. x \in [env : PageEnvs, secret : BOOLEAN, required : BOOLEAN] /\ x.env = e BY <2>3
  <2>5. view' = [view EXCEPT ![r] = a] BY <2>2
  <2>6. v.step = "secrets" BY <1>4 DEF ReadSecrets
  <2> HIDE DEF x
  <2>7. a \in ViewStates /\ Seen(a) = Seen(v) \cup {e} /\ a.todo = v.todo
        /\ a.stood = v.stood /\ a.knew = v.knew /\ a.step = "variables" /\ a.now = {e}
    BY <2>1, <2>3, <2>4 DEF ViewStates, Seen, SeenIn
  <2> HIDE DEF a
  <2>8. Honest(a, standing, known) BY <2>1, <2>6, <2>7 DEF Honest
  <2> QED BY <1>4, <2>5, <2>7, <2>8, PageKeeps DEF ReadSecrets
<1>5. CASE ReadVariables(r)
  <2>1. v \in ViewStates /\ Honest(v, standing, known) /\ v # Blank BY <1>5, ViewIs DEF ReadVariables
  <2> DEFINE e == CHOOSE x \in v.now : TRUE
             q == stored[<<"variable", e>>] # "false"
             read == {IF x.env = e THEN [x EXCEPT !.required = q] ELSE x : x \in v.read}
             a == [v EXCEPT !.step = "secrets", !.now = {}, !.todo = @ \ {e}, !.read = read]
  <2>2. e \in Seen(v) BY <1>5, <2>1 DEF Honest, ReadVariables
  <2>3. view' = [view EXCEPT ![r] = a] BY <1>5 DEF ReadVariables
  <2>4. q \in BOOLEAN OBVIOUS
  <2> HIDE DEF e, q
  <2>5. read \subseteq [env : PageEnvs, secret : BOOLEAN, required : BOOLEAN]
        /\ {x.env : x \in read} = Seen(v)
    <3> DEFINE f(x) == IF x.env = e THEN [x EXCEPT !.required = q] ELSE x
    <3>1. v.read \subseteq [env : PageEnvs, secret : BOOLEAN, required : BOOLEAN]
      BY <2>1 DEF ViewStates
    <3>2. \A x \in v.read : f(x) \in [env : PageEnvs, secret : BOOLEAN, required : BOOLEAN]
                            /\ f(x).env = x.env
      BY <2>4, <3>1
    <3>3. read = {f(x) : x \in v.read} OBVIOUS
    <3> HIDE DEF f, read
    <3>4. {x.env : x \in read} = {x.env : x \in v.read} BY <3>2, <3>3
    <3> QED BY <3>2, <3>3, <3>4 DEF Seen, SeenIn
  <2> HIDE DEF read
  <2>6. a \in ViewStates /\ Seen(a) = Seen(v) /\ a.todo = v.todo \ {e}
        /\ a.stood = v.stood /\ a.knew = v.knew /\ a.step = "secrets"
    BY <2>1, <2>5 DEF ViewStates, Seen, SeenIn
  <2> HIDE DEF a
  <2>7. v.step = "variables" BY <1>5 DEF ReadVariables
  <2>8. Honest(a, standing, known) BY <2>1, <2>2, <2>6, <2>7 DEF Honest
  <2> QED BY <1>5, <2>3, <2>6, <2>8, PageKeeps DEF ReadVariables
<1>6. CASE ReadStops(r)
  <2>1. v \in ViewStates /\ Honest(v, standing, known) /\ v # Blank BY <1>6, ViewIs DEF ReadStops
  <2> DEFINE a == [v EXCEPT !.step = "status", !.message = TRUE,
                            !.read = {x \in @ : x.env \notin v.now}]
  <2>2. a \in ViewStates /\ a.stood = v.stood /\ a.knew = v.knew /\ a.step = "status" /\ a.message
    BY <2>1 DEF ViewStates
  <2>3. view' = [view EXCEPT ![r] = a] BY <1>6 DEF ReadStops
  <2> HIDE DEF a
  <2>4. Honest(a, standing, known) BY <2>1, <2>2 DEF Honest
  <2>5. UNCHANGED <<stored, standing, known, edit, could, edits>> /\ (Hiccup \/ UNCHANGED hiccups)
    BY <1>6 DEF ReadStops
  <2> QED BY <2>2, <2>3, <2>4, <2>5, PageKeeps
<1> QED BY <1>2, <1>3, <1>4, <1>5, <1>6

\* What is shown: an environment that stood throughout was read, or the page
\* has a message.
LEMMA ShowKeeps ==
  ASSUME SettingsInv, NEW r \in Readers, Show(r)
  PROVE  SettingsInv'
<1> DEFINE v == view[r]
<1>1. v \in ViewStates /\ Honest(v, standing, known) /\ v # Blank
  BY ViewIs DEF Show
<1>2. PICK ok \in {known} \cup {known \ {e} : e \in known} :
        /\ IF ok = known THEN UNCHANGED hiccups ELSE Hiccup
        /\ view' = [view EXCEPT ![r].step = "shown", ![r].on = SeenIn(v.read) \cup known,
             ![r].offers = OffersOf(v.read, ok), ![r].read = {}, ![r].todo = {}, ![r].now = {}]
  BY DEF Show
<1> DEFINE seen == Seen(v)
           offers == OffersOf(v.read, ok)
           a == [v EXCEPT !.step = "shown", !.on = seen \cup known, !.offers = offers,
                          !.read = {}, !.todo = {}, !.now = {}]
<1>3. known \subseteq PageEnvs /\ seen \subseteq PageEnvs
  BY <1>1 DEF SettingsInv, ViewStates, Seen, SeenIn
<1>4. view' = [view EXCEPT ![r] = a] BY <1>2 DEF Seen
<1>5. offers \subseteq PageEnvs \X Offers
      /\ \A e : <<e, "redundant">> \in offers => e \in known \ seen
  <2>1. \A x \in v.read : x.env \in PageEnvs BY <1>3 DEF Seen, SeenIn
  <2>2. \A x : OfferOf(x, ok) \subseteq {"create", "remove"} BY DEF OfferOf
  <2>3. ASSUME NEW p \in offers
        PROVE  p \in PageEnvs \X {"create", "remove"} \/ p \in (known \ seen) \X {"redundant"}
    <3>1. CASE \E x \in v.read : p \in {x.env} \X OfferOf(x, ok) BY <2>1, <2>2, <3>1
    <3>2. CASE p \in (known \ SeenIn(v.read)) \X {"redundant"} BY <3>2 DEF Seen
    <3> QED BY <3>1, <3>2 DEF OffersOf
  <2> HIDE DEF seen, offers
  <2>4. \A p \in PageEnvs \X {"create", "remove"} : p \in PageEnvs \X Offers /\ p[2] # "redundant"
    BY DEF Offers
  <2>5. \A p \in (known \ seen) \X {"redundant"} : p \in PageEnvs \X Offers /\ p[1] \in known \ seen
    BY <1>3 DEF Offers
  <2>6. \A p \in offers : p \in PageEnvs \X Offers /\ (p[2] = "redundant" => p[1] \in known \ seen)
    BY <2>3, <2>4, <2>5
  <2> QED BY <2>6
<1> HIDE DEF offers, seen
<1>6. a \in ViewStates /\ a.on = seen \cup known /\ a.offers = offers /\ a.step = "shown"
      /\ a.stood = v.stood /\ a.knew = v.knew /\ a.message = v.message
  BY <1>1, <1>3, <1>5 DEF ViewStates
<1> HIDE DEF a
<1>7. v.stood \subseteq seen \/ v.message
  <2>1. v.step = "status" \/ (v.step = "secrets" /\ v.todo = {}) BY DEF Show
  <2> QED BY <1>1, <2>1 DEF Honest, seen
<1>8. Honest(a, standing, known)
  BY <1>1, <1>5, <1>6, <1>7 DEF Honest
<1> QED BY <1>2, <1>4, <1>6, <1>8, PageKeeps DEF Show

LEMMA LeavingKeeps ==
  ASSUME SettingsInv, NEW r \in Readers, PageFails(r) \/ LeavePage(r)
  PROVE  SettingsInv'
BY PageKeeps DEF PageFails, LeavePage, Honest

-----------------------------------------------------------------------------
(* What happens meanwhile *)

\* A page forgets what did not stand all the while.
LEMMA ForgetsKeeps ==
  ASSUME NEW stands \in SUBSET PageEnvs, NEW v \in ViewStates, Honest(v, standing, known), v # Blank
  PROVE  LET w == [v EXCEPT !.stood = @ \cap stands] IN
         w \in ViewStates /\ Honest(w, stands, known)
BY DEF ViewStates, Honest, Seen, SeenIn

LEMMA DeleteEnvKeeps ==
  ASSUME SettingsInv, NEW e \in PageEnvs, DeleteEnv(e)
  PROVE  SettingsInv'
<1>1. /\ standing' = standing \ {e} /\ UNCHANGED <<known, edits>> /\ Hiccup
      /\ stored' = [s \in Settings |-> IF s[2] = e THEN Absent ELSE stored[s]]
      /\ could' = [s \in Settings |-> IF s[2] = e THEN could[s] \cup {Absent} ELSE could[s]]
  BY DEF DeleteEnv
<1>2. /\ stored' \in [Settings -> HeldValues] /\ could' \in [Settings -> SUBSET HeldValues]
      /\ \A s \in Settings : stored'[s] \in Allowed(s) /\ could'[s] \subseteq Allowed(s)
  BY <1>1 DEF SettingsInv, HeldValues, Allowed
<1>3. /\ view' \in [Readers -> ViewStates \cup {Blank}]
      /\ \A r \in Readers : Honest(view'[r], standing', known')
  <2>1. view' = [r \in Readers |-> IF view[r] = Blank THEN Blank
                                   ELSE [view[r] EXCEPT !.stood = @ \cap standing']]
    BY DEF DeleteEnv, StillStands
  <2>2. standing' \in SUBSET PageEnvs /\ known' = known BY <1>1 DEF SettingsInv
  <2>3. ASSUME NEW r \in Readers
        PROVE  view'[r] \in ViewStates \cup {Blank} /\ Honest(view'[r], standing', known')
    <3>1. CASE view[r] = Blank BY <2>1, <3>1 DEF Honest
    <3>2. CASE view[r] # Blank BY <2>1, <2>2, <3>2, ForgetsKeeps DEF SettingsInv
    <3> QED BY <3>1, <3>2
  <2> QED BY <2>1, <2>3
<1>4. ASSUME NEW a \in Admins
      PROVE  /\ edit'[a] \in EditStates \cup {NoEdit} /\ EditOK(edit'[a])
             /\ edit[a] # NoEdit =>
                  edit'[a] # NoEdit /\ edit'[a].on = edit[a].on /\ edit'[a].value = edit[a].value
  <2>1. edit'[a] = IF edit[a] # NoEdit /\ edit[a].on[2] = e
                   THEN [edit[a] EXCEPT !.since = @ \cup {Absent}] ELSE edit[a]
    BY DEF DeleteEnv
  <2>2. CASE edit[a] # NoEdit /\ edit[a].on[2] = e
    <3>1. edit[a] \in EditStates /\ edit[a].value \in Allowed(edit[a].on)
          /\ edit[a].since \subseteq Allowed(edit[a].on)
      BY <2>2, EditIs
    <3>2. edit'[a] \in EditStates /\ edit'[a].on = edit[a].on /\ edit'[a].value = edit[a].value
          /\ edit'[a].since = edit[a].since \cup {Absent}
      BY <2>1, <2>2, <3>1 DEF EditStates, HeldValues
    <3>3. edit'[a] # NoEdit BY <3>2 DEF EditStates, NoEdit
    <3> QED BY <3>1, <3>2, <3>3 DEF EditOK, Allowed
  <2>3. CASE ~ (edit[a] # NoEdit /\ edit[a].on[2] = e)
    BY <2>1, <2>3 DEF SettingsInv
  <2> QED BY <2>2, <2>3
<1>5. edit' \in [Admins -> EditStates \cup {NoEdit}] BY <1>4 DEF DeleteEnv
<1>6. \A s \in Settings : Asking(s) \subseteq Asking(s)' BY <1>4 DEF Asking, Editing
<1>7. \A s \in Settings : stored'[s] \in could'[s] \cup Asking(s)'
  BY <1>1, <1>6 DEF SettingsInv
<1>8. hiccups' \in 0 .. MaxHiccups BY <1>1, HiccupCounts
<1> QED BY <1>1, <1>2, <1>3, <1>4, <1>5, <1>7, <1>8 DEF SettingsInv

LEMMA MeanwhileKeeps ==
  ASSUME SettingsInv, NEW e \in PageEnvs, MakeEnv(e) \/ SaveClient(e) \/ ClearClient(e)
  PROVE  SettingsInv'
<1>1. UNCHANGED <<stored, edit, could, edits>> /\ (Hiccup \/ UNCHANGED hiccups)
  BY DEF MakeEnv, SaveClient, ClearClient
<1>2. hiccups' \in 0 .. MaxHiccups BY <1>1, HiccupCounts
<1>3. \A s \in Settings : Asking(s)' = Asking(s) BY <1>1 DEF Asking, Editing
<1>4. standing' \subseteq PageEnvs /\ known' \subseteq PageEnvs
  BY DEF SettingsInv, MakeEnv, SaveClient, ClearClient
<1>5. /\ view' \in [Readers -> ViewStates \cup {Blank}]
      /\ \A r \in Readers : Honest(view'[r], standing', known')
  <2>1. CASE MakeEnv(e) \/ SaveClient(e)
    <3>1. standing \subseteq standing' /\ known \subseteq known' /\ view' = view
      BY <2>1 DEF MakeEnv, SaveClient
    <3> QED BY <3>1 DEF SettingsInv, Honest
  <2>2. CASE ClearClient(e)
    <3>1. view' = [r \in Readers |-> IF view[r] = Blank THEN Blank
                                     ELSE [view[r] EXCEPT !.knew = @ \ {e}]]
          /\ known' = known \ {e} /\ standing' = standing
      BY <2>2 DEF ClearClient
    <3>2. ASSUME NEW r \in Readers
          PROVE  view'[r] \in ViewStates \cup {Blank} /\ Honest(view'[r], standing', known')
      <4>1. CASE view[r] = Blank BY <3>1, <4>1 DEF Honest
      <4>2. CASE view[r] # Blank
        <5>1. view[r] \in ViewStates /\ Honest(view[r], standing, known)
          BY <4>2 DEF SettingsInv
        <5>2. view'[r] = [view[r] EXCEPT !.knew = @ \ {e}] BY <3>1, <4>2
        <5> QED BY <3>1, <4>2, <5>1, <5>2 DEF ViewStates, Honest, Seen, SeenIn
      <4> QED BY <4>1, <4>2
    <3> QED BY <3>1, <3>2
  <2> QED BY <2>1, <2>2
<1> QED BY <1>1, <1>2, <1>3, <1>4, <1>5 DEF SettingsInv

-----------------------------------------------------------------------------
LEMMA SettingsInitHolds == SettingsInit => SettingsInv
<1> SUFFICES ASSUME SettingsInit PROVE SettingsInv OBVIOUS
<1>1. \A s \in Settings : Absent \in Allowed(s) /\ Absent \in HeldValues BY DEF Allowed, HeldValues
<1>2. /\ stored \in [Settings -> HeldValues] /\ could \in [Settings -> SUBSET HeldValues]
      /\ \A s \in Settings : stored[s] = Absent /\ could[s] = {Absent}
  BY <1>1 DEF SettingsInit, HeldValues
<1> QED BY <1>1, <1>2, SettingsAssumption DEF SettingsInit, SettingsInv, EditOK, Honest

LEMMA SettingsStepHolds == SettingsInv /\ [SettingsNext]_settingVars => SettingsInv'
<1> SUFFICES ASSUME SettingsInv, [SettingsNext]_settingVars PROVE SettingsInv' OBVIOUS
<1>1. CASE UNCHANGED settingVars
  <2>1. \A s \in Settings : Asking(s)' = Asking(s) BY <1>1 DEF Asking, Editing, settingVars
  <2> QED BY <1>1, <2>1 DEF settingVars, SettingsInv
<1> QED BY <1>1, AskSettingKeeps, EditStepKeeps, ReadingKeeps, ShowKeeps, LeavingKeeps,
           DeleteEnvKeeps, MeanwhileKeeps
  DEF SettingsNext

LEMMA SettingsInvImplies == SettingsInv => SettingsTypeOK /\ SettingsPagesTrue
<1> SUFFICES ASSUME SettingsInv PROVE SettingsTypeOK /\ SettingsPagesTrue OBVIOUS
<1>1. SettingsTypeOK
  <2>1. \A a \in Admins : edit[a] = NoEdit \/ edit[a].step \in {"begun", "create", "update", "delete"}
    BY DEF SettingsInv, EditStates
  <2>2. ASSUME NEW r \in Readers PROVE ViewTypeOK(view[r])
    <3>1. view[r] = Blank \/ view[r] \in ViewStates BY DEF SettingsInv
    <3> QED BY <3>1 DEF ViewStates, ViewTypeOK
  <2> QED BY <2>1, <2>2 DEF SettingsInv, SettingsTypeOK, Allowed
<1>2. SuccessIsStored BY DEF SettingsInv, SuccessIsStored, Asking
<1>3. BlamedWithMessage
  <2> SUFFICES ASSUME NEW r \in Readers, view[r].step = "shown"
               PROVE  /\ view[r].knew \subseteq view[r].on
                      /\ \A e \in view[r].stood : <<e, "redundant">> \in view[r].offers
                           => view[r].message
    BY DEF BlamedWithMessage
  <2>1. Honest(view[r], standing, known) /\ view[r] # Blank BY ViewIs
  <2> QED BY <2>1 DEF Honest
<1> QED BY <1>1, <1>2, <1>3 DEF SettingsPagesTrue

\* Whatever requests change GitHub and the app while a page is gathered call by
\* call: success is told of what was stored, a page has every environment that
\* was known all along, and blames none that stood without saying that GitHub
\* failed (views/secrets.py, app.py AppDetail, serializers.py).
THEOREM SettingsTold == SettingsSpec => []SettingsPagesTrue
<1> QED BY SettingsInitHolds, SettingsStepHolds, SettingsInvImplies, PTL DEF SettingsSpec

-----------------------------------------------------------------------------
(*****************************************************************************)
(* The rules and the queries: Rights                                         *)
(*****************************************************************************)

\* The rows are of data sources that are there: those marked as deleted too.
RightsInv == RightsTypeOK /\ \A r \in accesses : r.on \in made

LEMMA RightsInitHolds == RightsInit => RightsInv
BY RightsAssumption DEF RightsInit, RightsInv, RightsTypeOK

LEMMA RightsStepHolds == RightsInv /\ [RightsNext]_rightVars => RightsInv'
<1> SUFFICES ASSUME RightsInv, [RightsNext]_rightVars PROVE RightsInv' OBVIOUS
<1> USE DEF RightsInv, RightsTypeOK
<1>1. ASSUME NEW v \in Users, NEW b \in Sources, CreateSource(v, b) PROVE RightsInv'
  <2> DEFINE x == [who |-> v, on |-> b, write |-> TRUE, admin |-> TRUE]
  <2>1. x \in Access /\ x.on = b BY DEF Access
  <2>2. accesses' = accesses \cup {x} /\ made' = made \cup {b} /\ b \notin made
        /\ UNCHANGED <<supers, pooled, members, userapps, links, gone>>
    BY <1>1 DEF CreateSource
  <2> HIDE DEF x
  <2> QED BY <2>1, <2>2
<1>2. ASSUME NEW v \in Users, NEW b \in Sources, NEW write \in BOOLEAN, NEW admin \in BOOLEAN,
             SetAccess(v, b, write, admin)
      PROVE  RightsInv'
  <2> DEFINE x == [who |-> v, on |-> b, write |-> write, admin |-> admin]
  <2>1. x \in Access /\ x.on = b /\ x.who = v BY DEF Access
  <2>2. accesses' = (accesses \ RowOf(v, b)) \cup {x} /\ b \in made
        /\ UNCHANGED <<supers, pooled, members, userapps, links, made, gone>>
    BY <1>2 DEF SetAccess, ByAdminOf
  <2> HIDE DEF x
  <2>3. accesses' \subseteq Access /\ \A r \in accesses' : r.on \in made BY <2>1, <2>2
  <2>4. ASSUME NEW r \in accesses', NEW s \in accesses', r.who = s.who, r.on = s.on PROVE r = s
    <3>1. \A y \in accesses : y.who = v /\ y.on = b => y \in RowOf(v, b) BY DEF RowOf
    <3> QED BY <2>1, <2>2, <2>4, <3>1
  <2> QED BY <2>2, <2>3, <2>4
<1>3. ASSUME NEW v \in Users, NEW a \in Apps, NEW admin \in BOOLEAN, AddAppAdmin(v, a, admin)
      PROVE  RightsInv'
  BY <1>3 DEF AddAppAdmin
<1>4. ASSUME NEW v \in Users, SetSuperuser(v) PROVE RightsInv' BY <1>4 DEF SetSuperuser
<1>5. ASSUME NEW b \in made, ShareWithGroup(b) PROVE RightsInv' BY <1>5 DEF ShareWithGroup
<1>6. ASSUME NEW b \in made, DeleteSource(b) PROVE RightsInv' BY <1>6 DEF DeleteSource
<1>7. ASSUME NEW r \in accesses, Revoke(r) PROVE RightsInv' BY <1>7 DEF Revoke
<1>8. ASSUME NEW x \in userapps, RevokeAppAdmin(x) PROVE RightsInv' BY <1>8 DEF RevokeAppAdmin
<1>9. ASSUME NEW group \in SUBSET Users, SetMembers(group) PROVE RightsInv'
  BY <1>9 DEF SetMembers
<1>10. ASSUME NEW l \in links, Disconnect(l) PROVE RightsInv' BY <1>10 DEF Disconnect
<1>11. ASSUME NEW a \in Apps, NEW b \in made, Connect(a, b) PROVE RightsInv'
  <2>1. [app |-> a, on |-> b] \in Link BY DEF Link
  <2> QED BY <1>11, <2>1 DEF Connect
<1>12. CASE UNCHANGED rightVars BY <1>12 DEF rightVars
<1> QED BY <1>1, <1>2, <1>3, <1>4, <1>5, <1>6, <1>7, <1>8, <1>9, <1>10, <1>11, <1>12
  DEF RightsNext

\* A rule that lets somebody through does it by a row that the query joins.
LEMMA RightsInvImplies == RightsInv => ListedAsAllowed
<1> SUFFICES ASSUME RightsInv, NEW u \in Users
    PROVE
      /\ \A b \in made, action \in {"retrieve", "update", "destroy"} :
           BucketRule(u, action, b) => b \in S3BucketList(u)
      /\ \A r \in accesses : RowRule(u, r) => r \in RowList(u)
      /\ \A a \in Apps : AppRule(u, "retrieve", a) => a \in AppQuery(u)
      /\ \A l \in links : LinkRule(u, "retrieve", l) <=> l \in AppS3BucketList(u)
      /\ \A l \in links : LinkRule(u, "update", l) => l \in AppS3BucketList(u)
      /\ BucketPages(u) \subseteq {b \in BucketPage(u) : BucketRule(u, "retrieve", b)}
      /\ \A a \in Apps : Connectable(u, a) \subseteq {b \in BucketPage(u) : BucketRule(u, "destroy", b)}
  BY DEF ListedAsAllowed
<1>1. \A b : HasBucketWriteAccess(u, b) \/ IsBucketAdmin(u, b) => HasBucketAccess(u, b)
  BY DEF HasBucketWriteAccess, IsBucketAdmin, HasBucketAccess
<1>2. ASSUME NEW b \in made, NEW action \in {"retrieve", "update", "destroy"},
             BucketRule(u, action, b)
      PROVE  b \in S3BucketList(u)
  BY <1>1, <1>2 DEF BucketRule, S3BucketList, AccessibleBy
<1>3. ASSUME NEW r \in accesses, RowRule(u, r) PROVE r \in RowList(u)
  BY <1>1, <1>3 DEF RightsInv, RowRule, RowList, AccessibleBy
<1>4. ASSUME NEW a \in Apps, AppRule(u, "retrieve", a) PROVE a \in AppQuery(u)
  BY <1>4 DEF AppRule, AppQuery, IsAppAdmin
<1>5. ASSUME NEW l \in links PROVE LinkRule(u, "retrieve", l) <=> l \in AppS3BucketList(u)
  BY DEF LinkRule, AppS3BucketList, IsAppAdmin, IsBucketAdmin, RowOf
<1>6. ASSUME NEW l \in links, LinkRule(u, "update", l) PROVE l \in AppS3BucketList(u)
  BY <1>6 DEF LinkRule, AppS3BucketList, IsAppAdmin
<1>7. BucketPages(u) \subseteq {b \in BucketPage(u) : BucketRule(u, "retrieve", b)}
  BY DEF BucketPages, BucketPage, BucketRule
<1>8. ASSUME NEW a \in Apps
      PROVE  Connectable(u, a) \subseteq {b \in BucketPage(u) : BucketRule(u, "destroy", b)}
  BY DEF Connectable, BucketPage, BucketRule
<1> QED BY <1>2, <1>3, <1>4, <1>5, <1>6, <1>7, <1>8

\* For any users, data sources, apps and access rows, the rules and the queries
\* that list for them agree (rules.py, filters.py, forms.py GrantAppAccessForm).
THEOREM RightsListed == RightsSpec => []ListedAsAllowed
<1> QED BY RightsInitHolds, RightsStepHolds, RightsInvImplies, PTL DEF RightsSpec

-----------------------------------------------------------------------------
(*****************************************************************************)
(* The AWS sessions: Sessions                                                *)
(*****************************************************************************)

SessionStates ==
  [role : RoleValues, region : Regions \cup {Unset}, fallback : BOOLEAN]
ThreadStates ==
  [step : {"rest", "service", "look", "assume", "call"}, role : RoleValues,
   region : Regions \cup {Unset}, set : Nat, session : SessionStates]
KeptSets == UNION {[K -> SessionStates] : K \in SUBSET SessionKeys}

\* A session that may be kept or used under a key: its role and region are
\* the key's, or they could not be had.
Fits(s, k, d) == IF s.fallback THEN k \in d ELSE <<s.role, s.region>> = k

\* A thread that looks or assumes does so in one of n sets that were made; what
\* it calls with fits.
ThreadOK(x, n, d) ==
  /\ x \in ThreadStates /\ x.set \in 0 .. n
  /\ x.step \in {"look", "assume"} => x.set # 0
  /\ x.step # "rest" => <<x.role, x.region>> \in SessionKeys
  /\ x.step = "call" => Fits(x.session, <<x.role, x.region>>, d)

\* And every session kept, in whichever set, fits its key.
SessionsSafe ==
  /\ rolesMap \in [(Entities \X (AwsServices \cup {DEFAULT})) \cup {<<DEFAULT, DEFAULT>>}
                     -> SettingNames \cup {Unset}]
  /\ located \in [SettingNames -> RoleValues]
  /\ sets \in Seq(KeptSets) /\ theSet = Len(sets)
  /\ \A n \in 1 .. Len(sets) : \A k \in DOMAIN sets[n] : Fits(sets[n][k], k, denied)
  /\ thread \in [Threads -> ThreadStates]
  /\ \A t \in Threads : ThreadOK(thread[t], Len(sets), denied)

Serving == {t \in Threads : thread[t].step = "service"}

\* A set is made by a thread that saw none, once: there are no more sets than
\* threads.
SessionsCounted ==
  /\ denied \subseteq SessionKeys /\ calls \in 0 .. MaxCalls /\ denials \in 0 .. MaxDenials
  /\ Cardinality(Serving) + Len(sets) <= Cardinality(Threads)

\* Who works without a role was given a name that has no value.
SomeUnset == \E n \in SettingNames : LocateSetting(n) = Unset
RolesLocated == \A t \in Threads : thread[t].step # "rest" /\ thread[t].role = Unset => SomeUnset

SessionsInv == SessionsSafe /\ SessionsCounted /\ RolesLocated

LEMMA NameIsFound ==
  ASSUME SessionsSafe, NEW e \in Entities, NEW s \in AwsServices, FoundName(e, s) # Unset
  PROVE  FoundName(e, s) \in SettingNames
<1>1. <<e, s>> \in DOMAIN rolesMap /\ <<e, DEFAULT>> \in DOMAIN rolesMap
      /\ <<DEFAULT, DEFAULT>> \in DOMAIN rolesMap
  BY DEF SessionsSafe
<1>2. \A k \in DOMAIN rolesMap : rolesMap[k] # Unset => rolesMap[k] \in SettingNames
  BY DEF SessionsSafe
<1> QED BY <1>1, <1>2 DEF FoundName

LEMMA SettingIsRole ==
  ASSUME SessionsSafe, NEW e \in Entities, NEW s \in AwsServices, FoundName(e, s) # Unset
  PROVE  /\ GetCredentialSetting(e, s) \in RoleValues
         /\ GetCredentialSetting(e, s) = Unset => SomeUnset
<1>1. FoundName(e, s) \in SettingNames BY NameIsFound
<1> HIDE DEF FoundName
<1> QED BY <1>1 DEF SessionsSafe, GetCredentialSetting, LocateSetting, SomeUnset

LEMMA ThreadMoves ==
  ASSUME SessionsSafe, NEW t \in Threads, NEW now, NEW n \in Nat, NEW d,
         thread' = [thread EXCEPT ![t] = now], ThreadOK(now, n, d),
         Len(sets) <= n, denied \subseteq d
  PROVE  /\ thread' \in [Threads -> ThreadStates]
         /\ \A u \in Threads : ThreadOK(thread'[u], n, d)
<1>1. thread' \in [Threads -> ThreadStates] BY DEF SessionsSafe, ThreadOK
<1>2. ASSUME NEW u \in Threads \ {t} PROVE ThreadOK(thread[u], n, d)
  <2>1. ThreadOK(thread[u], Len(sets), denied) /\ Len(sets) \in Nat BY DEF SessionsSafe
  <2> QED BY <2>1 DEF ThreadOK, Fits
<1>3. thread'[t] = now /\ \A u \in Threads \ {t} : thread'[u] = thread[u] BY DEF SessionsSafe
<1> QED BY <1>1, <1>2, <1>3

LEMMA CreateAwsServiceKeeps ==
  ASSUME SessionsSafe, NEW t \in Threads, NEW e \in Entities, NEW s \in AwsServices,
         NEW r \in Regions, CreateAwsService(t, e, s, r)
  PROVE  SessionsSafe'
<1> DEFINE role == GetCredentialSetting(e, s)
           now == [step |-> IF theSet = 0 THEN "service" ELSE "look", set |-> theSet,
                   session |-> NoSession, role |-> role, region |-> r]
<1>1. role \in RoleValues BY SettingIsRole DEF CreateAwsService
<1>2. UNCHANGED <<configVars, sets, theSet, denied>> /\ thread' = [thread EXCEPT ![t] = now]
  BY DEF CreateAwsService
<1> HIDE DEF role
<1>3. ThreadOK(now, Len(sets), denied)
  <2>1. now \in ThreadStates BY <1>1 DEF ThreadStates, SessionStates, NoSession, RoleValues, SessionsSafe
  <2>2. <<now.role, now.region>> \in SessionKeys BY <1>1 DEF SessionKeys
  <2> QED BY <2>1, <2>2 DEF ThreadOK, SessionsSafe
<1> HIDE DEF now
<1>4. Len(sets) \in Nat BY DEF SessionsSafe
<1>5. /\ thread' \in [Threads -> ThreadStates]
      /\ \A u \in Threads : ThreadOK(thread'[u], Len(sets'), denied')
  <2>1. thread' = [thread EXCEPT ![t] = now] BY <1>2, <1>3, <1>4
  <2>2. Len(sets) <= Len(sets') /\ Len(sets') \in Nat /\ denied \subseteq denied' BY <1>2, <1>3, <1>4
  <2>3. ThreadOK(now, Len(sets'), denied') BY <1>2, <1>3, <1>4
  <2> QED BY <2>1, <2>2, <2>3, ThreadMoves
<1> QED BY <1>2, <1>5 DEF SessionsSafe, Fits, configVars

LEMMA MakeSetKeeps ==
  ASSUME SessionsSafe, NEW t \in Threads, MakeSet(t)
  PROVE  SessionsSafe'
<1> DEFINE now == [thread[t] EXCEPT !.step = "look", !.set = Len(sets')]
<1>1. << >> \in KeptSets
  <2>1. << >> \in [{} -> SessionStates] OBVIOUS
  <2> QED BY <2>1 DEF KeptSets
<1>2. /\ sets' \in Seq(KeptSets) /\ Len(sets') = Len(sets) + 1 /\ theSet' = Len(sets')
      /\ \A n \in 1 .. Len(sets) : sets'[n] = sets[n]
      /\ sets'[Len(sets) + 1] = << >> /\ Len(sets) \in Nat
  BY <1>1 DEF MakeSet, SessionsSafe
<1>3. UNCHANGED <<configVars, denied>> /\ thread' = [thread EXCEPT ![t] = now]
  BY DEF MakeSet
<1>4. ThreadOK(now, Len(sets'), denied')
  <2>1. thread[t] \in ThreadStates /\ <<thread[t].role, thread[t].region>> \in SessionKeys
    BY DEF SessionsSafe, ThreadOK, MakeSet
  <2>2. now \in ThreadStates /\ now.step = "look" /\ now.set = Len(sets) + 1
        /\ now.region = thread[t].region /\ now.role = thread[t].role
    <3>1. Len(sets') \in Nat BY <1>2
    <3> QED BY <1>2, <2>1, <3>1 DEF ThreadStates
  <2> HIDE DEF now
  <2> QED BY <1>2, <2>1, <2>2 DEF ThreadOK
<1> HIDE DEF now
<1>5. \A n \in 1 .. Len(sets') : \A k \in DOMAIN sets'[n] : Fits(sets'[n][k], k, denied')
  BY <1>2, <1>3 DEF SessionsSafe
<1>6. /\ thread' \in [Threads -> ThreadStates]
      /\ \A u \in Threads : ThreadOK(thread'[u], Len(sets'), denied')
  <2>1. thread' = [thread EXCEPT ![t] = now] BY <1>2, <1>3, <1>4
  <2>2. Len(sets) <= Len(sets') /\ Len(sets') \in Nat /\ denied \subseteq denied' BY <1>2, <1>3, <1>4
  <2>3. ThreadOK(now, Len(sets'), denied') BY <1>2, <1>3, <1>4
  <2> QED BY <2>1, <2>2, <2>3, ThreadMoves
<1> QED BY <1>2, <1>3, <1>5, <1>6 DEF SessionsSafe, configVars

LEMMA GetSessionKeeps ==
  ASSUME SessionsSafe, NEW t \in Threads, GetSession(t)
  PROVE  SessionsSafe'
<1> DEFINE key == <<thread[t].role, thread[t].region>>
           kept == sets[thread[t].set]
           now == IF key \in DOMAIN kept
                  THEN [thread[t] EXCEPT !.step = "call", !.session = kept[key]]
                  ELSE [thread[t] EXCEPT !.step = "assume"]
<1>1. UNCHANGED <<configVars, sets, theSet, denied>> /\ thread[t].step = "look"
      /\ thread' = [thread EXCEPT ![t] = now]
  BY DEF GetSession, KeyOf
<1>2. thread[t] \in ThreadStates /\ thread[t].set \in 1 .. Len(sets) /\ key \in SessionKeys
  BY <1>1 DEF SessionsSafe, ThreadOK
<1>3. kept \in KeptSets BY <1>2 DEF SessionsSafe
<1>4. ASSUME key \in DOMAIN kept
      PROVE  kept[key] \in SessionStates /\ Fits(kept[key], key, denied)
  BY <1>2, <1>3, <1>4 DEF SessionsSafe, KeptSets
<1> HIDE DEF kept
<1>5. /\ now \in ThreadStates /\ now.step \in {"call", "assume"}
      /\ now.set = thread[t].set /\ <<now.role, now.region>> = key
      /\ now.step = "call" => Fits(now.session, key, denied)
  BY <1>2, <1>4 DEF ThreadStates
<1> HIDE DEF now
<1>6. ThreadOK(now, Len(sets), denied) BY <1>2, <1>5 DEF ThreadOK
<1>7. Len(sets) \in Nat BY DEF SessionsSafe
<1>8. /\ thread' \in [Threads -> ThreadStates]
      /\ \A u \in Threads : ThreadOK(thread'[u], Len(sets'), denied')
  <2>1. thread' = [thread EXCEPT ![t] = now] BY <1>1, <1>6, <1>7
  <2>2. Len(sets) <= Len(sets') /\ Len(sets') \in Nat /\ denied \subseteq denied' BY <1>1, <1>6, <1>7
  <2>3. ThreadOK(now, Len(sets'), denied') BY <1>1, <1>6, <1>7
  <2> QED BY <2>1, <2>2, <2>3, ThreadMoves
<1> QED BY <1>1, <1>8 DEF SessionsSafe, Fits, configVars

\* Whatever session a thread keeps, if it fits: what others kept does still.
LEMMA KeepsKeeps ==
  ASSUME SessionsSafe, NEW t \in Threads, NEW s \in SessionStates, Keeps(t, s),
         denied \subseteq denied', Fits(s, <<thread[t].role, thread[t].region>>, denied')
  PROVE  SessionsSafe' /\ Len(sets') = Len(sets)
<1> DEFINE key == <<thread[t].role, thread[t].region>>
           n == thread[t].set
           more == [k \in DOMAIN sets[n] \cup {key} |-> IF k = key THEN s ELSE sets[n][k]]
           now == [thread[t] EXCEPT !.step = "call", !.session = s]
<1>1. /\ UNCHANGED <<configVars, theSet>> /\ thread[t].step = "assume"
      /\ sets' = [sets EXCEPT ![n] = more] /\ thread' = [thread EXCEPT ![t] = now]
  BY DEF Keeps, KeyOf
<1>2. thread[t] \in ThreadStates /\ n \in 1 .. Len(sets) /\ key \in SessionKeys
  BY <1>1 DEF SessionsSafe, ThreadOK
<1>3. PICK K \in SUBSET SessionKeys : sets[n] \in [K -> SessionStates]
  <2>1. sets[n] \in KeptSets BY <1>2 DEF SessionsSafe
  <2> QED BY <2>1 DEF KeptSets
<1>4. \A k \in K : Fits(sets[n][k], k, denied') BY <1>2, <1>3 DEF SessionsSafe, Fits
<1> HIDE DEF key, n
<1>5. more \in [K \cup {key} -> SessionStates] /\ more[key] = s
      /\ \A k \in K \ {key} : more[k] = sets[n][k]
  BY <1>3
<1>6. more \in KeptSets BY <1>2, <1>5 DEF KeptSets
<1>7. \A k \in DOMAIN more : Fits(more[k], k, denied')
  <2>1. Fits(more[key], key, denied') BY <1>5 DEF key
  <2>2. DOMAIN more = K \cup {key} BY <1>5
  <2> HIDE DEF more
  <2> QED BY <1>4, <1>5, <2>1, <2>2
<1> HIDE DEF more
<1>8. /\ sets' \in Seq(KeptSets) /\ Len(sets') = Len(sets) /\ sets'[n] = more
      /\ \A m \in 1 .. Len(sets) : m # n => sets'[m] = sets[m]
      /\ Len(sets) \in Nat
  BY <1>1, <1>2, <1>6 DEF SessionsSafe
<1>9. \A m \in 1 .. Len(sets') : \A k \in DOMAIN sets'[m] : Fits(sets'[m][k], k, denied')
  BY <1>7, <1>8 DEF SessionsSafe, Fits
<1>10. ThreadOK(now, Len(sets'), denied')
  <2>1. now \in ThreadStates /\ now.step = "call" /\ now.session = s /\ now.set = n
        /\ <<now.role, now.region>> = key
    BY <1>2 DEF ThreadStates, n, key
  <2> HIDE DEF now
  <2> QED BY <1>2, <1>8, <2>1 DEF ThreadOK, key
<1>11. /\ thread' \in [Threads -> ThreadStates]
       /\ \A u \in Threads : ThreadOK(thread'[u], Len(sets'), denied')
  <2>1. thread' = [thread EXCEPT ![t] = now] BY <1>1, <1>8, <1>10
  <2>2. Len(sets) <= Len(sets') /\ Len(sets') \in Nat /\ denied \subseteq denied' BY <1>1, <1>8, <1>10
  <2>3. ThreadOK(now, Len(sets'), denied') BY <1>1, <1>8, <1>10
  <2> QED BY <2>1, <2>2, <2>3, ThreadMoves
<1>12. SessionsSafe' BY <1>1, <1>8, <1>9, <1>11 DEF SessionsSafe, configVars
<1> QED BY <1>8, <1>12

LEMMA CallAwsKeeps ==
  ASSUME SessionsSafe, NEW t \in Threads, CallAws(t)
  PROVE  SessionsSafe'
<1>1. Len(sets) \in Nat BY DEF SessionsSafe
<1>2. ThreadOK(Resting, Len(sets), denied)
  BY <1>1 DEF Resting, ThreadOK, ThreadStates, SessionStates, NoSession, RoleValues
<1>3. UNCHANGED <<configVars, sets, theSet, denied>> /\ thread' = [thread EXCEPT ![t] = Resting]
  BY DEF CallAws
<1>4. /\ thread' \in [Threads -> ThreadStates]
      /\ \A u \in Threads : ThreadOK(thread'[u], Len(sets'), denied')
  <2>1. thread' = [thread EXCEPT ![t] = Resting] BY <1>1, <1>2, <1>3
  <2>2. Len(sets) <= Len(sets') /\ Len(sets') \in Nat /\ denied \subseteq denied' BY <1>1, <1>2, <1>3
  <2>3. ThreadOK(Resting, Len(sets'), denied') BY <1>1, <1>2, <1>3
  <2> QED BY <2>1, <2>2, <2>3, ThreadMoves
<1> QED BY <1>3, <1>4 DEF SessionsSafe, Fits, configVars

LEMMA SessionsCountedKeeps ==
  ASSUME SessionsInv, SessionsNext
  PROVE  SessionsCounted'
<1> USE DEF SessionsInv
<1>1. IsFiniteSet(Threads) /\ Cardinality(Threads) \in Nat
  BY SessionsAssumption, FS_CardinalityType
<1>2. Serving \in SUBSET Threads /\ Serving' \in SUBSET Threads BY DEF Serving
<1>3. IsFiniteSet(Serving) /\ IsFiniteSet(Serving') BY <1>1, <1>2, FS_Subset
<1>4. /\ Cardinality(Serving) \in Nat /\ Cardinality(Serving') \in Nat
      /\ Cardinality(Serving') <= Cardinality(Threads)
  BY <1>1, <1>2, <1>3, FS_CardinalityType, FS_Subset
<1>5. Len(sets) \in Nat BY DEF SessionsSafe
<1>6. ASSUME NEW t \in Threads, NEW e \in Entities, NEW s \in AwsServices, NEW r \in Regions,
             CreateAwsService(t, e, s, r)
      PROVE  SessionsCounted'
  <2>1. denied' \subseteq SessionKeys /\ calls' \in 0 .. MaxCalls /\ denials' \in 0 .. MaxDenials
    BY <1>6, SessionsAssumption DEF CreateAwsService, SessionsCounted
  <2>2. CASE theSet = 0 BY <1>4, <1>6, <2>1, <2>2 DEF CreateAwsService, SessionsCounted, SessionsSafe
  <2>3. CASE theSet # 0
    <3>1. Serving' \subseteq Serving
      BY <1>6, <2>3 DEF CreateAwsService, Serving, SessionsSafe
    <3>2. Cardinality(Serving') <= Cardinality(Serving) BY <1>3, <3>1, FS_Subset
    <3> QED BY <1>1, <1>4, <1>5, <1>6, <2>1, <3>2 DEF CreateAwsService, SessionsCounted
  <2> QED BY <2>2, <2>3
<1>7. ASSUME NEW t \in Threads, MakeSet(t) PROVE SessionsCounted'
  <2>1. t \in Serving BY <1>7 DEF MakeSet, Serving
  <2>2. Serving' = Serving \ {t}
    <3>1. thread[t] \in ThreadStates /\ thread \in [Threads -> ThreadStates] BY DEF SessionsSafe
    <3>2. thread'[t].step = "look" /\ \A u \in Threads \ {t} : thread'[u] = thread[u]
      BY <1>7, <3>1 DEF MakeSet, ThreadStates
    <3> QED BY <3>2 DEF Serving
  <2>3. Cardinality(Serving') = Cardinality(Serving) - 1 BY <1>3, <2>1, <2>2, FS_RemoveElement
  <2>4. Len(sets') = Len(sets) + 1 BY <1>7 DEF MakeSet, SessionsSafe
  <2> QED BY <1>1, <1>4, <1>5, <1>7, <2>3, <2>4 DEF MakeSet, SessionsCounted
<1>8. ASSUME NEW t \in Threads, GetSession(t) \/ RefreshableSession(t) \/ DefaultSession(t) \/ CallAws(t)
      PROVE  SessionsCounted'
  <2>1. thread[t] \in ThreadStates /\ thread \in [Threads -> ThreadStates]
        /\ (thread[t].step = "assume" =>
              thread[t].set \in DOMAIN sets /\ <<thread[t].role, thread[t].region>> \in SessionKeys)
    BY DEF SessionsSafe, ThreadOK
  <2>2. CASE GetSession(t)
    <3>1. thread'[t].step # "service" /\ \A u \in Threads \ {t} : thread'[u] = thread[u]
      BY <2>1, <2>2 DEF GetSession, ThreadStates
    <3>2. Serving' \subseteq Serving BY <3>1 DEF Serving
    <3>3. Cardinality(Serving') <= Cardinality(Serving) BY <1>3, <3>2, FS_Subset
    <3> QED BY <1>1, <1>4, <1>5, <2>2, <3>3 DEF GetSession, SessionsCounted
  <2>3. CASE CallAws(t)
    <3>1. thread'[t].step # "service" /\ \A u \in Threads \ {t} : thread'[u] = thread[u]
      BY <2>1, <2>3 DEF CallAws, Resting
    <3>2. Serving' \subseteq Serving BY <3>1 DEF Serving
    <3>3. Cardinality(Serving') <= Cardinality(Serving) BY <1>3, <3>2, FS_Subset
    <3> QED BY <1>1, <1>4, <1>5, <2>3, <3>3 DEF CallAws, SessionsCounted
  <2>4. CASE RefreshableSession(t) \/ DefaultSession(t)
    <3>1. PICK s : Keeps(t, s) BY <2>4 DEF RefreshableSession, DefaultSession
    <3>2. thread'[t].step # "service" /\ \A u \in Threads \ {t} : thread'[u] = thread[u]
      BY <2>1, <3>1 DEF Keeps, ThreadStates
    <3>3. Serving' \subseteq Serving BY <3>2 DEF Serving
    <3>4. Cardinality(Serving') <= Cardinality(Serving) BY <1>3, <3>3, FS_Subset
    <3>5. Len(sets') = Len(sets) /\ calls' = calls BY <3>1 DEF Keeps, SessionsSafe
    <3>6. denied' \subseteq SessionKeys
      <4>1. <<thread[t].role, thread[t].region>> \in SessionKeys BY <2>1, <3>1 DEF Keeps
      <4>2. denied' \subseteq denied \cup {<<thread[t].role, thread[t].region>>}
        BY <2>4 DEF RefreshableSession, DefaultSession
      <4> QED BY <4>1, <4>2 DEF SessionsCounted
    <3>7. denials' \in 0 .. MaxDenials
      <4>1. denials' = denials \/ (denials < MaxDenials /\ denials' = denials + 1)
        BY <2>4 DEF RefreshableSession, DefaultSession
      <4> QED BY <4>1, SessionsAssumption DEF SessionsCounted
    <3> QED BY <1>1, <1>4, <1>5, <3>4, <3>5, <3>6, <3>7 DEF SessionsCounted
  <2> QED BY <1>8, <2>2, <2>3, <2>4
<1> QED BY <1>6, <1>7, <1>8 DEF SessionsNext

LEMMA RolesLocatedKeeps ==
  ASSUME SessionsInv, [SessionsNext]_sessionVars
  PROVE  RolesLocated'
<1>1. UNCHANGED configVars
  BY DEF SessionsNext, CreateAwsService, MakeSet, GetSession, RefreshableSession, DefaultSession,
         Keeps, CallAws, sessionVars, configVars
<1>2. SomeUnset' = SomeUnset BY <1>1 DEF SomeUnset, LocateSetting, configVars
<1>3. thread \in [Threads -> ThreadStates] BY DEF SessionsInv, SessionsSafe
<1>4. ASSUME NEW t \in Threads, NEW e \in Entities, NEW s \in AwsServices, NEW r \in Regions,
             CreateAwsService(t, e, s, r)
      PROVE  RolesLocated'
  <2> DEFINE role == GetCredentialSetting(e, s)
  <2>1. role = Unset => SomeUnset BY <1>4, SettingIsRole DEF CreateAwsService, SessionsInv
  <2>2. thread'[t].role = role /\ \A u \in Threads \ {t} : thread'[u] = thread[u]
    BY <1>3, <1>4 DEF CreateAwsService
  <2> HIDE DEF role
  <2> QED BY <1>2, <2>1, <2>2 DEF RolesLocated, SessionsInv
<1>5. ASSUME NEW t \in Threads, MakeSet(t) \/ GetSession(t) \/ CallAws(t) \/ \E s : Keeps(t, s)
      PROVE  RolesLocated'
  <2>1. /\ thread[t].step # "rest" /\ thread[t] \in ThreadStates
        /\ \A u \in Threads \ {t} : thread'[u] = thread[u]
    BY <1>3, <1>5 DEF MakeSet, GetSession, CallAws, Keeps
  <2>2. thread'[t].step = "rest" \/ thread'[t].role = thread[t].role
    BY <1>3, <1>5, <2>1 DEF MakeSet, GetSession, CallAws, Keeps, Resting, ThreadStates
  <2> QED BY <1>2, <2>1, <2>2 DEF RolesLocated, SessionsInv
<1>6. CASE UNCHANGED sessionVars BY <1>2, <1>6 DEF sessionVars, RolesLocated, SessionsInv
<1> QED BY <1>4, <1>5, <1>6 DEF SessionsNext, RefreshableSession, DefaultSession

LEMMA SessionsInitHolds == SessionsInit => SessionsInv
<1> SUFFICES ASSUME SessionsInit PROVE SessionsInv OBVIOUS
<1>1. Resting \in ThreadStates BY DEF Resting, ThreadStates, SessionStates, NoSession, RoleValues
<1>2. thread \in [Threads -> ThreadStates] /\ \A t \in Threads : thread[t].step = "rest"
  BY <1>1 DEF SessionsInit, Resting
<1>3. SessionsSafe
  <2>1. \A t \in Threads : ThreadOK(thread[t], Len(sets), denied)
    BY <1>1 DEF SessionsInit, Resting, ThreadOK
  <2> QED BY <1>2, <2>1 DEF SessionsInit, SessionsSafe
<1>4. Cardinality(Serving) = 0
  <2>1. Serving = {} BY <1>2 DEF Serving
  <2> QED BY <2>1, FS_EmptySet
<1>5. Len(sets) = 0 /\ Cardinality(Threads) \in Nat
  BY SessionsAssumption, FS_CardinalityType DEF SessionsInit
<1> QED BY <1>2, <1>3, <1>4, <1>5, SessionsAssumption DEF SessionsInit, SessionsInv, SessionsCounted, RolesLocated

LEMMA SessionsSafeKeeps == SessionsSafe /\ [SessionsNext]_sessionVars => SessionsSafe'
<1> SUFFICES ASSUME SessionsSafe, [SessionsNext]_sessionVars PROVE SessionsSafe' OBVIOUS
<1>1. ASSUME NEW t \in Threads, RefreshableSession(t) PROVE SessionsSafe'
  <2> DEFINE s == Session(thread[t].role, thread[t].region, FALSE)
  <2>1. s \in SessionStates BY DEF Session, SessionStates, SessionsSafe, ThreadStates
  <2>2. Fits(s, <<thread[t].role, thread[t].region>>, denied') 
    BY <1>1 DEF Session, Fits, RefreshableSession
  <2> QED BY <1>1, <2>1, <2>2, KeepsKeeps DEF RefreshableSession
<1>2. ASSUME NEW t \in Threads, DefaultSession(t) PROVE SessionsSafe'
  <2> DEFINE s == Session(Unset, Unset, TRUE)
  <2>1. s \in SessionStates BY DEF Session, SessionStates, RoleValues
  <2>2. denied \subseteq denied' /\ <<thread[t].role, thread[t].region>> \in denied'
    BY <1>2 DEF DefaultSession
  <2>3. Fits(s, <<thread[t].role, thread[t].region>>, denied') BY <2>2 DEF Session, Fits
  <2> QED BY <1>2, <2>1, <2>2, <2>3, KeepsKeeps DEF DefaultSession
<1>3. CASE UNCHANGED sessionVars BY <1>3 DEF sessionVars, SessionsSafe, Fits, ThreadOK
<1> QED BY <1>1, <1>2, <1>3, CreateAwsServiceKeeps, MakeSetKeeps, GetSessionKeeps, CallAwsKeeps
  DEF SessionsNext

LEMMA SessionsStepHolds == SessionsInv /\ [SessionsNext]_sessionVars => SessionsInv'
<1> SUFFICES ASSUME SessionsInv, [SessionsNext]_sessionVars PROVE SessionsCounted'
  BY SessionsSafeKeeps, RolesLocatedKeeps DEF SessionsInv
<1>1. CASE UNCHANGED sessionVars
  BY <1>1 DEF sessionVars, SessionsInv, SessionsCounted, Serving
<1> QED BY <1>1, SessionsCountedKeeps

LEMMA SessionsInvImplies == SessionsInv => SessionsTypeOK /\ CallsAsConfigured
<1> SUFFICES ASSUME SessionsInv PROVE SessionsTypeOK /\ CallsAsConfigured OBVIOUS
<1>1. CallsAsConfigured
  BY DEF SessionsInv, SessionsSafe, ThreadOK, CallsAsConfigured, Fits, RolesLocated, SomeUnset
<1>2. Serving \in SUBSET Threads BY DEF Serving
<1>3. /\ Cardinality(Serving) \in Nat /\ Cardinality(Threads) \in Nat
  BY <1>2, SessionsAssumption, FS_CardinalityType, FS_Subset
<1>4. Len(sets) \in 0 .. Cardinality(Threads)
  BY <1>3 DEF SessionsInv, SessionsSafe, SessionsCounted
<1>5. \A n \in DOMAIN sets : DOMAIN sets[n] \subseteq SessionKeys
  BY DEF SessionsInv, SessionsSafe, KeptSets
<1>6. ASSUME NEW t \in Threads
      PROVE  /\ thread[t].step \in {"rest", "service", "look", "assume", "call"}
             /\ thread[t].set \in 0 .. Cardinality(Threads)
  <2>1. thread[t] \in ThreadStates /\ thread[t].set \in 0 .. Len(sets)
    BY DEF SessionsInv, SessionsSafe, ThreadOK
  <2> QED BY <1>3, <1>4, <2>1 DEF ThreadStates
<1>7. SessionsTypeOK
  BY <1>4, <1>5, <1>6 DEF SessionsInv, SessionsSafe, SessionsCounted, SessionsTypeOK
<1> QED BY <1>1, <1>7

\* For any finite number of threads that race for the kept sessions: a call is
\* made as the role configured for it and in its region, or as the process itself
\* because that role could not be assumed there before, or because the setting
\* that the map names has no value (aws_auth.py get_session, cluster.py
\* _locate_setting).
THEOREM CalledAsConfigured == SessionsSpec => []CallsAsConfigured
<1> QED BY SessionsInitHolds, SessionsStepHolds, SessionsInvImplies, PTL DEF SessionsSpec

-----------------------------------------------------------------------------
(*****************************************************************************)
(* All of them: Console                                                      *)
(*****************************************************************************)

LEMMA ConsoleTypes ==
  ObjectsInv /\ PreviewsTypeOK /\ SettingsTypeOK /\ RightsTypeOK /\ SessionsTypeOK => ConsoleTypeOK
BY DEF ObjectsInv, GrantsOf, ConsoleTypeOK

\* Each part of a step of the whole is a step of that part, or leaves it alone.
LEMMA ConsoleStepsPart ==
  ASSUME [ConsoleNext]_consoleVars
  PROVE  /\ [Next]_vars /\ [PreviewsNext]_previewVars /\ [SettingsNext]_settingVars
         /\ [RightsNext]_rightVars /\ [SessionsNext]_sessionVars
<1>1. CASE UNCHANGED consoleVars BY <1>1 DEF consoleVars, policyVars
<1>2. CASE ConsoleNext BY <1>2 DEF ConsoleNext, policyVars
<1> QED BY <1>1, <1>2

\* The parts behave as their own specifications say.
THEOREM ConsoleParts ==
  ConsoleSpec => Spec /\ PreviewsSpec /\ SettingsSpec /\ RightsSpec /\ SessionsSpec
<1>1. ConsoleInit => Init /\ PreviewsInit /\ SettingsInit /\ RightsInit /\ SessionsInit
  BY DEF ConsoleInit
<1> QED BY <1>1, ConsoleStepsPart, PTL
  DEF ConsoleSpec, Spec, PreviewsSpec, SettingsSpec, RightsSpec, SessionsSpec

\* Every variable of every part keeps its type.
THEOREM ConsoleTyped == ConsoleSpec => []ConsoleTypeOK
<1>1. Spec => []ObjectsInv BY PolicyInitHolds, PolicyStepHolds, PTL DEF Spec
<1>2. PreviewsSpec => []PreviewsTypeOK
  BY PreviewsInitHolds, PreviewsStepHolds, PreviewsInvImplies, PTL DEF PreviewsSpec
<1>3. SettingsSpec => []SettingsTypeOK
  BY SettingsInitHolds, SettingsStepHolds, SettingsInvImplies, PTL DEF SettingsSpec
<1>4. RightsSpec => []RightsTypeOK
  <2>1. RightsInv => RightsTypeOK BY DEF RightsInv
  <2> QED BY <2>1, RightsInitHolds, RightsStepHolds, PTL DEF RightsSpec
<1>5. SessionsSpec => []SessionsTypeOK
  BY SessionsInitHolds, SessionsStepHolds, SessionsInvImplies, PTL DEF SessionsSpec
<1> QED BY <1>1, <1>2, <1>3, <1>4, <1>5, ConsoleParts, ConsoleTypes, PTL

\* What the runs of Console check holds of it, whatever its parts' sizes.
THEOREM ConsoleKeeps ==
  ConsoleSpec =>
    /\ [](/\ ObjectsAsGranted /\ ConfirmedOnceAsShown /\ SettingsPagesTrue
          /\ ListedAsAllowed /\ CallsAsConfigured)
    /\ IsFiniteSet(Paths) => []FoldersListedAsGranted
BY ConsoleParts, ObjectAccessAsGranted, FolderListsAsGranted, ConfirmedAsShown, SettingsTold,
   RightsListed, CalledAsConfigured, PTL
=============================================================================
