--------------------------- MODULE S3AccessPolicy ---------------------------
(***************************************************************************)
(* The document of one role's or group's policy, as S3AccessPolicy edits   *)
(* it: statements are sets of resources, and two of them carry a list of   *)
(* prefixes.  Each operation loads a document, edits it and puts it back,  *)
(* which drops statements without resources.                               *)
(*                                                                         *)
(* A resource is a sequence of path segments whose first one is a bucket,  *)
(* or a folder of the one bucket that holds folders.  A prefix is such a   *)
(* sequence and a trailing slash or nothing.                               *)
(***************************************************************************)
EXTENDS Naturals, SequencesExt

CONSTANTS
  Buckets,     \* data sources that are buckets of their own
  Folders,     \* data sources that are folders of the folder bucket
  Begins,      \* <<n, m>>: the name m begins with the name n and goes on
  Segments,    \* names of directories and files
  Paths,       \* paths below a data source
  NoGrant      \* a data source the holder has no access to

Names == Buckets \cup Folders
Levels == {"readonly", "readwrite"}
Grants == [level : Levels, paths : SUBSET Paths]

ASSUME S3AccessPolicyAssumption ==
  /\ Buckets \cap Folders = {}
  /\ Begins \subseteq Names \X Names
  /\ \A n \in Names : <<n, n>> \notin Begins
  /\ \A p \in Paths : p \in Seq(Segments) /\ p # << >>
  /\ NoGrant \notin Grants

VARIABLES
  doc,       \* the document
  granted,   \* history: the last grant of each data source not revoked since
  unlisted   \* history: folders whose prefixes went with those of another

vars == <<doc, granted, unlisted>>

\* The resources of a data source: the whole of it, or the paths named.
Under(n, P) == IF P = {} THEN {<<n>>} ELSE {<<n>> \o p : p \in P}

Root == << << >>, "" >>

EmptyDoc ==
  [readonly |-> {}, readwrite |-> {}, list |-> {}, meta |-> FALSE,
   listFolder |-> {}, listSubFolders |-> {}]

-----------------------------------------------------------------------------
(* Editing *)

\* remove_resource keeps names that go on with a letter, digit, dot or hyphen.
RemoveResource(R, n) == {r \in R : Head(r) # n}

\* remove_prefix compares strings: a name that begins with n goes as well.
BeginsWith(s, n) == s # << >> /\ (Head(s) = n \/ <<n, Head(s)>> \in Begins)

RevokeAccess(d, b) ==
  [d EXCEPT !.readonly = RemoveResource(@, b),
            !.readwrite = RemoveResource(@, b),
            !.list = @ \ {b}]

\* A list of prefixes with nothing but the root takes its statement along.
RevokeFolderAccess(d, f) ==
  LET kept == {x \in d.listFolder : ~BeginsWith(x[1], f)} IN
  [d EXCEPT !.readonly = RemoveResource(@, f),
            !.readwrite = RemoveResource(@, f),
            !.meta = FALSE,
            !.listFolder = IF kept = {Root} THEN {} ELSE kept,
            !.listSubFolders = {s \in @ : ~BeginsWith(s, f)}]

AddObjects(d, n, g) == [d EXCEPT ![g.level] = @ \cup Under(n, g.paths)]

\* Mutant: the directories above the granted path are left out.
AddPrefixPathOnly(L, s) == L \cup {Root, <<s, "">>}

\* A path, and each directory above it with and without a slash, both left
\* out when the one without is there.
AddPrefix(L, s) ==
  LET above == {a \in {SubSeq(s, 1, k) : k \in 1 .. Len(s) - 1} : <<a, "">> \notin L}
  IN L \cup {Root, <<s, "">>} \cup above \X {"", "/"}

\* The paths in the order of the form: `order' lists g's.
AddFolder(d, f, g, order) ==
  LET whole == IF order = << >> THEN << <<f>> >> ELSE [i \in DOMAIN order |-> <<f>> \o order[i]]
  IN [AddObjects(d, f, g) EXCEPT
        !.meta = TRUE,
        !.listFolder = FoldLeft(AddPrefix, @, whole),
        !.listSubFolders = @ \cup Under(f, g.paths)]

-----------------------------------------------------------------------------
(* Operations *)

Init ==
  /\ doc = EmptyDoc
  /\ granted = [n \in Names |-> NoGrant]
  /\ unlisted = {}

\* Mutant: what was granted before is not taken away first.
GrantBucketNoRevoke(b, g) ==
  /\ doc' = AddObjects([doc EXCEPT !.list = @ \cup {b}], b, g)
  /\ granted' = [granted EXCEPT ![b] = g]
  /\ UNCHANGED unlisted

GrantBucket(b, g) ==
  /\ doc' = AddObjects([RevokeAccess(doc, b) EXCEPT !.list = @ \cup {b}], b, g)
  /\ granted' = [granted EXCEPT ![b] = g]
  /\ UNCHANGED unlisted

\* f's prefixes are made anew or none are left; those of folders whose names
\* begin with its name go.
Unlist(f) == unlisted' = (unlisted \cup {h \in Folders : <<f, h>> \in Begins}) \ {f}

GrantFolder(f, g, order) ==
  /\ doc' = AddFolder(RevokeFolderAccess(doc, f), f, g, order)
  /\ granted' = [granted EXCEPT ![f] = g]
  /\ Unlist(f)

RevokeBucket(b) ==
  /\ doc' = RevokeAccess(doc, b)
  /\ granted' = [granted EXCEPT ![b] = NoGrant]
  /\ UNCHANGED unlisted

RevokeFolder(f) ==
  /\ doc' = RevokeFolderAccess(doc, f)
  /\ granted' = [granted EXCEPT ![f] = NoGrant]
  /\ Unlist(f)

Next ==
  \/ \E b \in Buckets : RevokeBucket(b) \/ \E g \in Grants : GrantBucket(b, g)
  \/ \E f \in Folders :
       \/ RevokeFolder(f)
       \/ \E g \in Grants : \E order \in SetToSeqs(g.paths) : GrantFolder(f, g, order)

Spec == Init /\ [][Next]_vars

-----------------------------------------------------------------------------
(* Properties *)

Granted(N) == {n \in N : granted[n] # NoGrant}
GrantedPaths(f) == Under(f, granted[f].paths)

\* Objects can be read, written and listed exactly as the last grant of each
\* data source says, whatever was granted or revoked in between.
ObjectsAsGranted ==
  /\ \A l \in Levels :
       doc[l] = UNION {GrantedPaths(n) : n \in {m \in Granted(Names) : granted[m].level = l}}
  /\ doc.list = Granted(Buckets)

\* x lies below s: it matches the pattern "s/*".
Below(x, s) == IsPrefix(s, x[1]) /\ (Len(x[1]) > Len(s) \/ x[2] = "/")

\* x is s or leads to it.
LeadsTo(x, s) == IsStrictPrefix(x[1], s) \/ x = <<s, "">>

\* Every prefix a browser or a client could ask to list.
Directories == (UNION {Prefixes(<<f>> \o p) : f \in Folders, p \in Paths}) \ {<< >>}
Asked == {Root} \cup (Directories \X {"", "/"})

CanList(x) == x \in doc.listFolder \/ \E s \in doc.listSubFolders : Below(x, s)

\* Whatever order paths were granted and revoked in, a folder can be listed
\* on the way to and below the paths granted last, and nowhere else; but not at
\* all once a folder was granted or revoked whose name its own begins with,
\* until it is granted again (remove_prefix compares strings).
FoldersListedAsGranted ==
  \A x \in Asked :
    CanList(x) <=>
      \E f \in Granted(Folders) \ unlisted : \E s \in GrantedPaths(f) : LeadsTo(x, s) \/ Below(x, s)

\* Whoever may use a folder may look up the bucket it is in (the comment in
\* grant_folder_access: "make sure the root bucket arn is included in the
\* resources").
MetaAsGranted == Granted(Folders) # {} => doc.meta
=============================================================================
