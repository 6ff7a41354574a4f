----------------------------- MODULE AppsProofs -----------------------------
(***************************************************************************)
(* Proofs about the pages of an app, for any number of forms, environments, *)
(* connections, lists, users and workers: its registration (Registration), *)
(* its authentication settings (AppAuth) and its allowlists (AppRanges).   *)
(***************************************************************************)
EXTENDS Apps, SequenceTheorems, TLAPS

-----------------------------------------------------------------------------
(***************************************************************************)
(* Registration: RegisteredIsWhole.  The invariant that makes it inductive *)
(* says what a submission has written by the time it reaches each step.    *)
(***************************************************************************)

Holding == {"role", "admin", "insert", "make", "set up", "commit", "link", "done"}

\* The app's row, its role and its administrator are there from their step on.
WrittenInOrder ==
  \A f \in Forms :
    /\ form[f].pc \in Holding \cup {"checked"} => form[f].repo \in Repos
    /\ form[f].pc \in Holding => appBy[form[f].repo] = f
    /\ form[f].pc \in Holding \ {"role"} => form[f].repo \in asksRole
    /\ form[f].pc \in Holding \ {"role", "admin"} => form[f].repo \in adminOf

\* A submission inside its transaction has its name to itself, and once past
\* AWS the bucket is its own.
HasItsBucket ==
  \A f \in Forms :
    /\ form[f].pc \in {"insert", "make", "set up", "commit"} => form[f].kind = "new"
    /\ form[f].pc \in {"make", "set up", "commit"} => storeBy[form[f].store] = NoForm
    /\ form[f].pc \in {"set up", "commit"} => s3By[form[f].store] = f
    /\ form[f].pc \in {"link", "done"} /\ form[f].kind = "new" => storeBy[form[f].store] = f

\* An app is connected in the last step only.
LinkedLast ==
  /\ \A p \in Repos : appBy[p] = NoForm => linkOf[p] = NoForm
  /\ \A f \in Forms :
       /\ form[f].pc \in Holding \ {"done"} => linkOf[form[f].repo] = NoForm
       /\ form[f].pc = "link" => form[f].kind # "later"
       /\ form[f].pc = "done" => linkOf[form[f].repo] = form[f].store

RowsHaveBuckets == \A b \in Stores : storeBy[b] # NoForm => s3By[b] = storeBy[b]

RegistrationInv ==
  RegistrationTypeOK /\ WrittenInOrder /\ HasItsBucket /\ LinkedLast /\ RowsHaveBuckets

LEMMA InvariantAtStart == RegistrationInit => RegistrationInv
<1> SUFFICES ASSUME RegistrationInit PROVE RegistrationInv OBVIOUS
<1>1. \A f \in Forms : form[f] = Blank BY DEF RegistrationInit
<1>2. Blank \in [pc : Steps, repo : Repos \cup {NoForm}, kind : {"new", "existing", "later"},
                  store : Stores \cup {NoForm}]
  BY DEF Blank, Steps
<1>4. \A f \in Forms : form[f].pc = "blank" BY <1>1 DEF Blank
<1>3. RegistrationTypeOK
  <2>1. FormsTyped
    <3>1. form \in [Forms -> [pc : Steps, repo : Repos \cup {NoForm}, kind : {"new", "existing", "later"},
                              store : Stores \cup {NoForm}]]
      BY <1>2 DEF RegistrationInit
    <3>2. \A f \in Forms : form[f].kind = "later" /\ form[f].store = NoForm BY <1>1 DEF Blank
    <3> QED BY <3>1, <3>2 DEF FormsTyped
  <2>2. RowsTyped BY RegistrationAssumption DEF RegistrationInit, RowsTyped
  <2>3. NamesApart BY <1>4 DEF NamesApart, Open
  <2> QED BY <2>1, <2>2, <2>3 DEF RegistrationTypeOK
<1>5. \A f \in Forms : form[f].pc \notin Holding /\ form[f].pc \notin {"insert", "make", "set up", "commit"}
                        /\ form[f].pc \notin {"link", "done"}
  BY <1>4 DEF Holding
<1>6. WrittenInOrder BY <1>4, <1>5 DEF WrittenInOrder
<1>7. HasItsBucket BY <1>5 DEF HasItsBucket
<1>8. LinkedLast BY <1>5 DEF RegistrationInit, LinkedLast
<1>9. RowsHaveBuckets BY DEF RegistrationInit, RowsHaveBuckets
<1> QED BY <1>3, <1>6, <1>7, <1>8, <1>9 DEF RegistrationInv

LEMMA InvariantMeansWhole == RegistrationInv => RegisteredIsWhole
  BY RegistrationAssumption
  DEF RegistrationInv, RegistrationTypeOK, FormsTyped, RowsTyped, WrittenInOrder, HasItsBucket,
      LinkedLast, RowsHaveBuckets, RegisteredIsWhole, Holding
-----------------------------------------------------------------------------
\* A step of one submission leaves what it asks for, and the others, alone.
LEMMA OneMoves ==
  ASSUME RegistrationTypeOK, NEW f \in Forms, NEW pc \in Steps, ToStep(f, pc)
  PROVE  /\ form' \in [Forms -> [pc : Steps, repo : Repos \cup {NoForm},
                                 kind : {"new", "existing", "later"}, store : Stores \cup {NoForm}]]
         /\ \A g \in Forms : /\ form'[g].repo = form[g].repo
                             /\ form'[g].kind = form[g].kind
                             /\ form'[g].store = form[g].store
                             /\ g # f => form'[g].pc = form[g].pc
         /\ form'[f].pc = pc
BY DEF RegistrationTypeOK, FormsTyped, ToStep

LEMMA SubmitKeeps ==
  ASSUME RegistrationInv, NEW f \in Forms, NEW p \in Repos, NEW kind \in {"new", "existing", "later"},
         NEW b \in Stores \cup {NoForm}, SubmitForm(f, p, kind, b)
  PROVE  RegistrationInv'
<1> USE DEF RegistrationInv
<1> DEFINE to == IF appBy[p] = NoForm THEN "checked" ELSE "refused"
<1>1. form' = [form EXCEPT ![f] = [pc |-> to, repo |-> p, kind |-> kind, store |-> b]]
      /\ UNCHANGED <<appBy, asksRole, adminOf, storeBy, s3By, linkOf, setbacks>>
  BY DEF SubmitForm
<1>2. to \in Steps /\ to \in {"checked", "refused"} BY DEF Steps
<1>3. kind = "later" <=> b = NoForm
  BY RegistrationAssumption DEF SubmitForm, Valid, Choosable
<1>4. /\ \A g \in Forms : g # f => form'[g] = form[g]
      /\ form'[f] = [pc |-> to, repo |-> p, kind |-> kind, store |-> b]
      /\ form'[f].pc = to /\ form'[f].repo = p /\ form'[f].kind = kind /\ form'[f].store = b
  BY <1>1 DEF RegistrationTypeOK, FormsTyped
<1>5. ~ Open(f)' /\ form'[f].pc \notin Holding
  BY <1>2, <1>4 DEF Open, Holding
<1>11. \A g \in Forms : form'[g].pc \in Holding => g # f /\ form'[g] = form[g]
  BY <1>4, <1>5
<1>6. RegistrationTypeOK'
  <2>1. form' \in [Forms -> [pc : Steps, repo : Repos \cup {NoForm}, kind : {"new", "existing", "later"},
                             store : Stores \cup {NoForm}]]
    BY <1>1, <1>2 DEF RegistrationTypeOK, FormsTyped
  <2>2. \A g \in Forms : form'[g].kind = "later" <=> form'[g].store = NoForm
    BY <1>3, <1>4 DEF RegistrationTypeOK, FormsTyped
  <2>3. FormsTyped' BY <2>1, <2>2 DEF FormsTyped
  <2>4. RowsTyped' BY <1>1 DEF RegistrationTypeOK, RowsTyped
  <2>5. NamesApart'
    <3>1. \A g \in Forms : form'[g].pc \in {"make", "set up", "commit"} => form'[g] = form[g]
      BY <1>11 DEF Holding
    <3>2. NamesApart BY DEF RegistrationTypeOK
    <3> QED BY <3>1, <3>2 DEF NamesApart, Open
  <2> QED BY <2>3, <2>4, <2>5 DEF RegistrationTypeOK
<1>7. WrittenInOrder'
  <2>1. \A g \in Forms : form'[g].pc \in Holding => form'[g].pc = form[g].pc /\ form'[g].repo = form[g].repo
    BY <1>4, <1>5
  <2>2. \A g \in Forms : form'[g].pc = "checked" /\ g # f => form[g].pc = "checked" /\ form'[g].repo = form[g].repo
    BY <1>4
  <2> QED BY <1>1, <1>4, <2>1, <2>2 DEF WrittenInOrder
<1>8. HasItsBucket'
  <2>1. HasItsBucket OBVIOUS
  <2> QED BY <1>1, <1>11, <2>1 DEF HasItsBucket, Holding
<1>9. LinkedLast'
  <2>1. LinkedLast OBVIOUS
  <2> QED BY <1>1, <1>11, <2>1, ZenonT(60) DEF LinkedLast, Holding
<1>10. RowsHaveBuckets' BY <1>1 DEF RowsHaveBuckets
<1> QED BY <1>6, <1>7, <1>8, <1>9, <1>10

\* A submission that stops writes nothing and lets go of its name.
LEMMA StopKeeps ==
  ASSUME RegistrationInv, NEW f \in Forms, ToStep(f, "refused"),
         setbacks' \in 0 .. MaxSetbacks,
         UNCHANGED <<appBy, asksRole, adminOf, storeBy, s3By, linkOf>>
  PROVE  RegistrationInv'
<1> USE DEF RegistrationInv
<1>0. "refused" \in Steps /\ "refused" \notin Holding BY DEF Steps, Holding
<1>1. /\ form' \in [Forms -> [pc : Steps, repo : Repos \cup {NoForm},
                              kind : {"new", "existing", "later"}, store : Stores \cup {NoForm}]]
      /\ \A g \in Forms : /\ form'[g].repo = form[g].repo
                          /\ form'[g].kind = form[g].kind
                          /\ form'[g].store = form[g].store
                          /\ g # f => form'[g].pc = form[g].pc
      /\ form'[f].pc = "refused"
  BY <1>0, OneMoves
<1>2. RegistrationTypeOK'
  <2>1. FormsTyped' BY <1>1 DEF RegistrationTypeOK, FormsTyped
  <2>2. RowsTyped' BY DEF RegistrationTypeOK, RowsTyped
  <2>3. NamesApart'
    <3>1. \A g \in Forms : Open(g)' => Open(g) /\ form'[g].store = form[g].store BY <1>1 DEF Open
    <3> QED BY <3>1 DEF RegistrationTypeOK, NamesApart
  <2> QED BY <2>1, <2>2, <2>3 DEF RegistrationTypeOK
<1>3. WrittenInOrder' BY <1>0, <1>1 DEF WrittenInOrder
<1>4. HasItsBucket' BY <1>1, ZenonT(60) DEF HasItsBucket
<1>5. LinkedLast' BY <1>0, <1>1 DEF LinkedLast
<1>6. RowsHaveBuckets' BY DEF RowsHaveBuckets
<1> QED BY <1>2, <1>3, <1>4, <1>5, <1>6

\* A submission moves on: the types survive if the rows keep theirs and no
\* transaction begins on a name that another has open.
LEMMA TypesKept ==
  ASSUME RegistrationTypeOK, NEW f \in Forms, NEW pc \in Steps, ToStep(f, pc), RowsTyped',
         pc \in {"make", "set up", "commit"} =>
           Open(f) \/ \A g \in Forms : Open(g) => form[g].store # form[f].store
  PROVE  RegistrationTypeOK'
<1>1. /\ form' \in [Forms -> [pc : Steps, repo : Repos \cup {NoForm},
                              kind : {"new", "existing", "later"}, store : Stores \cup {NoForm}]]
      /\ \A g \in Forms : /\ form'[g].kind = form[g].kind
                          /\ form'[g].store = form[g].store
                          /\ g # f => form'[g].pc = form[g].pc
      /\ form'[f].pc = pc
  BY OneMoves
<1>2. FormsTyped' BY <1>1 DEF RegistrationTypeOK, FormsTyped
<1>3. NamesApart'
  <2>1. \A g \in Forms : Open(g)' /\ g # f => Open(g) BY <1>1 DEF Open
  <2>2. Open(f)' => Open(f) \/ \A g \in Forms : Open(g) => form[g].store # form[f].store BY <1>1 DEF Open
  <2> QED BY <1>1, <2>1, <2>2, ZenonT(60) DEF RegistrationTypeOK, NamesApart
<1> QED BY <1>2, <1>3 DEF RegistrationTypeOK

LEMMA InsertAppKeeps ==
  ASSUME RegistrationInv, NEW f \in Forms, InsertApp(f) PROVE RegistrationInv'
<1> USE DEF RegistrationInv
<1>0. setbacks \in 0 .. MaxSetbacks BY DEF RegistrationTypeOK, RowsTyped
<1>1. CASE appBy[form[f].repo] # NoForm BY <1>0, <1>1, StopKeeps DEF InsertApp
<1>2. CASE appBy[form[f].repo] = NoForm
  <2>1. /\ form[f].pc = "checked" /\ form[f].repo \in Repos /\ ToStep(f, "role")
        /\ appBy' = [appBy EXCEPT ![form[f].repo] = f]
        /\ UNCHANGED <<asksRole, adminOf, storeBy, s3By, linkOf, setbacks>>
    BY <1>2 DEF InsertApp, At2, WrittenInOrder
  <2>2. /\ \A g \in Forms : /\ form'[g].repo = form[g].repo /\ form'[g].kind = form[g].kind
                            /\ form'[g].store = form[g].store /\ (g # f => form'[g].pc = form[g].pc)
        /\ form'[f].pc = "role"
    BY <2>1, OneMoves DEF Steps
  <2>3. appBy \in [Repos -> Forms \cup {NoForm}] BY DEF RegistrationTypeOK, RowsTyped
  <2>4. RegistrationTypeOK'
    <3>1. RowsTyped' BY <2>1, <2>3 DEF RegistrationTypeOK, RowsTyped
    <3> QED BY <2>1, <3>1, TypesKept DEF Steps
  <2>5. \A g \in Forms \ {f} : form[g].pc \in Holding => form[g].repo # form[f].repo
    BY <1>2, RegistrationAssumption DEF WrittenInOrder
  <2>6. WrittenInOrder'
    <3>1. \A g \in Forms \ {f} : form[g].pc \in Holding => appBy'[form[g].repo] = appBy[form[g].repo]
      BY <2>1, <2>3, <2>5 DEF WrittenInOrder
    <3>2. appBy'[form[f].repo] = f BY <2>1, <2>3
    <3>3. "role" \in Holding BY DEF Holding
    <3> QED BY <2>1, <2>2, <3>1, <3>2 DEF WrittenInOrder
  <2>7. HasItsBucket' BY <2>1, <2>2, ZenonT(60) DEF HasItsBucket
  <2>8. LinkedLast' BY <1>2, <2>1, <2>2, <2>3, <2>5, ZenonT(60) DEF LinkedLast, Holding
  <2>9. RowsHaveBuckets' BY <2>1 DEF RowsHaveBuckets
  <2> QED BY <2>4, <2>6, <2>7, <2>8, <2>9
<1> QED BY <1>1, <1>2

LEMMA AskRoleKeeps ==
  ASSUME RegistrationInv, NEW f \in Forms, AskRole(f) PROVE RegistrationInv'
<1> USE DEF RegistrationInv
<1>1. /\ form[f].pc = "role" /\ form[f].repo \in Repos /\ ToStep(f, "admin")
      /\ asksRole' = asksRole \cup {form[f].repo}
      /\ UNCHANGED <<appBy, adminOf, storeBy, s3By, linkOf, setbacks>>
  BY DEF AskRole, At2, WrittenInOrder, Holding
<1>2. /\ \A g \in Forms : /\ form'[g].repo = form[g].repo /\ form'[g].kind = form[g].kind
                          /\ form'[g].store = form[g].store /\ (g # f => form'[g].pc = form[g].pc)
      /\ form'[f].pc = "admin"
  BY <1>1, OneMoves DEF Steps
<1>3. RegistrationTypeOK'
  <2>1. RowsTyped' BY <1>1 DEF RegistrationTypeOK, RowsTyped
  <2> QED BY <1>1, <2>1, TypesKept DEF Steps
<1>4. WrittenInOrder' BY <1>1, <1>2 DEF WrittenInOrder, Holding
<1>5. HasItsBucket' BY <1>1, <1>2, ZenonT(60) DEF HasItsBucket
<1>6. LinkedLast' BY <1>1, <1>2, ZenonT(60) DEF LinkedLast, Holding
<1>7. RowsHaveBuckets' BY <1>1 DEF RowsHaveBuckets
<1> QED BY <1>3, <1>4, <1>5, <1>6, <1>7

LEMMA AddAdminKeeps ==
  ASSUME RegistrationInv, NEW f \in Forms, AddAdmin(f) PROVE RegistrationInv'
<1> USE DEF RegistrationInv
<1> DEFINE to == CASE form[f].kind = "new" -> "insert" [] form[f].kind = "existing" -> "link" [] OTHER -> "done"
<1>1. /\ form[f].pc = "admin" /\ form[f].repo \in asksRole /\ ToStep(f, to)
      /\ adminOf' = adminOf \cup {form[f].repo}
      /\ UNCHANGED <<appBy, asksRole, storeBy, s3By, linkOf, setbacks>>
  BY DEF AddAdmin, At2, WrittenInOrder, Holding
<1>2. /\ to \in {"insert", "link", "done"}
      /\ to = "insert" => form[f].kind = "new"
      /\ to = "link" => form[f].kind = "existing"
      /\ to = "done" => form[f].kind = "later" /\ form[f].store = NoForm
  BY DEF RegistrationTypeOK, FormsTyped
<1> HIDE DEF to
<1>3. /\ \A g \in Forms : /\ form'[g].repo = form[g].repo /\ form'[g].kind = form[g].kind
                          /\ form'[g].store = form[g].store /\ (g # f => form'[g].pc = form[g].pc)
      /\ form'[f].pc = to
  BY <1>1, <1>2, OneMoves DEF Steps
<1>4. RegistrationTypeOK'
  <2>1. RowsTyped' BY <1>1 DEF RegistrationTypeOK, RowsTyped
  <2> QED BY <1>1, <1>2, <2>1, TypesKept DEF Steps
<1>5. WrittenInOrder' BY <1>1, <1>2, <1>3 DEF WrittenInOrder, Holding
<1>6. HasItsBucket' BY <1>1, <1>2, <1>3, ZenonT(60) DEF HasItsBucket
<1>7. LinkedLast'
  <2>1. linkOf[form[f].repo] = NoForm BY <1>1 DEF LinkedLast, Holding
  <2> QED BY <1>1, <1>2, <1>3, <2>1, ZenonT(60) DEF LinkedLast, Holding
<1>8. RowsHaveBuckets' BY <1>1 DEF RowsHaveBuckets
<1> QED BY <1>4, <1>5, <1>6, <1>7, <1>8

LEMMA InsertStoreKeeps ==
  ASSUME RegistrationInv, NEW f \in Forms, InsertStore(f) PROVE RegistrationInv'
<1> USE DEF RegistrationInv
<1>0. setbacks \in 0 .. MaxSetbacks BY DEF RegistrationTypeOK, RowsTyped
<1>1. CASE storeBy[form[f].store] # NoForm BY <1>0, <1>1, StopKeeps DEF InsertStore
<1>2. CASE storeBy[form[f].store] = NoForm
  <2>1. /\ form[f].pc = "insert" /\ ToStep(f, "make")
        /\ \A g \in Forms : Open(g) => form[g].store # form[f].store
        /\ UNCHANGED <<appBy, asksRole, adminOf, storeBy, s3By, linkOf, setbacks>>
    BY <1>2 DEF InsertStore, At2
  <2>2. /\ \A g \in Forms : /\ form'[g].repo = form[g].repo /\ form'[g].kind = form[g].kind
                          /\ form'[g].store = form[g].store /\ (g # f => form'[g].pc = form[g].pc)
      /\ form'[f].pc = "make"
    BY <2>1, OneMoves DEF Steps
  <2>3. RegistrationTypeOK'
    <3>1. RowsTyped' BY <2>1 DEF RegistrationTypeOK, RowsTyped
    <3> QED BY <2>1, <3>1, TypesKept DEF Steps
  <2>4. WrittenInOrder' BY <2>1, <2>2 DEF WrittenInOrder, Holding
  <2>5. HasItsBucket' BY <1>2, <2>1, <2>2, ZenonT(60) DEF HasItsBucket
  <2>6. LinkedLast' BY <2>1, <2>2, ZenonT(60) DEF LinkedLast, Holding
  <2>7. RowsHaveBuckets' BY <2>1 DEF RowsHaveBuckets
  <2> QED BY <2>3, <2>4, <2>5, <2>6, <2>7
<1> QED BY <1>1, <1>2

LEMMA MakeStoreKeeps ==
  ASSUME RegistrationInv, NEW f \in Forms, MakeStore(f) PROVE RegistrationInv'
<1> USE DEF RegistrationInv
<1> DEFINE b == form[f].store
<1>0. setbacks \in 0 .. MaxSetbacks BY DEF RegistrationTypeOK, RowsTyped
<1>1. CASE s3By[b] # NoForm BY <1>0, <1>1, StopKeeps DEF MakeStore
<1>2. CASE s3By[b] = NoForm
  <2>1. /\ form[f].pc = "make" /\ ToStep(f, "set up") /\ s3By' = [s3By EXCEPT ![b] = f]
        /\ UNCHANGED <<appBy, asksRole, adminOf, storeBy, linkOf, setbacks>>
    BY <1>2 DEF MakeStore, At2
  <2>2. /\ \A g \in Forms : /\ form'[g].repo = form[g].repo /\ form'[g].kind = form[g].kind
                          /\ form'[g].store = form[g].store /\ (g # f => form'[g].pc = form[g].pc)
      /\ form'[f].pc = "set up"
    BY <2>1, OneMoves DEF Steps
  <2>3. storeBy[b] = NoForm /\ b \in Stores
    BY <2>1 DEF HasItsBucket, RegistrationTypeOK, FormsTyped
  <2>4. s3By \in [Stores -> Forms \cup {NoForm}] BY DEF RegistrationTypeOK, RowsTyped
  <2>5. \A g \in Forms \ {f} : Open(g) => form[g].store # b
    BY <2>1 DEF RegistrationTypeOK, NamesApart, Open
  <2>6. RegistrationTypeOK'
    <3>1. RowsTyped' BY <2>1, <2>4 DEF RegistrationTypeOK, RowsTyped
    <3> QED BY <2>1, <3>1, TypesKept DEF Steps, Open
  <2>7. WrittenInOrder' BY <2>1, <2>2 DEF WrittenInOrder, Holding
  <2>8. HasItsBucket'
    <3>1. \A g \in Forms \ {f} : form[g].pc \in {"set up", "commit"} => s3By'[form[g].store] = s3By[form[g].store]
      <4> SUFFICES ASSUME NEW g \in Forms \ {f}, form[g].pc \in {"set up", "commit"}
                   PROVE  s3By'[form[g].store] = s3By[form[g].store] OBVIOUS
      <4>1. form[g].store # b BY <2>5 DEF Open
      <4>2. form[g].kind = "new" BY DEF HasItsBucket
      <4>3. form[g].store \in Stores BY <4>2 DEF RegistrationTypeOK, FormsTyped
      <4> QED BY <2>1, <2>4, <4>1, <4>3
    <3>2. s3By'[b] = f BY <2>1, <2>3, <2>4
    <3>3. ASSUME NEW g \in Forms \ {f}
          PROVE  /\ form'[g].pc \in {"insert", "make", "set up", "commit"} => form'[g].kind = "new"
                 /\ form'[g].pc \in {"make", "set up", "commit"} => storeBy'[form'[g].store] = NoForm
                 /\ form'[g].pc \in {"set up", "commit"} => s3By'[form'[g].store] = g
                 /\ form'[g].pc \in {"link", "done"} /\ form'[g].kind = "new" => storeBy'[form'[g].store] = g
      BY <2>1, <2>2, <3>1, ZenonT(60) DEF HasItsBucket
    <3>4. form'[f].kind = "new" /\ storeBy'[form'[f].store] = NoForm /\ s3By'[form'[f].store] = f
      BY <2>1, <2>2, <2>3, <3>2 DEF HasItsBucket
    <3> QED BY <2>2, <3>3, <3>4 DEF HasItsBucket
  <2>9. LinkedLast' BY <2>1, <2>2, ZenonT(60) DEF LinkedLast, Holding
  <2>10. RowsHaveBuckets' BY <2>1, <2>3, <2>4 DEF RowsHaveBuckets
  <2> QED BY <2>6, <2>7, <2>8, <2>9, <2>10
<1> QED BY <1>1, <1>2

LEMMA SetUpStoreKeeps ==
  ASSUME RegistrationInv, NEW f \in Forms, SetUpStore(f) PROVE RegistrationInv'
<1> USE DEF RegistrationInv
<1>1. /\ form[f].pc = "set up" /\ ToStep(f, "commit")
      /\ UNCHANGED <<appBy, asksRole, adminOf, storeBy, s3By, linkOf, setbacks>>
  BY DEF SetUpStore, At2
<1>2. /\ \A g \in Forms : /\ form'[g].repo = form[g].repo /\ form'[g].kind = form[g].kind
                          /\ form'[g].store = form[g].store /\ (g # f => form'[g].pc = form[g].pc)
      /\ form'[f].pc = "commit"
  BY <1>1, OneMoves DEF Steps
<1>3. RegistrationTypeOK'
  <2>1. RowsTyped' BY <1>1 DEF RegistrationTypeOK, RowsTyped
  <2> QED BY <1>1, <2>1, TypesKept DEF Steps, Open
<1>4. WrittenInOrder' BY <1>1, <1>2 DEF WrittenInOrder, Holding
<1>5. HasItsBucket' BY <1>1, <1>2, ZenonT(60) DEF HasItsBucket
<1>6. LinkedLast' BY <1>1, <1>2, ZenonT(60) DEF LinkedLast, Holding
<1>7. RowsHaveBuckets' BY <1>1 DEF RowsHaveBuckets
<1> QED BY <1>3, <1>4, <1>5, <1>6, <1>7

\* The row is committed while its name is the submission's alone.
LEMMA CommitStoreKeeps ==
  ASSUME RegistrationInv, NEW f \in Forms, CommitStore(f) PROVE RegistrationInv'
<1> USE DEF RegistrationInv
<1> DEFINE b == form[f].store
<1>1. /\ form[f].pc = "commit" /\ ToStep(f, "link") /\ storeBy' = [storeBy EXCEPT ![b] = f]
      /\ UNCHANGED <<appBy, asksRole, adminOf, s3By, linkOf, setbacks>>
  BY DEF CommitStore, At2
<1>2. /\ \A g \in Forms : /\ form'[g].repo = form[g].repo /\ form'[g].kind = form[g].kind
                          /\ form'[g].store = form[g].store /\ (g # f => form'[g].pc = form[g].pc)
      /\ form'[f].pc = "link"
  BY <1>1, OneMoves DEF Steps
<1>3. storeBy[b] = NoForm /\ s3By[b] = f /\ form[f].kind = "new" /\ b \in Stores
  BY <1>1 DEF HasItsBucket, RegistrationTypeOK, FormsTyped
<1>4. storeBy \in [Stores -> Forms \cup {NoForm}] BY DEF RegistrationTypeOK, RowsTyped
<1>5. \A g \in Forms \ {f} : Open(g) => form[g].store # b
  BY <1>1 DEF RegistrationTypeOK, NamesApart, Open
<1>6. RegistrationTypeOK'
  <2>1. RowsTyped' BY <1>1, <1>4 DEF RegistrationTypeOK, RowsTyped
  <2> QED BY <1>1, <2>1, TypesKept DEF Steps
<1>7. WrittenInOrder' BY <1>1, <1>2 DEF WrittenInOrder, Holding
<1>8. HasItsBucket'
  <2>1. storeBy'[b] = f BY <1>1, <1>3, <1>4
  <2>2. \A c \in Stores \ {b} : storeBy'[c] = storeBy[c] BY <1>1, <1>4
  <2>3. ASSUME NEW g \in Forms \ {f}, form[g].kind = "new",
               Open(g) \/ form[g].pc \in {"link", "done"}
        PROVE  storeBy'[form[g].store] = storeBy[form[g].store]
    <3>1. form[g].store \in Stores BY <2>3 DEF RegistrationTypeOK, FormsTyped
    <3>2. form[g].store # b
      BY <1>3, <1>5, <2>3, RegistrationAssumption DEF HasItsBucket
    <3> QED BY <2>2, <3>1, <3>2
  <2>4. ASSUME NEW g \in Forms \ {f}
        PROVE  /\ form'[g].pc \in {"insert", "make", "set up", "commit"} => form'[g].kind = "new"
               /\ form'[g].pc \in {"make", "set up", "commit"} => storeBy'[form'[g].store] = NoForm
               /\ form'[g].pc \in {"set up", "commit"} => s3By'[form'[g].store] = g
               /\ form'[g].pc \in {"link", "done"} /\ form'[g].kind = "new" => storeBy'[form'[g].store] = g
    BY <1>1, <1>2, <2>3, ZenonT(60) DEF HasItsBucket, Open
  <2> QED BY <1>1, <1>2, <2>1, <2>4, ZenonT(60) DEF HasItsBucket
<1>9. LinkedLast' BY <1>1, <1>2, <1>3, ZenonT(60) DEF LinkedLast, Holding
<1>10. RowsHaveBuckets' BY <1>1, <1>3, <1>4 DEF RowsHaveBuckets
<1> QED BY <1>6, <1>7, <1>8, <1>9, <1>10

LEMMA LinkStoreKeeps ==
  ASSUME RegistrationInv, NEW f \in Forms, LinkStore(f) PROVE RegistrationInv'
<1> USE DEF RegistrationInv
<1> DEFINE p == form[f].repo
<1>1. /\ form[f].pc = "link" /\ ToStep(f, "done") /\ linkOf' = [linkOf EXCEPT ![p] = form[f].store]
      /\ UNCHANGED <<appBy, asksRole, adminOf, storeBy, s3By, setbacks>>
  BY DEF LinkStore, At2
<1>2. /\ \A g \in Forms : /\ form'[g].repo = form[g].repo /\ form'[g].kind = form[g].kind
                          /\ form'[g].store = form[g].store /\ (g # f => form'[g].pc = form[g].pc)
      /\ form'[f].pc = "done"
  BY <1>1, OneMoves DEF Steps
<1>3. appBy[p] = f /\ p \in Repos BY <1>1 DEF WrittenInOrder, Holding
<1>4. linkOf \in [Repos -> Stores \cup {NoForm}] /\ form[f].store \in Stores \cup {NoForm}
  BY DEF RegistrationTypeOK, FormsTyped, RowsTyped
<1>5. RegistrationTypeOK'
  <2>1. RowsTyped' BY <1>1, <1>4 DEF RegistrationTypeOK, RowsTyped
  <2> QED BY <1>1, <2>1, TypesKept DEF Steps
<1>6. WrittenInOrder' BY <1>1, <1>2 DEF WrittenInOrder, Holding
<1>7. HasItsBucket' BY <1>1, <1>2, ZenonT(60) DEF HasItsBucket
<1>8. LinkedLast'
  <2>1. \A q \in Repos : appBy[q] = NoForm => linkOf'[q] = NoForm
    BY <1>1, <1>3, <1>4, RegistrationAssumption DEF LinkedLast
  <2>2. linkOf'[p] = form[f].store BY <1>1, <1>3, <1>4
  <2>3. ASSUME NEW g \in Forms \ {f}, form[g].pc \in Holding
        PROVE  linkOf'[form[g].repo] = linkOf[form[g].repo]
    <3>1. form[g].repo \in Repos /\ form[g].repo # p BY <1>3, <2>3 DEF WrittenInOrder
    <3> QED BY <1>1, <1>4, <3>1
  <2>4. ASSUME NEW g \in Forms \ {f}
        PROVE  /\ form'[g].pc \in Holding \ {"done"} => linkOf'[form'[g].repo] = NoForm
               /\ form'[g].pc = "link" => form'[g].kind # "later"
               /\ form'[g].pc = "done" => linkOf'[form'[g].repo] = form'[g].store
    <3>1. form'[g].repo = form[g].repo /\ form'[g].kind = form[g].kind /\ form'[g].store = form[g].store
          /\ form'[g].pc = form[g].pc
      BY <1>2
    <3>2. "done" \in Holding BY DEF Holding
    <3> QED BY <2>3, <3>1, <3>2 DEF LinkedLast
  <2> QED BY <1>1, <1>2, <2>1, <2>2, <2>4 DEF LinkedLast, Holding
<1>9. RowsHaveBuckets' BY <1>1 DEF RowsHaveBuckets
<1> QED BY <1>5, <1>6, <1>7, <1>8, <1>9

LEMMA FormFailsKeeps ==
  ASSUME RegistrationInv, NEW f \in Forms, FormFails(f) PROVE RegistrationInv'
<1>1. setbacks' \in 0 .. MaxSetbacks
  BY RegistrationAssumption DEF RegistrationInv, RegistrationTypeOK, RowsTyped, FormFails
<1> QED BY <1>1, StopKeeps DEF FormFails
-----------------------------------------------------------------------------
LEMMA RegistrationStep ==
  RegistrationInv /\ [RegistrationNext]_registerVars => RegistrationInv'
<1> SUFFICES ASSUME RegistrationInv, [RegistrationNext]_registerVars PROVE RegistrationInv' OBVIOUS
<1>1. CASE UNCHANGED registerVars
  BY <1>1, ZenonT(60) DEF registerVars, RegistrationInv, RegistrationTypeOK, FormsTyped, RowsTyped, NamesApart, Open,
              WrittenInOrder, HasItsBucket, LinkedLast, RowsHaveBuckets
<1>2. CASE RegistrationNext
  BY <1>2, SubmitKeeps, InsertAppKeeps, AskRoleKeeps, AddAdminKeeps, InsertStoreKeeps, MakeStoreKeeps,
     SetUpStoreKeeps, CommitStoreKeeps, LinkStoreKeeps, FormFailsKeeps DEF RegistrationNext
<1> QED BY <1>1, <1>2

\* What a submission has written by the time it reaches each step.
THEOREM RegistrationInvariant == RegistrationSpec => []RegistrationInv
BY RegistrationStep, InvariantAtStart, PTL DEF RegistrationSpec

\* The forms and the rows keep their types, and no two open transactions a name.
THEOREM RegistrationTyped == RegistrationSpec => []RegistrationTypeOK
<1>1. RegistrationInv => RegistrationTypeOK
  BY DEF RegistrationInv
<1> QED BY <1>1, RegistrationInvariant, PTL

\* However any number of submissions interleave, fail and die, for any
\* repositories and names of buckets: an app that was registered is whole, and
\* no bucket's row ever stands for a bucket that another submission made.
THEOREM Registered == RegistrationSpec => []RegisteredIsWhole
BY RegistrationInvariant, InvariantMeansWhole, PTL

-----------------------------------------------------------------------------
(***************************************************************************)
(* AppAuth: AloneAgrees and OthersSettingsKept.                            *)
(***************************************************************************)

Maybe == Ids \cup {None}
\* An identity is of the place it was made for.
Of(i, p) == i # None => i[1] = p
Documents ==
  {c \in [Places -> [client : Maybe, group : Maybe]] :
     \A p \in Places : Of(c[p].client, p) /\ Of(c[p].group, p)}

SettingUp == {"client", "role", "group", "lookUp", "viewer", "readConns", "putConns", "save",
              "putSecrets", "putVars"}
Connecting == {"existing", "putPasswordless", "readConns", "putConns"}
Clearing == {"forgetSecrets", "forgetDomain", "readGroup", "dropGroup", "dropRoles", "dropClient", "clear"}
Registers == {"search", "newM2m", "grant", "saveM2m"}
Calls == SettingUp \cup Connecting \cup Clearing \cup Registers \cup {"rotate", "nextEnv", "dropRow"}

\* The calls of each operation, and what it knows by then.
Fits(q) ==
  /\ q.op \in EnvOps => q.at \in Envs
  /\ q.op \in {"m2m", "rotate", "dropM2m"} => q.at = M2m
  /\ q.op = "setup" => q.pc \in SettingUp /\ q.want = {Email} /\ (q.pc # "client" => q.client # None)
                       /\ (q.pc \notin {"putConns", "save", "putSecrets", "putVars"} => q.todo = {})
  /\ q.op = "conns" => q.pc \in Connecting /\ q.copy[q.at].client # None
  /\ q.op = "remove" => q.pc \in Clearing
  /\ q.op = "redundant" => q.pc \in Clearing \ {"forgetSecrets", "forgetDomain"}
  /\ q.op = "delete" => q.pc \in Clearing \cup {"nextEnv", "dropRow"} /\ q.todo \subseteq Envs
                        /\ (q.pc \in Clearing => q.at \in Envs) /\ q.client = None /\ q.group = None
  /\ q.op = "m2m" => q.pc \in Registers /\ (q.pc \in {"grant", "saveM2m"} => q.client # None)
  /\ q.op = "rotate" => q.pc = "rotate"
  /\ q.op = "dropM2m" => q.pc \in {"dropClient", "clear"}
  /\ Of(q.client, q.at) /\ Of(q.group, q.at)
  /\ q.pc \in {"dropGroup", "dropRoles"} => \A i \in q.doomed : i[1] = q.at

Records ==
  [op : Ops, at : Places, pc : Calls, copy : Documents, client : Maybe, group : Maybe,
   want : SUBSET Conns, todo : SUBSET (Envs \cup Conns), seen : [Conns -> SUBSET Ids],
   doomed : SUBSET Ids]
Work == {q \in Records : Fits(q)}
Rest == {Ended("idle"), Ended("done"), Ended("failed")}

\* What a request that overlaps with no other has done so far.
SetSoFar(q) ==
  /\ q.pc # "client" => q.client \in auth0.clients
  /\ q.pc \notin {"client", "role"} => q.client \in auth0.roles
  /\ q.pc \notin {"client", "role", "group", "lookUp", "viewer"} =>
       q.group # None /\ auth0.group[q.at] = q.group /\ q.client \in auth0.viewers[q.group]
  /\ q.pc \in {"save", "putSecrets", "putVars"} => q.client \in auth0.enabled[Email]
  /\ q.pc \in {"putSecrets", "putVars"} => conf[q.at] = [client |-> q.client, group |-> q.group]
  /\ q.pc = "putVars" => github[q.at].secret = q.client

Serves(q) == IF q.op = "setup" THEN q.client ELSE q.copy[q.at].client

\* The connections still to be put have not changed since they were read.
ConnsSoFar(q) ==
  /\ q.pc \in {"putPasswordless", "readConns"} /\ q.op = "conns" =>
       \A k \in Conns : k \in q.todo <=> Serves(q) \in auth0.enabled[k]
  /\ q.pc = "putConns" =>
       \A k \in Conns : /\ q.seen[k] = auth0.enabled[k] \/ k \notin q.todo
                        /\ k \notin q.todo /\ k \in q.want => Serves(q) \in auth0.enabled[k]
                        /\ k \notin q.todo /\ k \notin q.want /\ q.op = "conns" =>
                             Serves(q) \notin auth0.enabled[k]
  /\ q.pc \in {"readConns", "putConns"} /\ q.op = "conns" =>
       (github[q.at].passwordless <=> Email \in q.want)

ClearedSoFar(q) ==
  /\ q.pc # "forgetSecrets" => github[q.at].secret = None
  /\ q.pc \notin {"forgetSecrets", "forgetDomain"} => ~ github[q.at].domain

SoFar(q) ==
  /\ here
  /\ q.pc \notin {"putSecrets", "putVars"} => q.copy = conf
  /\ q.op = "setup" => SetSoFar(q)
  /\ q.op \in {"setup", "conns"} => ConnsSoFar(q)
  /\ q.op = "remove" => ClearedSoFar(q)
  /\ q.op = "m2m" /\ q.pc \in {"grant", "saveM2m"} => q.client \in auth0.clients

\* Nobody works on a place that is settled, and who saves the document or puts a
\* connection back leaves it as it is.
Spares(q, p) ==
  /\ q.at # p /\ q.op # "delete" /\ q.copy[p] = conf[p]
  /\ q.pc = "putConns" =>
       \A k \in Conns : conf[p].client \in q.seen[k] <=> conf[p].client \in auth0.enabled[k]

Owned ==
  /\ \A e \in Envs : Of(auth0.group[e], e)
  /\ \A g \in Ids : \A i \in auth0.viewers[g] : i[1] = g[1]

\* What a place that is settled is in agreement about.
Agrees(p) ==
  /\ settled[p] = "set" /\ here => SetUp(p)
  /\ settled[p] = "connected" => p \in Envs /\ (here => Connected(p))
  /\ settled[p] = "cleared" => Cleared(p)

AuthInv ==
  /\ AuthTypeOK /\ conf \in Documents /\ Owned
  /\ my \in [Requests -> Rest \cup Work]
  /\ \A r \in Requests : Running(r) /\ my[r].client # None => my[r].client[2] <= made[my[r].client[1]]
  /\ \A r, s \in Requests : Running(r) /\ alone[r] /\ s # r => ~ Running(s)
  /\ \A r \in Requests : Running(r) /\ alone[r] => SoFar(my[r])
  /\ \A p \in Places : settled[p] # "unknown" => here /\ \A r \in Requests : Running(r) => Spares(my[r], p)
  /\ \A p \in Places : Agrees(p)

\* What tells the requests apart.
LEMMA InWork ==
  ASSUME AuthInv, NEW r \in Requests
  PROVE  /\ my[r] \in Rest \cup Work
         /\ Running(r) <=> my[r] \in Work
         /\ my[r] \in Rest <=> ~ Running(r)
         /\ \A n \in Work : n.pc \notin {"idle", "done", "failed"}
         /\ \A n \in Rest : n.pc \in {"idle", "done", "failed"} /\ n \notin Work
<1>1. my[r] \in Rest \cup Work
  BY DEF AuthInv
<1>2. \A n \in Work : n.pc \notin {"idle", "done", "failed"}
  BY DEF Work, Records, Calls, SettingUp, Connecting, Clearing, Registers
<1>3. \A n \in Rest : n.pc \in {"idle", "done", "failed"}
  BY DEF Rest, Ended
<1> QED BY <1>1, <1>2, <1>3 DEF Running

\* A step leaves what the row records of place p, and the place, as they were.
Untouched(p) ==
  /\ conf[p].client \in auth0'.clients <=> conf[p].client \in auth0.clients
  /\ conf[p].client \in auth0'.roles <=> conf[p].client \in auth0.roles
  /\ \A k \in Conns : conf[p].client \in auth0'.enabled[k] <=> conf[p].client \in auth0.enabled[k]
  /\ conf[p].group # None => auth0'.viewers[conf[p].group] = auth0.viewers[conf[p].group]
  /\ p \in Envs => auth0'.group[p] = auth0.group[p] /\ github'[p] = github[p]

\* Identities of other places than a are treated as before.
Elsewhere(a) ==
  /\ \A i \in Ids : i[1] # a =>
       /\ i \in auth0'.clients <=> i \in auth0.clients
       /\ i \in auth0'.roles <=> i \in auth0.roles
       /\ \A k \in Conns : i \in auth0'.enabled[k] <=> i \in auth0.enabled[k]
       /\ auth0'.viewers[i] = auth0.viewers[i]
  /\ \A e \in Envs \ {a} : auth0'.group[e] = auth0.group[e] /\ github'[e] = github[e]

AuthRecords ==
  [clients : SUBSET Ids, roles : SUBSET Ids, group : [Envs -> Maybe],
   viewers : [Ids -> SUBSET Ids], enabled : [Conns -> SUBSET Ids]]
GithubRecords == [Envs -> [secret : Maybe, domain : BOOLEAN, passwordless : BOOLEAN]]

LEMMA PlacesApart ==
  ASSUME AuthInv, NEW a \in Places, Elsewhere(a), auth0' \in AuthRecords
  PROVE  \A p \in Places \ {a} : Untouched(p)
<1> SUFFICES ASSUME NEW p \in Places \ {a} PROVE Untouched(p)
  OBVIOUS
<1>1. None \notin Ids /\ p # a
  BY AppAuthAssumption DEF Ids, Places
<1>2. PICK c \in Maybe : c = conf[p].client
  BY DEF AuthInv, AuthTypeOK, Maybe
<1>3. PICK g \in Maybe : g = conf[p].group
  BY DEF AuthInv, AuthTypeOK, Maybe
<1>4. c # None => c \in Ids /\ c[1] # a
  BY <1>1, <1>2 DEF AuthInv, Documents, Of, Maybe
<1>5. g # None => g \in Ids /\ g[1] # a
  BY <1>1, <1>3 DEF AuthInv, Documents, Of, Maybe
<1>6. /\ auth0.clients \subseteq Ids /\ auth0'.clients \subseteq Ids
      /\ auth0.roles \subseteq Ids /\ auth0'.roles \subseteq Ids
      /\ \A k \in Conns : auth0.enabled[k] \subseteq Ids /\ auth0'.enabled[k] \subseteq Ids
  BY DEF AuthInv, AuthTypeOK, AuthRecords
<1>7. /\ c \in auth0'.clients <=> c \in auth0.clients
      /\ c \in auth0'.roles <=> c \in auth0.roles
      /\ \A k \in Conns : c \in auth0'.enabled[k] <=> c \in auth0.enabled[k]
  <2>1. CASE c = None
    <3>1. /\ None \notin auth0.clients /\ None \notin auth0'.clients
          /\ None \notin auth0.roles /\ None \notin auth0'.roles
      BY <1>1, <1>6
    <3>2. \A k \in Conns : None \notin auth0.enabled[k] /\ None \notin auth0'.enabled[k]
      BY <1>1, <1>6
    <3> QED BY <2>1, <3>1, <3>2
  <2>2. CASE c # None
    BY <1>4, <2>2 DEF Elsewhere
  <2> QED BY <2>1, <2>2
<1>8. g # None => auth0'.viewers[g] = auth0.viewers[g]
  BY <1>5 DEF Elsewhere
<1>9. p \in Envs => auth0'.group[p] = auth0.group[p] /\ github'[p] = github[p]
  BY <1>1 DEF Elsewhere
<1> QED BY <1>2, <1>3, <1>7, <1>8, <1>9 DEF Untouched

LEMMA StaysSettled ==
  ASSUME AuthInv, NEW p \in Places, Untouched(p),
         conf'[p] = conf[p], settled'[p] = settled[p], p \in Envs => asked'[p] = asked[p],
         here \/ settled[p] = "unknown"
  PROVE  (Agrees(p))'
<1>1. Email \in Conns
  BY AppAuthAssumption
<1>2. PICK c, g : c = conf[p].client /\ g = conf[p].group
  OBVIOUS
<1>3. /\ c \in auth0'.clients <=> c \in auth0.clients
      /\ c \in auth0'.roles <=> c \in auth0.roles
      /\ \A k \in Conns : c \in auth0'.enabled[k] <=> c \in auth0.enabled[k]
      /\ g # None => auth0'.viewers[g] = auth0.viewers[g]
      /\ p \in Envs => auth0'.group[p] = auth0.group[p] /\ github'[p] = github[p]
  BY <1>2 DEF Untouched
<1>11. settled[p] = "set" /\ here' => (SetUp(p))'
  <2> SUFFICES ASSUME settled[p] = "set" PROVE (SetUp(p))'
    OBVIOUS
  <2>1. SetUp(p)
    BY DEF AuthInv, Agrees
  <2> QED BY <1>1, <1>2, <1>3, <2>1 DEF SetUp
<1>12. settled[p] = "connected" => p \in Envs /\ (here' => (Connected(p))')
  <2> SUFFICES ASSUME settled[p] = "connected" PROVE p \in Envs /\ (Connected(p))'
    OBVIOUS
  <2>1. p \in Envs /\ Connected(p)
    BY DEF AuthInv, Agrees
  <2> QED BY <1>2, <1>3, <2>1 DEF Connected
<1>13. settled[p] = "cleared" => (Cleared(p))'
  <2>1. settled[p] = "cleared" => Cleared(p)
    BY DEF AuthInv, Agrees
  <2> QED BY <1>3, <2>1 DEF Cleared
<1> QED BY <1>11, <1>12, <1>13 DEF Agrees

\* A request takes a step that leaves what it is not about as it was.
LEMMA Acts ==
  ASSUME AuthInv, NEW r \in Requests, NEW q \in Work, q = my[r],
         NEW n \in Rest \cup Work, my' = [my EXCEPT ![r] = n], alone' = alone,
         AuthTypeOK', conf' \in Documents, Owned',
         \A p \in Places : made[p] <= made'[p],
         n \in Work /\ n.client # None => n.client[2] <= made'[n.client[1]],
         alone[r] /\ n \in Work => (SoFar(n))',
         \A p \in Places \ {q.at} : settled[p] # "unknown" => Untouched(p),
         \A p \in Places \ {q.at} :
           settled[p] # "unknown" => conf'[p] = conf[p] /\ here' /\ (p \in Envs => asked'[p] = asked[p]),
         n \in Work /\ q.op # "delete" =>
           /\ n.at = q.at /\ n.op = q.op /\ n.copy = q.copy
           /\ n.pc = "putConns" => n.seen = auth0.enabled \/ (n.seen = q.seen /\ q.pc = "putConns"),
         \A p \in Places : settled'[p] = settled[p] \/ (p = q.at /\ alone[r]),
         settled'[q.at] # "unknown" => n \in Rest /\ alone[r] /\ here' /\ (Agrees(q.at))'
  PROVE  AuthInv'
<1>1. /\ my' \in [Requests -> Rest \cup Work] /\ my'[r] = n
      /\ \A s \in Requests \ {r} : my'[s] = my[s]
      /\ Running(r)
  BY InWork DEF AuthInv
<1>2. /\ \A s \in Requests \ {r} : Running(s)' <=> Running(s)
      /\ Running(r)' <=> n \in Work
      /\ alone[r] => \A s \in Requests \ {r} : ~ Running(s)
  BY <1>1, InWork DEF Running, AuthInv
<1>3. ASSUME NEW s \in Requests, Running(s)', my'[s].client # None
      PROVE  my'[s].client[2] <= made'[my'[s].client[1]]
  <2>1. CASE s = r
    BY <1>1, <1>2, <1>3, <2>1
  <2>2. CASE s # r
    <3>1. PICK z \in Work : z = my[s]
      BY <1>2, <1>3, <2>2, InWork
    <3>2. z.client # None /\ my'[s] = z
      BY <1>1, <1>3, <2>2, <3>1
    <3>3. z.client \in Ids
      BY <3>2 DEF Work, Records, Maybe
    <3>4. z.client[2] \in Nat /\ z.client[1] \in Places
      BY <3>3, AppAuthAssumption DEF Ids
    <3>5. z.client[2] <= made[z.client[1]]
      BY <1>2, <1>3, <2>2, <3>1, <3>2 DEF AuthInv
    <3>6. made[z.client[1]] \in Nat /\ made'[z.client[1]] \in Nat
      BY <3>4, AppAuthAssumption DEF AuthInv, AuthTypeOK
    <3> QED BY <3>2, <3>4, <3>5, <3>6
  <2> QED BY <2>1, <2>2
<1>4. ASSUME NEW s \in Requests, NEW t \in Requests, Running(s)', alone'[s], t # s
      PROVE  ~ Running(t)'
  BY <1>1, <1>2, <1>4 DEF AuthInv
<1>5. ASSUME NEW s \in Requests, Running(s)', alone'[s]
      PROVE  (SoFar(my[s]))'
  <2>1. s = r
    BY <1>1, <1>2, <1>5 DEF AuthInv
  <2>2. (SoFar(n))' /\ my'[s] = n
    BY <1>1, <1>2, <1>5, <2>1
  <2> QED BY <2>2
<1>6. q.at \in Places
  BY DEF Work, Records
<1>7. Owned' /\ conf' \in Documents /\ AuthTypeOK'
  OBVIOUS
<1>8. ASSUME NEW p \in Places, p # q.at
      PROVE  /\ (Agrees(p))'
             /\ settled'[p] # "unknown" => here' /\ \A s \in Requests : Running(s)' => (Spares(my[s], p))'
  <2>1. settled'[p] = settled[p]
    BY <1>8
  <2>2. CASE settled[p] = "unknown"
    BY <2>1, <2>2 DEF Agrees
  <2>3. CASE settled[p] # "unknown"
    <3>1. conf'[p] = conf[p] /\ here' /\ here /\ (p \in Envs => asked'[p] = asked[p])
      BY <1>8, <2>3 DEF AuthInv
    <3>2. /\ (Agrees(p))'
          /\ \A k \in Conns : conf[p].client \in auth0'.enabled[k] <=> conf[p].client \in auth0.enabled[k]
      BY <1>8, <2>1, <2>3, <3>1, StaysSettled DEF Untouched
    <3>3. ASSUME NEW s \in Requests, Running(s)' PROVE (Spares(my[s], p))'
      <4>1. PICK z \in Work : z = my[s]
        BY <1>1, <1>2, <3>3, InWork
      <4>2. Spares(z, p)
        BY <1>1, <1>2, <2>3, <3>3, <4>1 DEF AuthInv
      <4>3. CASE s # r
        <5>1. (Spares(z, p))'
          BY <3>1, <3>2, <4>2 DEF Spares
        <5> QED BY <1>1, <4>1, <4>3, <5>1
      <4>4. CASE s = r
        <5>1. z = q /\ n \in Work
          BY <1>2, <3>3, <4>1, <4>4
        <5>2. (Spares(n, p))'
          BY <3>1, <3>2, <4>2, <5>1 DEF Spares
        <5> QED BY <1>1, <4>4, <5>2
      <4> QED BY <4>3, <4>4
    <3> QED BY <3>1, <3>2, <3>3
  <2> QED BY <2>2, <2>3
<1>9. ASSUME NEW p \in Places, p = q.at
      PROVE  /\ (Agrees(p))'
             /\ settled'[p] # "unknown" => here' /\ \A s \in Requests : Running(s)' => (Spares(my[s], p))'
  <2>1. CASE settled'[p] = "unknown"
    BY <2>1 DEF Agrees
  <2>2. CASE settled'[p] # "unknown"
    <3>1. \A s \in Requests : ~ Running(s)'
      BY <1>2, <1>9, <2>2, InWork
    <3> QED BY <1>9, <2>2, <3>1
  <2> QED BY <2>1, <2>2
<1>10. \A p \in Places : (Agrees(p))'
  BY <1>8, <1>9
<1>11. \A p \in Places : settled'[p] # "unknown" =>
         here' /\ \A s \in Requests : Running(s)' => (Spares(my[s], p))'
  BY <1>8, <1>9
<1> QED BY <1>1, <1>3, <1>4, <1>5, <1>7, <1>10, <1>11 DEF AuthInv

LEMMA UnsettledAtWork ==
  ASSUME AuthInv, NEW r \in Requests, NEW q \in Work, q = my[r]
  PROVE  /\ settled[q.at] = "unknown" /\ q.at \in Places
         /\ q.op = "delete" => \A p \in Places : settled[p] = "unknown"
<1>1. Running(r) /\ q.at \in Places
  BY InWork DEF Work, Records
<1> QED BY <1>1 DEF AuthInv, Spares

\* What was a request's before its step is the request's after it.
Same(q, n) ==
  /\ n.at = q.at /\ n.op = q.op /\ n.copy = q.copy
  /\ n.pc = "putConns" => n.seen = auth0.enabled \/ (n.seen = q.seen /\ q.pc = "putConns")

\* A step that leaves the row alone.
LEMMA Calling ==
  ASSUME AuthInv, NEW r \in Requests, NEW q \in Work, q = my[r],
         NEW n \in Rest \cup Work, my' = [my EXCEPT ![r] = n],
         UNCHANGED <<row, made, history>>,
         auth0' \in AuthRecords, github' \in GithubRecords, Owned',
         \A i \in auth0'.clients \cup auth0'.roles : i[2] <= made[i[1]],
         n \in Work => n.client = q.client \/ n.client \in auth0.clients,
         alone[r] /\ n \in Work => (SoFar(n))',
         \A p \in Places \ {q.at} : settled[p] # "unknown" => Untouched(p),
         n \in Work /\ q.op # "delete" => Same(q, n)
  PROVE  AuthInv'
<1>1. /\ here' = here /\ conf' = conf /\ made' = made /\ alone' = alone /\ settled' = settled /\ asked' = asked
  BY DEF row, history
<1>2. AuthTypeOK'
  BY <1>1 DEF AuthInv, AuthTypeOK, AuthRecords, GithubRecords, Maybe
<1>3. settled[q.at] = "unknown" /\ q.at \in Places /\ Running(r)
  BY UnsettledAtWork, InWork
<1>4. \A p \in Places : made[p] <= made'[p]
  BY <1>1, AppAuthAssumption DEF AuthInv, AuthTypeOK
<1>5. n \in Work /\ n.client # None => n.client[2] <= made[n.client[1]]
  <2> SUFFICES ASSUME n \in Work, n.client # None PROVE n.client[2] <= made[n.client[1]]
    OBVIOUS
  <2>1. CASE n.client \in auth0.clients
    BY <2>1 DEF AuthInv, AuthTypeOK
  <2>2. CASE n.client = q.client
    BY <1>3, <2>2 DEF AuthInv
  <2> QED BY <2>1, <2>2
<1>6. \A p \in Places \ {q.at} : settled[p] # "unknown" => conf'[p] = conf[p] /\ here' /\ (p \in Envs => asked'[p] = asked[p])
  BY <1>1 DEF AuthInv
<1>7. n \in Work /\ q.op # "delete" =>
        /\ n.at = q.at /\ n.op = q.op /\ n.copy = q.copy
        /\ n.pc = "putConns" => n.seen = auth0.enabled \/ (n.seen = q.seen /\ q.pc = "putConns")
  BY DEF Same
<1>8. conf' \in Documents
  BY <1>1 DEF AuthInv
<1> QED BY <1>1, <1>2, <1>3, <1>4, <1>5, <1>6, <1>7, <1>8, Acts

LEMMA Advances ==
  ASSUME NEW q \in Work, NEW c \in Calls, NEW n, n = [q EXCEPT !.pc = c]
  PROVE  /\ n \in Records /\ n.pc = c /\ n.op = q.op /\ n.at = q.at /\ n.copy = q.copy
         /\ n.client = q.client /\ n.group = q.group /\ n.want = q.want /\ n.todo = q.todo
         /\ n.seen = q.seen /\ n.doomed = q.doomed /\ q \in Records /\ Fits(q)
BY DEF Work, Records

\* Which operations make a call.
LEMMA OpAt ==
  ASSUME NEW q \in Work
  PROVE  /\ q \in Records /\ Fits(q)
         /\ q.pc \in {"client", "role", "group", "lookUp", "viewer", "save", "putSecrets", "putVars"} => q.op = "setup"
         /\ q.pc \in {"existing", "putPasswordless"} => q.op = "conns"
         /\ q.pc \in {"readConns", "putConns"} => q.op \in {"setup", "conns"}
         /\ q.pc \in {"forgetSecrets", "forgetDomain"} => q.op \in {"remove", "delete"}
         /\ q.pc \in {"readGroup", "dropGroup", "dropRoles"} => q.op \in {"remove", "redundant", "delete"}
         /\ q.pc \in {"dropClient", "clear"} => q.op \in {"remove", "redundant", "delete", "dropM2m"}
         /\ q.pc \in {"nextEnv", "dropRow"} => q.op = "delete"
         /\ q.pc \in {"search", "newM2m", "grant", "saveM2m"} => q.op = "m2m"
         /\ q.pc = "rotate" => q.op = "rotate"
         /\ q.pc \in Calls /\ q.at \in Places
<1>1. q \in Records /\ Fits(q)
  BY DEF Work
<1>2. q.op \in {"setup", "conns", "remove", "redundant", "delete", "m2m", "rotate", "dropM2m"}
      /\ q.pc \in Calls /\ q.at \in Places
  BY <1>1 DEF Records, Ops, EnvOps
<1>3. /\ q.op = "setup" => q.pc \in SettingUp
      /\ q.op = "conns" => q.pc \in Connecting
      /\ q.op = "remove" => q.pc \in Clearing
      /\ q.op = "redundant" => q.pc \in Clearing \ {"forgetSecrets", "forgetDomain"}
      /\ q.op = "delete" => q.pc \in Clearing \cup {"nextEnv", "dropRow"}
      /\ q.op = "m2m" => q.pc \in Registers
      /\ q.op = "rotate" => q.pc = "rotate"
      /\ q.op = "dropM2m" => q.pc \in {"dropClient", "clear"}
  BY <1>1 DEF Fits
<1>4. CASE q.op = "setup"
  BY <1>1, <1>2, <1>3, <1>4 DEF SettingUp
<1>5. CASE q.op = "conns"
  BY <1>1, <1>2, <1>3, <1>5 DEF Connecting
<1>6. CASE q.op = "remove"
  BY <1>1, <1>2, <1>3, <1>6 DEF Clearing
<1>10. CASE q.op = "redundant"
  BY <1>1, <1>2, <1>3, <1>10 DEF Clearing
<1>9. CASE q.op = "delete"
  BY <1>1, <1>2, <1>3, <1>9 DEF Clearing
<1>7. CASE q.op = "m2m"
  BY <1>1, <1>2, <1>3, <1>7 DEF Registers
<1>8. CASE q.op \in {"rotate", "dropM2m"}
  BY <1>1, <1>2, <1>3, <1>8
<1> QED BY <1>2, <1>4, <1>5, <1>6, <1>7, <1>8, <1>9, <1>10

-----------------------------------------------------------------------------
(* Calls that fail *)

LEMMA FailingKeeps ==
  ASSUME AuthInv, NEW r \in Requests, NEW q \in Work, q = my[r],
         my' = [my EXCEPT ![r] = Ended("failed")], UNCHANGED <<row, made, history, auth0, github>>
  PROVE  AuthInv'
<1>1. PICK n : n = Ended("failed")
  OBVIOUS
<1>2. n \in Rest /\ n \notin Work
  BY <1>1, InWork DEF Rest
<1>3. /\ auth0' \in AuthRecords /\ github' \in GithubRecords /\ Owned'
      /\ \A i \in auth0'.clients \cup auth0'.roles : i[2] <= made[i[1]]
  BY DEF AuthInv, AuthTypeOK, AuthRecords, GithubRecords, Maybe, Owned
<1>4. \A p \in Places \ {q.at} : Untouched(p)
  BY DEF Untouched
<1> QED BY <1>1, <1>2, <1>3, <1>4, Calling

LEMMA CallFailsKeeps ==
  ASSUME AuthInv, NEW r \in Requests, CallFails(r)
  PROVE  AuthInv'
<1>1. PICK q \in Work : q = my[r]
  BY InWork DEF CallFails
<1> QED BY <1>1, FailingKeeps DEF CallFails, Fails, Step

-----------------------------------------------------------------------------
(* create_auth_settings *)

LEMMA NewRoleKeeps ==
  ASSUME AuthInv, NEW r \in Requests, NewRole(r)
  PROVE  AuthInv'
<1>1. /\ my[r].pc = "role" /\ my' = [my EXCEPT ![r] = [my[r] EXCEPT !.pc = "group"]]
      /\ auth0' = [auth0 EXCEPT !.roles = @ \cup {my[r].client}]
      /\ UNCHANGED <<row, github, made, history>>
  BY DEF NewRole, Call, Step, bounds
<1>2. PICK q \in Work : q = my[r]
  BY <1>1, InWork DEF Running
<1>3. /\ q.pc = "role" /\ q.op = "setup" /\ q \in Records /\ Fits(q) /\ q.client \in Ids /\ q.client[1] = q.at
      /\ "group" \in Calls
  BY <1>1, <1>2, OpAt DEF Fits, Records, Maybe, Of, Calls, SettingUp
<1>4. PICK n : n = [q EXCEPT !.pc = "group"]
  OBVIOUS
<1>5. /\ n \in Records /\ n.pc = "group" /\ n.op = q.op /\ n.at = q.at /\ n.copy = q.copy
      /\ n.client = q.client /\ n.group = q.group /\ n.want = q.want /\ n.todo = q.todo
      /\ n.seen = q.seen /\ n.doomed = q.doomed
  BY <1>3, <1>4, Advances
<1>6. n \in Work
  BY <1>3, <1>5 DEF Work, Fits, SettingUp
<1>7. /\ auth0 \in AuthRecords /\ auth0' \in AuthRecords /\ github' \in GithubRecords /\ github' = github
      /\ auth0'.roles = auth0.roles \cup {q.client}
      /\ auth0'.clients = auth0.clients /\ auth0'.group = auth0.group
      /\ auth0'.viewers = auth0.viewers /\ auth0'.enabled = auth0.enabled
      /\ here' = here /\ conf' = conf
  BY <1>1, <1>2, <1>3 DEF AuthInv, AuthTypeOK, AuthRecords, GithubRecords, Maybe, row
<1>8. Owned' /\ Same(q, n) /\ \A p \in Places \ {q.at} : Untouched(p)
  <2>1. Owned' /\ Elsewhere(q.at) /\ Same(q, n) /\ q.at \in Places
    BY <1>3, <1>5, <1>7 DEF AuthInv, Owned, Elsewhere, Same, Records
  <2> QED BY <1>7, <2>1, PlacesApart
<1>9. \A i \in auth0'.clients \cup auth0'.roles : i[2] <= made[i[1]]
  <2>1. q.client[2] <= made[q.client[1]]
    BY <1>2, <1>3, InWork, AppAuthAssumption DEF AuthInv, Ids, Places, Fits
  <2> QED BY <1>7, <2>1 DEF AuthInv, AuthTypeOK
<1>10. alone[r] => (SoFar(n))'
  <2> SUFFICES ASSUME alone[r] PROVE (SoFar(n))'
    OBVIOUS
  <2>1. SoFar(q)
    BY <1>2, InWork DEF AuthInv
  <2> QED BY <1>3, <1>5, <1>7, <2>1 DEF SoFar, SetSoFar, ConnsSoFar
<1> QED BY <1>1, <1>2, <1>4, <1>5, <1>6, <1>7, <1>8, <1>9, <1>10, Calling

\* A step that only reads.
LEMMA Looking ==
  ASSUME AuthInv, NEW r \in Requests, NEW q \in Work, q = my[r],
         NEW n \in Work, my' = [my EXCEPT ![r] = n],
         UNCHANGED <<row, auth0, github, made, history>>,
         n.client = q.client \/ n.client \in auth0.clients,
         alone[r] /\ SoFar(q) => SoFar(n),
         q.op # "delete" => Same(q, n)
  PROVE  AuthInv'
<1>1. /\ auth0' \in AuthRecords /\ github' \in GithubRecords /\ Owned'
      /\ \A i \in auth0'.clients \cup auth0'.roles : i[2] <= made[i[1]]
  BY DEF AuthInv, AuthTypeOK, AuthRecords, GithubRecords, Maybe, Owned
<1>2. \A p \in Places \ {q.at} : Untouched(p)
  BY DEF Untouched
<1>3. here' = here /\ conf' = conf
  BY DEF row
<1>4. alone[r] => (SoFar(n))'
  <2> SUFFICES ASSUME alone[r] PROVE (SoFar(n))'
    OBVIOUS
  <2>1. SoFar(n)
    BY InWork DEF AuthInv
  <2> QED BY <1>3, <2>1 DEF SoFar, SetSoFar, ConnsSoFar, ClearedSoFar
<1> QED BY <1>1, <1>2, <1>4, Calling

\* A step that writes to GitHub only.
LEMMA Putting ==
  ASSUME AuthInv, NEW r \in Requests, NEW q \in Work, q = my[r],
         NEW n \in Work, my' = [my EXCEPT ![r] = n],
         UNCHANGED <<row, auth0, made, history>>, github' \in GithubRecords,
         \A e \in Envs \ {q.at} : github'[e] = github[e],
         n.client = q.client,
         alone[r] => (SoFar(n))',
         q.op # "delete" => Same(q, n)
  PROVE  AuthInv'
<1>1. /\ auth0' \in AuthRecords /\ Owned'
      /\ \A i \in auth0'.clients \cup auth0'.roles : i[2] <= made[i[1]]
  BY DEF AuthInv, AuthTypeOK, AuthRecords, Maybe, Owned
<1>2. \A p \in Places \ {q.at} : Untouched(p)
  BY DEF Untouched
<1> QED BY <1>1, <1>2, Calling

\* A step that writes to Auth0 only.
LEMMA Writing ==
  ASSUME AuthInv, NEW r \in Requests, NEW q \in Work, q = my[r],
         NEW n \in Work, my' = [my EXCEPT ![r] = n],
         UNCHANGED <<row, github, made, history>>,
         auth0' \in AuthRecords, Owned', Elsewhere(q.at),
         \A i \in auth0'.clients \cup auth0'.roles : i[2] <= made[i[1]],
         n.client = q.client,
         alone[r] => (SoFar(n))',
         q.op # "delete" => Same(q, n)
  PROVE  AuthInv'
<1>1. q.at \in Places
  BY DEF Work, Records
<1>2. \A p \in Places \ {q.at} : Untouched(p)
  BY <1>1, PlacesApart
<1>3. github' \in GithubRecords
  BY DEF AuthInv, AuthTypeOK, GithubRecords, Maybe
<1> QED BY <1>2, <1>3, Calling

LEMMA Stands ==
  ASSUME AuthInv
  PROVE  /\ auth0 \in AuthRecords /\ github \in GithubRecords /\ Owned /\ conf \in Documents
         /\ \A i \in auth0.clients \cup auth0.roles : i[2] <= made[i[1]]
BY DEF AuthInv, AuthTypeOK, AuthRecords, GithubRecords, Maybe

\* What a request that is alone knows.
LEMMA Knows ==
  ASSUME AuthInv, NEW r \in Requests, NEW q \in Work, q = my[r], alone[r]
  PROVE  SoFar(q)
BY InWork DEF AuthInv

-----------------------------------------------------------------------------
(* create_auth_settings: making the client and its group *)

LEMMA CreateKeeps ==
  ASSUME AuthInv, NEW r \in Requests, NEW from, NEW to,
         \/ from = "client" /\ to = "role"
         \/ from = "newM2m" /\ to = "grant",
         Create(r, from, to)
  PROVE  AuthInv'
<1>1. PICK q \in Work : q = my[r] /\ q.pc = from
  BY InWork DEF Create, Running
<1>2. PICK new : new = <<q.at, made[q.at] + 1>>
  OBVIOUS
<1>3. /\ made[q.at] < MaxMade /\ made' = [made EXCEPT ![q.at] = @ + 1]
      /\ my' = [my EXCEPT ![r] = [q EXCEPT !.pc = to, !.client = new]]
      /\ auth0' = [auth0 EXCEPT !.clients = @ \cup {new}]
      /\ UNCHANGED <<row, github, mix, fails, history>>
  BY <1>1, <1>2 DEF Create, Step
<1>4. /\ q \in Records /\ Fits(q) /\ q.at \in Places
      /\ from = "client" => q.op = "setup"
      /\ from = "newM2m" => q.op = "m2m"
  BY <1>1, OpAt
<1>5. made \in [Places -> 0 .. MaxMade] /\ MaxMade \in Nat
  BY AppAuthAssumption DEF AuthInv, AuthTypeOK
<1>6. /\ new \in Ids /\ new[1] = q.at /\ new[2] = made[q.at] + 1 /\ new # None
      /\ made'[q.at] = made[q.at] + 1 /\ \A p \in Places : made[p] <= made'[p]
      /\ made' \in [Places -> 0 .. MaxMade]
  BY <1>2, <1>3, <1>4, <1>5, AppAuthAssumption DEF Ids, Places
<1>7. PICK n : n = [q EXCEPT !.pc = to, !.client = new]
  OBVIOUS
<1>8. to \in Calls
  BY DEF Calls, SettingUp, Registers
<1>9. /\ n \in Records /\ n.pc = to /\ n.op = q.op /\ n.at = q.at /\ n.copy = q.copy
      /\ n.client = new /\ n.group = q.group /\ n.want = q.want /\ n.todo = q.todo
      /\ n.seen = q.seen /\ n.doomed = q.doomed
  BY <1>4, <1>6, <1>7, <1>8 DEF Records, Maybe
<1>10. n \in Work
  BY <1>1, <1>4, <1>6, <1>9 DEF Work, Fits, SettingUp, Registers, Of
<1>11. /\ auth0 \in AuthRecords /\ auth0' \in AuthRecords
       /\ auth0'.clients = auth0.clients \cup {new}
       /\ auth0'.roles = auth0.roles /\ auth0'.group = auth0.group
       /\ auth0'.viewers = auth0.viewers /\ auth0'.enabled = auth0.enabled
       /\ here' = here /\ conf' = conf /\ github' = github
       /\ alone' = alone /\ settled' = settled /\ asked' = asked
  BY <1>3, <1>6, Stands DEF AuthRecords, row, history
<1>12. Owned' /\ Elsewhere(q.at)
  BY <1>6, <1>11 DEF AuthInv, Owned, Elsewhere
<1>13. \A p \in Places \ {q.at} : Untouched(p)
  BY <1>4, <1>11, <1>12, PlacesApart
<1>14. AuthTypeOK'
  <2>1. \A i \in auth0'.clients \cup auth0'.roles : i[2] <= made'[i[1]]
    <3> SUFFICES ASSUME NEW i \in auth0'.clients \cup auth0'.roles PROVE i[2] <= made'[i[1]]
      OBVIOUS
    <3>1. CASE i = new
      BY <1>5, <1>6, <3>1, <1>4
    <3>2. CASE i # new
      <4>1. i \in Ids /\ i[2] <= made[i[1]]
        BY <1>11, <3>2, Stands DEF AuthRecords
      <4>2. i[1] \in Places /\ i[2] \in Nat
        BY <4>1, <1>5 DEF Ids
      <4>3. made[i[1]] <= made'[i[1]] /\ made[i[1]] \in Nat /\ made'[i[1]] \in Nat
        BY <1>5, <1>6, <4>2
      <4> QED BY <4>1, <4>2, <4>3
    <3> QED BY <3>1, <3>2
  <2> QED BY <1>6, <1>11, <2>1 DEF AuthInv, AuthTypeOK, AuthRecords, Maybe
<1>15. alone[r] => (SoFar(n))'
  <2> SUFFICES ASSUME alone[r] PROVE (SoFar(n))'
    OBVIOUS
  <2>1. SoFar(q)
    BY <1>1, Knows
  <2> QED BY <1>1, <1>4, <1>9, <1>11, <2>1 DEF SoFar, SetSoFar, ConnsSoFar
<1>16. /\ n.client[2] <= made'[n.client[1]]
       /\ \A p \in Places \ {q.at} :
            settled[p] # "unknown" => conf'[p] = conf[p] /\ here' /\ (p \in Envs => asked'[p] = asked[p])
       /\ settled[q.at] = "unknown" /\ conf' \in Documents
       /\ n.at = q.at /\ n.op = q.op /\ n.copy = q.copy /\ n.pc # "putConns"
  BY <1>1, <1>4, <1>5, <1>6, <1>9, <1>11, UnsettledAtWork, Stands DEF AuthInv
<1> QED BY <1>1, <1>3, <1>6, <1>7, <1>10, <1>11, <1>12, <1>13, <1>14, <1>15, <1>16, Acts

LEMMA NewGroupKeeps ==
  ASSUME AuthInv, NEW r \in Requests, NewGroup(r)
  PROVE  AuthInv'
<1>1. PICK q \in Work : q = my[r] /\ q.pc = "group"
  BY InWork DEF NewGroup, Running
<1>2. /\ q.op = "setup" /\ q \in Records /\ Fits(q) /\ q.client \in Ids /\ q.client[1] = q.at
      /\ q.at \in Envs /\ "lookUp" \in Calls /\ "viewer" \in Calls
  BY <1>1, OpAt DEF Fits, Records, Maybe, Of, Calls, SettingUp, EnvOps
<1>3. UNCHANGED <<row, github, made, history>> /\ here' = here /\ conf' = conf /\ github' = github
  BY DEF NewGroup, bounds, row
<1>4. CASE auth0.group[q.at] = None
  <2>1. PICK n : n = [q EXCEPT !.pc = "viewer", !.group = q.client]
    OBVIOUS
  <2>2. my' = [my EXCEPT ![r] = n] /\ auth0' = [auth0 EXCEPT !.group[q.at] = q.client]
    BY <1>1, <1>4, <2>1 DEF NewGroup, Step
  <2>3. /\ n \in Records /\ n.pc = "viewer" /\ n.op = q.op /\ n.at = q.at /\ n.copy = q.copy
        /\ n.client = q.client /\ n.group = q.client /\ n.want = q.want /\ n.todo = q.todo
        /\ n.seen = q.seen /\ n.doomed = q.doomed
    BY <1>2, <2>1 DEF Records, Maybe
  <2>4. n \in Work
    BY <1>1, <1>2, <2>3 DEF Work, Fits, SettingUp, Of
  <2>5. /\ auth0' \in AuthRecords
        /\ auth0'.group[q.at] = q.client
        /\ \A e \in Envs \ {q.at} : auth0'.group[e] = auth0.group[e]
        /\ auth0'.clients = auth0.clients /\ auth0'.roles = auth0.roles
        /\ auth0'.viewers = auth0.viewers /\ auth0'.enabled = auth0.enabled
    BY <1>2, <2>2, Stands DEF AuthRecords, Maybe
  <2>6. Owned' /\ Elsewhere(q.at) /\ Same(q, n)
    BY <1>2, <1>3, <2>3, <2>5, Stands DEF Owned, Elsewhere, Same, Of
  <2>7. \A i \in auth0'.clients \cup auth0'.roles : i[2] <= made[i[1]]
    BY <2>5, Stands
  <2>8. alone[r] => (SoFar(n))'
    <3> SUFFICES ASSUME alone[r] PROVE (SoFar(n))'
      OBVIOUS
    <3>1. SoFar(q)
      BY <1>1, Knows
    <3> QED BY <1>1, <1>2, <1>3, <2>3, <2>5, <3>1 DEF SoFar, SetSoFar, ConnsSoFar
  <2> QED BY <1>1, <1>3, <2>2, <2>3, <2>4, <2>5, <2>6, <2>7, <2>8, Writing
<1>5. CASE auth0.group[q.at] # None
  <2>1. PICK n : n = [q EXCEPT !.pc = "lookUp"]
    OBVIOUS
  <2>2. my' = [my EXCEPT ![r] = n] /\ auth0' = auth0
    BY <1>1, <1>5, <2>1 DEF NewGroup, Call, Step
  <2>3. /\ n \in Records /\ n.pc = "lookUp" /\ n.op = q.op /\ n.at = q.at /\ n.copy = q.copy
        /\ n.client = q.client /\ n.group = q.group /\ n.want = q.want /\ n.todo = q.todo
        /\ n.seen = q.seen /\ n.doomed = q.doomed
    BY <1>2, <2>1, Advances
  <2>4. n \in Work
    BY <1>1, <1>2, <2>3 DEF Work, Fits, SettingUp
  <2>5. SoFar(q) => SoFar(n)
    BY <1>1, <1>2, <2>3 DEF SoFar, SetSoFar, ConnsSoFar
  <2> QED BY <1>1, <1>3, <2>2, <2>3, <2>4, <2>5, Looking DEF Same
<1> QED BY <1>4, <1>5

LEMMA LookUpGroupKeeps ==
  ASSUME AuthInv, NEW r \in Requests, LookUpGroup(r)
  PROVE  AuthInv'
<1>1. PICK q \in Work : q = my[r] /\ q.pc = "lookUp"
  BY InWork DEF LookUpGroup, Step, Running
<1>2. /\ q.op = "setup" /\ q \in Records /\ Fits(q) /\ q.at \in Envs /\ "viewer" \in Calls
      /\ auth0.group[q.at] \in Maybe /\ Of(auth0.group[q.at], q.at)
  BY <1>1, OpAt, Stands DEF Fits, Calls, SettingUp, EnvOps, AuthRecords, Owned
<1>3. PICK n : n = [q EXCEPT !.pc = "viewer", !.group = auth0.group[q.at]]
  OBVIOUS
<1>4. my' = [my EXCEPT ![r] = n] /\ UNCHANGED <<row, auth0, github, made, history>>
  BY <1>1, <1>3 DEF LookUpGroup, Step, bounds
<1>5. /\ n \in Records /\ n.pc = "viewer" /\ n.op = q.op /\ n.at = q.at /\ n.copy = q.copy
      /\ n.client = q.client /\ n.group = auth0.group[q.at] /\ n.want = q.want /\ n.todo = q.todo
      /\ n.seen = q.seen /\ n.doomed = q.doomed
  BY <1>2, <1>3 DEF Records
<1>6. n \in Work
  BY <1>1, <1>2, <1>5 DEF Work, Fits, SettingUp
<1>7. SoFar(q) => SoFar(n)
  BY <1>1, <1>2, <1>5 DEF SoFar, SetSoFar, ConnsSoFar
<1> QED BY <1>1, <1>4, <1>5, <1>6, <1>7, Looking DEF Same

LEMMA AddViewerKeeps ==
  ASSUME AuthInv, NEW r \in Requests, AddViewer(r)
  PROVE  AuthInv'
<1>1. PICK q \in Work : q = my[r] /\ q.pc = "viewer"
  BY InWork DEF AddViewer, Running
<1>2. /\ q.op = "setup" /\ q \in Records /\ Fits(q) /\ q.client \in Ids /\ q.client[1] = q.at
      /\ q.at \in Envs /\ "readConns" \in Calls
  BY <1>1, OpAt DEF Fits, Records, Maybe, Of, Calls, SettingUp, EnvOps
<1>3. UNCHANGED <<row, github, made, history>> /\ here' = here /\ conf' = conf /\ github' = github
  BY DEF AddViewer, bounds, row
<1>4. CASE q.group # None /\ auth0.group[q.at] = q.group
  <2>1. PICK n : n = [q EXCEPT !.pc = "readConns"]
    OBVIOUS
  <2>2. PICK g \in Ids : g = q.group
    BY <1>2, <1>4 DEF Records, Maybe
  <2>3. my' = [my EXCEPT ![r] = n] /\ auth0' = [auth0 EXCEPT !.viewers[g] = @ \cup {q.client}]
    BY <1>1, <1>4, <2>1, <2>2 DEF AddViewer, Call, Step
  <2>4. /\ n \in Records /\ n.pc = "readConns" /\ n.op = q.op /\ n.at = q.at /\ n.copy = q.copy
        /\ n.client = q.client /\ n.group = q.group /\ n.want = q.want /\ n.todo = q.todo
        /\ n.seen = q.seen /\ n.doomed = q.doomed
    BY <1>2, <2>1, Advances
  <2>5. n \in Work
    BY <1>1, <1>2, <2>4 DEF Work, Fits, SettingUp
  <2>6. /\ auth0' \in AuthRecords
        /\ auth0'.viewers[g] = auth0.viewers[g] \cup {q.client}
        /\ \A i \in Ids \ {g} : auth0'.viewers[i] = auth0.viewers[i]
        /\ auth0'.clients = auth0.clients /\ auth0'.roles = auth0.roles
        /\ auth0'.group = auth0.group /\ auth0'.enabled = auth0.enabled
    BY <1>2, <2>2, <2>3, Stands DEF AuthRecords, Maybe
  <2>7. g[1] = q.at
    BY <1>2, <1>4, <2>2 DEF Fits, Of
  <2>8. Owned' /\ Elsewhere(q.at) /\ Same(q, n)
    BY <1>2, <1>3, <2>2, <2>4, <2>6, <2>7, Stands DEF Owned, Elsewhere, Same, Of
  <2>9. \A i \in auth0'.clients \cup auth0'.roles : i[2] <= made[i[1]]
    BY <2>6, Stands
  <2>10. alone[r] => (SoFar(n))'
    <3> SUFFICES ASSUME alone[r] PROVE (SoFar(n))'
      OBVIOUS
    <3>1. SoFar(q)
      BY <1>1, Knows
    <3> QED BY <1>1, <1>2, <1>3, <1>4, <2>2, <2>4, <2>6, <3>1 DEF SoFar, SetSoFar, ConnsSoFar
  <2> QED BY <1>1, <1>3, <2>3, <2>4, <2>5, <2>6, <2>8, <2>9, <2>10, Writing
<1>5. CASE ~ (q.group # None /\ auth0.group[q.at] = q.group)
  <2>1. my' = [my EXCEPT ![r] = Ended("failed")] /\ auth0' = auth0
    BY <1>1, <1>5 DEF AddViewer, Fails, Step
  <2> QED BY <1>1, <1>3, <2>1, FailingKeeps
<1> QED BY <1>4, <1>5

-----------------------------------------------------------------------------
(* The connections *)

LEMMA ReadConnsKeeps ==
  ASSUME AuthInv, NEW r \in Requests, ReadConns(r)
  PROVE  AuthInv'
<1>1. PICK q \in Work : q = my[r] /\ q.pc = "readConns"
  BY InWork DEF ReadConns, Step, Running
<1>2. /\ q.op \in {"setup", "conns"} /\ q \in Records /\ Fits(q) /\ q.at \in Envs /\ "putConns" \in Calls
      /\ auth0.enabled \in [Conns -> SUBSET Ids]
  BY <1>1, OpAt, Stands DEF Fits, Calls, SettingUp, EnvOps, AuthRecords
<1>3. PICK todo : todo = (q.todo \ q.want) \cup (q.want \ q.todo)
  OBVIOUS
<1>4. PICK n : n = [q EXCEPT !.pc = "putConns", !.seen = auth0.enabled, !.todo = todo]
  OBVIOUS
<1>5. my' = [my EXCEPT ![r] = n] /\ UNCHANGED <<row, auth0, github, made, history>>
  BY <1>1, <1>3, <1>4 DEF ReadConns, Step, bounds
<1>6. todo \in SUBSET (Envs \cup Conns)
  BY <1>2, <1>3 DEF Records
<1>7. /\ n \in Records /\ n.pc = "putConns" /\ n.op = q.op /\ n.at = q.at /\ n.copy = q.copy
      /\ n.client = q.client /\ n.group = q.group /\ n.want = q.want /\ n.todo = todo
      /\ n.seen = auth0.enabled /\ n.doomed = q.doomed
  BY <1>2, <1>4, <1>6 DEF Records
<1>8. n \in Work
  BY <1>1, <1>2, <1>7 DEF Work, Fits, SettingUp, Connecting
<1>9. SoFar(q) => SoFar(n)
  <2> SUFFICES ASSUME SoFar(q) PROVE SoFar(n)
    OBVIOUS
  <2>1. Serves(n) = Serves(q)
    BY <1>7 DEF Serves
  <2>2. q.op = "setup" => q.todo = {} /\ SetSoFar(n)
    BY <1>1, <1>2, <1>7 DEF SoFar, SetSoFar, Fits
  <2>3. ConnsSoFar(n)
    <3>1. \A k \in Conns :
            /\ k \notin n.todo /\ k \in n.want => Serves(n) \in auth0.enabled[k]
            /\ k \notin n.todo /\ k \notin n.want /\ n.op = "conns" => Serves(n) \notin auth0.enabled[k]
      <4>1. CASE q.op = "setup"
        BY <1>3, <1>7, <2>2, <4>1
      <4>2. CASE q.op = "conns"
        <5>1. \A k \in Conns : k \in q.todo <=> Serves(q) \in auth0.enabled[k]
          BY <1>1, <4>2 DEF SoFar, ConnsSoFar
        <5> QED BY <1>3, <1>7, <2>1, <5>1
      <4> QED BY <1>2, <4>1, <4>2
    <3>2. n.op = "conns" => (github[n.at].passwordless <=> Email \in n.want)
      BY <1>1, <1>7 DEF SoFar, ConnsSoFar
    <3> QED BY <1>7, <3>1, <3>2 DEF ConnsSoFar
  <2> QED BY <1>1, <1>2, <1>7, <2>2, <2>3 DEF SoFar
<1> QED BY <1>1, <1>5, <1>7, <1>8, <1>9, Looking DEF Same

LEMMA PutConnKeeps ==
  ASSUME AuthInv, NEW r \in Requests, NEW k \in Conns, PutConn(r, k)
  PROVE  AuthInv'
<1>1. PICK q \in Work : q = my[r] /\ q.pc = "putConns" /\ k \in q.todo
  BY InWork DEF PutConn, Running
<1>2. PICK c : c = Serves(q)
  OBVIOUS
<1>3. PICK n : n = [q EXCEPT !.todo = @ \ {k}]
  OBVIOUS
<1>4. PICK now : now = IF (c \in q.seen[k]) = (k \in q.want) THEN auth0.enabled[k]
                       ELSE IF k \in q.want THEN q.seen[k] \cup {c} ELSE q.seen[k] \ {c}
  OBVIOUS
<1>5. /\ q.op \in {"setup", "conns"} /\ q \in Records /\ Fits(q) /\ q.at \in Envs /\ q.at \in Places
      /\ q.want = q.want
  BY <1>1, OpAt DEF Fits, EnvOps, Records
<1>6. c \in Ids /\ c[1] = q.at
  <2>1. CASE q.op = "setup"
    BY <1>1, <1>2, <1>5, <2>1 DEF Serves, Fits, Records, Maybe, Of
  <2>2. CASE q.op = "conns"
    <3>1. q.copy \in Documents /\ q.copy[q.at].client # None
      BY <1>5, <2>2 DEF Fits, Records
    <3>2. q.copy[q.at].client \in Maybe /\ Of(q.copy[q.at].client, q.at)
      BY <1>5, <3>1 DEF Documents
    <3> QED BY <1>2, <2>2, <3>1, <3>2 DEF Serves, Maybe, Of
  <2> QED BY <1>5, <2>1, <2>2
<1>7. Client(r) = c
  BY <1>1, <1>2 DEF Client, Serves
<1>8. /\ my' = [my EXCEPT ![r] = n] /\ UNCHANGED <<row, github, made, history>>
      /\ here' = here /\ conf' = conf /\ github' = github
  BY <1>1, <1>3 DEF PutConn, Step, bounds, row
<1>9. /\ n \in Records /\ n.pc = "putConns" /\ n.op = q.op /\ n.at = q.at /\ n.copy = q.copy
      /\ n.client = q.client /\ n.group = q.group /\ n.want = q.want /\ n.todo = q.todo \ {k}
      /\ n.seen = q.seen /\ n.doomed = q.doomed
  BY <1>1, <1>3, <1>5 DEF Records
<1>10. n \in Work
  BY <1>1, <1>5, <1>9 DEF Work, Fits
<1>11. /\ auth0' \in AuthRecords
       /\ auth0'.enabled[k] = now
       /\ \A j \in Conns \ {k} : auth0'.enabled[j] = auth0.enabled[j]
       /\ auth0'.clients = auth0.clients /\ auth0'.roles = auth0.roles
       /\ auth0'.group = auth0.group /\ auth0'.viewers = auth0.viewers
  <2>1. q.seen \in [Conns -> SUBSET Ids] /\ auth0 \in AuthRecords
    BY <1>5, Stands DEF Records
  <2>2. CASE (c \in q.seen[k]) = (k \in q.want)
    <3>1. auth0' = auth0
      BY <1>1, <1>7, <2>2 DEF PutConn
    <3> QED BY <1>4, <2>1, <2>2, <3>1 DEF AuthRecords
  <2>3. CASE ~ ((c \in q.seen[k]) = (k \in q.want))
    <3>1. auth0' = [auth0 EXCEPT !.enabled[k] = now]
      BY <1>1, <1>4, <1>7, <2>3 DEF PutConn
    <3>2. now \in SUBSET Ids
      BY <1>4, <1>6, <2>1, <2>3
    <3> QED BY <2>1, <3>1, <3>2 DEF AuthRecords
  <2> QED BY <2>2, <2>3
<1>12. Owned' /\ Same(q, n)
  BY <1>1, <1>8, <1>9, <1>11, Stands DEF Owned, Same
<1>13. \A i \in auth0'.clients \cup auth0'.roles : i[2] <= made[i[1]]
  BY <1>11, Stands
<1>14. ASSUME NEW p \in Places \ {q.at}, settled[p] # "unknown"
       PROVE  Untouched(p)
  <2>1. Spares(q, p)
    BY <1>1, <1>14, InWork DEF AuthInv
  <2>2. PICK d \in Maybe : d = conf[p].client /\ d # c
    <3>1. conf[p].client \in Maybe /\ Of(conf[p].client, p)
      BY Stands DEF Documents
    <3>2. None \notin Ids
      BY AppAuthAssumption DEF Ids, Places
    <3> QED BY <1>6, <3>1, <3>2 DEF Of
  <2>3. d \in q.seen[k] <=> d \in auth0.enabled[k]
    BY <1>1, <2>1, <2>2 DEF Spares
  <2>4. d \in now <=> d \in auth0.enabled[k]
    BY <1>4, <2>2, <2>3
  <2>5. \A j \in Conns : d \in auth0'.enabled[j] <=> d \in auth0.enabled[j]
    BY <1>11, <2>4
  <2> QED BY <1>8, <1>11, <2>2, <2>5 DEF Untouched
<1>15. alone[r] => (SoFar(n))'
  <2> SUFFICES ASSUME alone[r] PROVE (SoFar(n))'
    OBVIOUS
  <2>1. SoFar(q)
    BY <1>1, Knows
  <2>2. Serves(n) = c
    BY <1>2, <1>9 DEF Serves
  <2>3. /\ \A j \in Conns : q.seen[j] = auth0.enabled[j] \/ j \notin q.todo
        /\ \A j \in Conns : j \notin q.todo /\ j \in q.want => c \in auth0.enabled[j]
        /\ \A j \in Conns : j \notin q.todo /\ j \notin q.want /\ q.op = "conns" => c \notin auth0.enabled[j]
        /\ q.op = "conns" => (github[q.at].passwordless <=> Email \in q.want)
    BY <1>1, <1>2, <1>5, <2>1 DEF SoFar, ConnsSoFar
  <2>4. k \in q.want <=> c \in now
    BY <1>1, <1>4, <2>3
  <2>5. (ConnsSoFar(n))'
    <3>1. ASSUME NEW j \in Conns
          PROVE  /\ n.seen[j] = auth0'.enabled[j] \/ j \notin n.todo
                 /\ j \notin n.todo /\ j \in n.want => Serves(n) \in auth0'.enabled[j]
                 /\ j \notin n.todo /\ j \notin n.want /\ n.op = "conns" => Serves(n) \notin auth0'.enabled[j]
      <4>1. CASE j = k
        BY <1>9, <1>11, <2>2, <2>4, <4>1
      <4>2. CASE j # k
        BY <1>9, <1>11, <2>2, <2>3, <4>2
      <4> QED BY <4>1, <4>2
    <3> QED BY <1>8, <1>9, <2>3, <3>1 DEF ConnsSoFar, Serves
  <2>6. q.op = "setup" => (SetSoFar(n))'
    BY <1>1, <1>8, <1>9, <1>11, <2>1 DEF SoFar, SetSoFar
  <2> QED BY <1>1, <1>5, <1>8, <1>9, <2>1, <2>5, <2>6 DEF SoFar
<1>16. github' \in GithubRecords
  BY <1>8, Stands
<1> QED BY <1>1, <1>8, <1>9, <1>10, <1>11, <1>12, <1>13, <1>14, <1>15, <1>16, Calling

\* The last call of a request: what it leaves is in agreement.
LEMMA Finishing ==
  ASSUME AuthInv, NEW r \in Requests, NEW from, NEW q \in Work, q = my[r], Finish(r, from),
         UNCHANGED <<auth0, made>>, github' \in GithubRecords,
         \A e \in Envs \ {q.at} : github'[e] = github[e],
         conf' \in Documents, here' \in BOOLEAN, ~ here' => \A p \in Places : conf'[p] = Nothing,
         \A p \in Places \ {q.at} : settled[p] # "unknown" => conf'[p] = conf[p] /\ here',
         q.op = "conns" => q.at \in Envs,
         SoFar(q) /\ Leaves(q.op) # "unknown" => here',
         SoFar(q) /\ Leaves(q.op) = "set" => (SetUp(q.at))',
         SoFar(q) /\ Leaves(q.op) = "connected" /\ asked'[q.at] = q.want => (Connected(q.at))',
         SoFar(q) /\ Leaves(q.op) = "cleared" => (Cleared(q.at))'
  PROVE  AuthInv'
<1>1. /\ my' = [my EXCEPT ![r] = Ended("done")]
      /\ settled' = IF alone[r] THEN [settled EXCEPT ![q.at] = Leaves(q.op)] ELSE settled
      /\ asked' = IF q.op = "conns" THEN [asked EXCEPT ![q.at] = q.want] ELSE asked
      /\ alone' = alone
  BY DEF Finish, Step
<1>2. PICK n : n = Ended("done")
  OBVIOUS
<1>3. n \in Rest /\ n \notin Work
  BY <1>2, InWork DEF Rest
<1>4. q \in Records /\ q.at \in Places /\ q.want \in SUBSET Conns /\ q.op \in Ops /\ settled[q.at] = "unknown"
  BY UnsettledAtWork DEF Work, Records
<1>5. /\ Leaves(q.op) \in {"unknown", "set", "connected", "cleared"}
      /\ Leaves(q.op) = "connected" => q.op = "conns"
  BY DEF Leaves
<1>6. /\ settled \in [Places -> {"unknown", "set", "connected", "cleared"}]
      /\ asked \in [Envs -> SUBSET Conns]
  BY DEF AuthInv, AuthTypeOK
<1>7. /\ settled' \in [Places -> {"unknown", "set", "connected", "cleared"}]
      /\ \A p \in Places : settled'[p] = settled[p] \/ (p = q.at /\ alone[r])
      /\ settled'[q.at] # "unknown" => alone[r] /\ settled'[q.at] = Leaves(q.op)
  BY <1>1, <1>4, <1>5, <1>6
<1>8. /\ asked' \in [Envs -> SUBSET Conns]
      /\ \A p \in Envs \ {q.at} : asked'[p] = asked[p]
      /\ q.op = "conns" => asked'[q.at] = q.want
  BY <1>1, <1>4, <1>6
<1>9. /\ auth0' = auth0 /\ made' = made /\ auth0' \in AuthRecords
      /\ \A p \in Places : made[p] <= made'[p]
  BY Stands, AppAuthAssumption DEF AuthInv, AuthTypeOK
<1>10. AuthTypeOK'
  <2>1. conf' \in [Places -> [client : Maybe, group : Maybe]]
        /\ \A p \in Places : conf'[p].client # None => conf'[p].client[1] = p
    BY DEF Documents, Of
  <2> QED BY <1>1, <1>7, <1>8, <1>9, <2>1 DEF AuthInv, AuthTypeOK, GithubRecords, Maybe
<1>11. Owned'
  BY <1>9, Stands DEF Owned
<1>12. \A p \in Places \ {q.at} : Untouched(p)
  BY <1>9 DEF Untouched
<1>13. settled'[q.at] # "unknown" => here' /\ (Agrees(q.at))'
  <2> SUFFICES ASSUME settled'[q.at] # "unknown" PROVE here' /\ (Agrees(q.at))'
    OBVIOUS
  <2>1. SoFar(q) /\ Leaves(q.op) # "unknown" /\ settled'[q.at] = Leaves(q.op)
    BY <1>7, Knows
  <2>2. /\ Leaves(q.op) = "set" => (SetUp(q.at))'
        /\ Leaves(q.op) = "connected" => q.at \in Envs /\ (Connected(q.at))'
        /\ Leaves(q.op) = "cleared" => (Cleared(q.at))'
    BY <1>5, <1>8, <2>1
  <2> QED BY <2>1, <2>2 DEF Agrees
<1>14. \A p \in Places \ {q.at} :
         settled[p] # "unknown" => conf'[p] = conf[p] /\ here' /\ (p \in Envs => asked'[p] = asked[p])
  BY <1>8
<1>15. /\ my' = [my EXCEPT ![r] = n]
       /\ settled'[q.at] # "unknown" => n \in Rest /\ alone[r] /\ here' /\ (Agrees(q.at))'
  BY <1>1, <1>2, <1>3, <1>7, <1>13
<1>16. /\ n \in Rest \cup Work /\ alone' = alone
       /\ n \in Work /\ n.client # None => n.client[2] <= made'[n.client[1]]
       /\ alone[r] /\ n \in Work => (SoFar(n))'
       /\ \A p \in Places \ {q.at} : settled[p] # "unknown" => Untouched(p)
       /\ n \in Work /\ q.op # "delete" =>
            /\ n.at = q.at /\ n.op = q.op /\ n.copy = q.copy
            /\ n.pc = "putConns" => n.seen = auth0.enabled \/ (n.seen = q.seen /\ q.pc = "putConns")
  BY <1>1, <1>3, <1>12
<1> QED BY <1>7, <1>9, <1>10, <1>11, <1>14, <1>15, <1>16, Acts

LEMMA ConnsPutKeeps ==
  ASSUME AuthInv, NEW r \in Requests, ConnsPut(r)
  PROVE  AuthInv'
<1>1. PICK q \in Work : q = my[r] /\ q.pc = "putConns" /\ q.todo = {}
  BY InWork DEF ConnsPut, Running
<1>2. /\ q \in Records /\ Fits(q) /\ q.at \in Places /\ q.op \in {"setup", "conns"} /\ q.at \in Envs
      /\ "save" \in Calls /\ Unread \in [Conns -> SUBSET Ids]
  BY <1>1, OpAt DEF Fits, EnvOps, Calls, SettingUp, Unread
<1>3. UNCHANGED <<row, auth0, github, made>> /\ here' = here /\ conf' = conf /\ github' = github /\ auth0' = auth0
  BY DEF ConnsPut, bounds, row
<1>4. CASE q.op = "setup" /\ Step(r, "putConns", [my[r] EXCEPT !.pc = "save", !.seen = Unread])
           /\ UNCHANGED history
  <2>1. PICK n : n = [q EXCEPT !.pc = "save", !.seen = Unread]
    OBVIOUS
  <2>2. my' = [my EXCEPT ![r] = n]
    BY <1>1, <1>4, <2>1 DEF Step
  <2>3. /\ n \in Records /\ n.pc = "save" /\ n.op = q.op /\ n.at = q.at /\ n.copy = q.copy
        /\ n.client = q.client /\ n.group = q.group /\ n.want = q.want /\ n.todo = q.todo
        /\ n.doomed = q.doomed
    BY <1>2, <2>1 DEF Records
  <2>4. n \in Work
    BY <1>1, <1>2, <1>4, <2>3 DEF Work, Fits, SettingUp
  <2>5. SoFar(q) => SoFar(n)
    <3> SUFFICES ASSUME SoFar(q) PROVE SoFar(n)
      OBVIOUS
    <3>1. q.client \in auth0.enabled[Email]
      <4>1. Email \in q.want /\ Email \in Conns /\ Serves(q) = q.client
        BY <1>2, <1>4, AppAuthAssumption DEF Fits, Serves
      <4> QED BY <1>1, <1>4, <4>1 DEF SoFar, ConnsSoFar
    <3> QED BY <1>1, <1>2, <1>4, <2>3, <3>1 DEF SoFar, SetSoFar, ConnsSoFar
  <2> QED BY <1>1, <1>3, <1>4, <2>2, <2>3, <2>4, <2>5, Looking DEF Same
<1>5. CASE q.op = "conns" /\ Finish(r, "putConns")
  <2>1. Leaves(q.op) = "connected" /\ q.at \in Envs
    BY <1>2, <1>5 DEF Leaves
  <2>2. SoFar(q) /\ asked'[q.at] = q.want => (Connected(q.at))'
    <3> SUFFICES ASSUME SoFar(q), asked'[q.at] = q.want PROVE (Connected(q.at))'
      OBVIOUS
    <3>1. Serves(q) = conf[q.at].client /\ here
      BY <1>1, <1>5 DEF SoFar, Serves
    <3>2. \A k \in Conns : /\ k \in q.want => Serves(q) \in auth0.enabled[k]
                           /\ k \notin q.want => Serves(q) \notin auth0.enabled[k]
      BY <1>1, <1>5 DEF SoFar, ConnsSoFar
    <3>3. github[q.at].passwordless <=> Email \in q.want
      BY <1>1, <1>5 DEF SoFar, ConnsSoFar
    <3>4. github[q.at].passwordless \in BOOLEAN
      BY <2>1, Stands DEF GithubRecords
    <3> QED BY <1>3, <3>1, <3>2, <3>3, <3>4 DEF Connected
  <2>3. /\ conf' \in Documents /\ here' \in BOOLEAN /\ (~ here' => \A p \in Places : conf'[p] = Nothing)
        /\ github' \in GithubRecords
        /\ \A p \in Places : settled[p] # "unknown" => here'
        /\ SoFar(q) => here'
    BY <1>3, Stands DEF AuthInv, AuthTypeOK, SoFar
  <2> QED BY <1>1, <1>3, <1>5, <2>1, <2>2, <2>3, Finishing
<1> QED BY <1>1, <1>4, <1>5 DEF ConnsPut

LEMMA ReadExistingKeeps ==
  ASSUME AuthInv, NEW r \in Requests, ReadExisting(r)
  PROVE  AuthInv'
<1>1. PICK q \in Work : q = my[r] /\ q.pc = "existing"
  BY InWork DEF ReadExisting, Step, Running
<1>2. q.op = "conns" /\ q \in Records /\ Fits(q) /\ "putPasswordless" \in Calls
  BY <1>1, OpAt DEF Calls, Connecting
<1>3. PICK todo : todo = {k \in Conns : Serves(q) \in auth0.enabled[k]}
  OBVIOUS
<1>4. PICK n : n = [q EXCEPT !.pc = "putPasswordless", !.todo = todo]
  OBVIOUS
<1>5. my' = [my EXCEPT ![r] = n] /\ UNCHANGED <<row, auth0, github, made, history>>
  <2>1. Client(r) = Serves(q)
    BY <1>1 DEF Client, Serves
  <2> QED BY <1>1, <1>3, <1>4, <2>1 DEF ReadExisting, Step, bounds
<1>6. /\ n \in Records /\ n.pc = "putPasswordless" /\ n.op = q.op /\ n.at = q.at /\ n.copy = q.copy
      /\ n.client = q.client /\ n.group = q.group /\ n.want = q.want /\ n.todo = todo
      /\ n.seen = q.seen /\ n.doomed = q.doomed
  BY <1>2, <1>3, <1>4 DEF Records
<1>7. n \in Work
  BY <1>1, <1>2, <1>6 DEF Work, Fits, Connecting
<1>8. SoFar(q) => SoFar(n)
  BY <1>1, <1>2, <1>3, <1>6 DEF SoFar, ConnsSoFar, Serves
<1> QED BY <1>1, <1>5, <1>6, <1>7, <1>8, Looking DEF Same

LEMMA PutPasswordlessKeeps ==
  ASSUME AuthInv, NEW r \in Requests, PutPasswordless(r)
  PROVE  AuthInv'
<1>1. PICK q \in Work : q = my[r] /\ q.pc = "putPasswordless"
  BY InWork DEF PutPasswordless, Call, Step, Running
<1>2. q.op = "conns" /\ q \in Records /\ Fits(q) /\ q.at \in Envs /\ "readConns" \in Calls
  BY <1>1, OpAt DEF Fits, Calls, Connecting, EnvOps
<1>3. PICK n : n = [q EXCEPT !.pc = "readConns"]
  OBVIOUS
<1>4. /\ my' = [my EXCEPT ![r] = n] /\ UNCHANGED <<row, auth0, made, history>>
      /\ github' = [github EXCEPT ![q.at].passwordless = Email \in q.want]
      /\ here' = here /\ conf' = conf /\ auth0' = auth0
  BY <1>1, <1>3 DEF PutPasswordless, Call, Step, bounds, row
<1>5. /\ n \in Records /\ n.pc = "readConns" /\ n.op = q.op /\ n.at = q.at /\ n.copy = q.copy
      /\ n.client = q.client /\ n.group = q.group /\ n.want = q.want /\ n.todo = q.todo
      /\ n.seen = q.seen /\ n.doomed = q.doomed
  BY <1>2, <1>3, Advances
<1>6. n \in Work
  BY <1>1, <1>2, <1>5 DEF Work, Fits, Connecting
<1>7. /\ github' \in GithubRecords /\ \A e \in Envs \ {q.at} : github'[e] = github[e]
      /\ github'[q.at].passwordless <=> Email \in q.want
  <2>1. CASE Email \in q.want
    <3>1. github' = [github EXCEPT ![q.at].passwordless = TRUE]
      BY <1>4, <2>1
    <3> QED BY <1>2, <2>1, <3>1, Stands DEF GithubRecords
  <2>2. CASE ~ (Email \in q.want)
    <3>1. github' = [github EXCEPT ![q.at].passwordless = FALSE]
      <4>1. (Email \in q.want) = FALSE
        BY <2>2
      <4> QED BY <1>4, <4>1
    <3> QED BY <1>2, <2>2, <3>1, Stands DEF GithubRecords
  <2> QED BY <2>1, <2>2
<1>8. alone[r] => (SoFar(n))'
  <2> SUFFICES ASSUME alone[r] PROVE (SoFar(n))'
    OBVIOUS
  <2>1. SoFar(q)
    BY <1>1, Knows
  <2> QED BY <1>1, <1>2, <1>4, <1>5, <1>7, <2>1 DEF SoFar, ConnsSoFar, Serves
<1> QED BY <1>1, <1>4, <1>5, <1>6, <1>7, <1>8, Putting DEF Same

-----------------------------------------------------------------------------
(* Saving the settings and publishing them *)

LEMMA SaveAuthSettingsKeeps ==
  ASSUME AuthInv, NEW r \in Requests, SaveAuthSettings(r)
  PROVE  AuthInv'
<1>1. PICK q \in Work : q = my[r] /\ q.pc = "save"
  BY InWork DEF SaveAuthSettings, Call, Step, Running
<1>2. /\ q.op = "setup" /\ q \in Records /\ Fits(q) /\ q.at \in Envs /\ q.at \in Places
      /\ "putSecrets" \in Calls
  BY <1>1, OpAt DEF Fits, Calls, SettingUp, EnvOps
<1>3. PICK n : n = [q EXCEPT !.pc = "putSecrets"]
  OBVIOUS
<1>4. /\ my' = [my EXCEPT ![r] = n] /\ UNCHANGED <<auth0, github, made, history>>
      /\ conf' = [q.copy EXCEPT ![q.at] = [client |-> q.client, group |-> q.group]]
      /\ here' = TRUE
      /\ auth0' = auth0 /\ github' = github /\ made' = made
      /\ alone' = alone /\ settled' = settled /\ asked' = asked
  BY <1>1, <1>3 DEF SaveAuthSettings, Save, Call, Step, bounds, history
<1>5. /\ n \in Records /\ n.pc = "putSecrets" /\ n.op = q.op /\ n.at = q.at /\ n.copy = q.copy
      /\ n.client = q.client /\ n.group = q.group /\ n.want = q.want /\ n.todo = q.todo
      /\ n.seen = q.seen /\ n.doomed = q.doomed
  BY <1>2, <1>3, Advances
<1>6. n \in Work
  BY <1>1, <1>2, <1>5 DEF Work, Fits, SettingUp
<1>7. /\ conf' \in Documents
      /\ conf'[q.at] = [client |-> q.client, group |-> q.group]
      /\ \A p \in Places \ {q.at} : conf'[p] = q.copy[p]
  <2>1. /\ q.copy \in Documents /\ q.client \in Maybe /\ q.group \in Maybe
        /\ Of(q.client, q.at) /\ Of(q.group, q.at)
    BY <1>2 DEF Records, Fits
  <2> QED BY <1>2, <1>4, <2>1 DEF Documents
<1>8. AuthTypeOK'
  <2>1. conf' \in [Places -> [client : Maybe, group : Maybe]]
        /\ \A p \in Places : conf'[p].client # None => conf'[p].client[1] = p
    BY <1>7 DEF Documents, Of
  <2> QED BY <1>4, <2>1 DEF AuthInv, AuthTypeOK, Maybe
<1>9. Owned' /\ (\A p \in Places : Untouched(p)) /\ \A p \in Places : made[p] <= made'[p]
  BY <1>4, Stands, AppAuthAssumption DEF Owned, Untouched, AuthInv, AuthTypeOK
<1>10. n.client # None => n.client[2] <= made'[n.client[1]]
  <2>1. Running(r)
    BY <1>1, InWork
  <2> QED BY <1>1, <1>4, <1>5, <2>1 DEF AuthInv
<1>11. alone[r] => (SoFar(n))'
  <2> SUFFICES ASSUME alone[r] PROVE (SoFar(n))'
    OBVIOUS
  <2>1. SoFar(q)
    BY <1>1, Knows
  <2> QED BY <1>1, <1>2, <1>4, <1>5, <1>7, <2>1 DEF SoFar, SetSoFar, ConnsSoFar
<1>12. ASSUME NEW p \in Places \ {q.at}, settled[p] # "unknown"
       PROVE  conf'[p] = conf[p] /\ here' /\ (p \in Envs => asked'[p] = asked[p])
  <2>1. Spares(q, p)
    BY <1>1, <1>12, InWork DEF AuthInv
  <2> QED BY <1>4, <1>7, <2>1 DEF Spares
<1>13. settled'[q.at] = "unknown"
  BY <1>1, <1>4, UnsettledAtWork
<1> QED BY <1>1, <1>4, <1>5, <1>6, <1>7, <1>8, <1>9, <1>10, <1>11, <1>12, <1>13, Acts

LEMMA PutSecretsKeeps ==
  ASSUME AuthInv, NEW r \in Requests, PutSecrets(r)
  PROVE  AuthInv'
<1>1. PICK q \in Work : q = my[r] /\ q.pc = "putSecrets"
  BY InWork DEF PutSecrets, Call, Step, Running
<1>2. q.op = "setup" /\ q \in Records /\ Fits(q) /\ q.at \in Envs /\ "putVars" \in Calls
  BY <1>1, OpAt DEF Fits, Calls, SettingUp, EnvOps
<1>3. PICK n : n = [q EXCEPT !.pc = "putVars"]
  OBVIOUS
<1>4. /\ my' = [my EXCEPT ![r] = n] /\ UNCHANGED <<row, auth0, made, history>>
      /\ github' = [github EXCEPT ![q.at].secret = q.client]
      /\ here' = here /\ conf' = conf /\ auth0' = auth0
  BY <1>1, <1>3 DEF PutSecrets, Call, Step, bounds, row
<1>5. /\ n \in Records /\ n.pc = "putVars" /\ n.op = q.op /\ n.at = q.at /\ n.copy = q.copy
      /\ n.client = q.client /\ n.group = q.group /\ n.want = q.want /\ n.todo = q.todo
      /\ n.seen = q.seen /\ n.doomed = q.doomed
  BY <1>2, <1>3, Advances
<1>6. n \in Work
  BY <1>1, <1>2, <1>5 DEF Work, Fits, SettingUp
<1>7. /\ github' \in GithubRecords /\ \A e \in Envs \ {q.at} : github'[e] = github[e]
      /\ github'[q.at].secret = q.client
  BY <1>2, <1>4, Stands DEF GithubRecords, Records
<1>8. alone[r] => (SoFar(n))'
  <2> SUFFICES ASSUME alone[r] PROVE (SoFar(n))'
    OBVIOUS
  <2>1. SoFar(q)
    BY <1>1, Knows
  <2> QED BY <1>1, <1>2, <1>4, <1>5, <1>7, <2>1 DEF SoFar, SetSoFar, ConnsSoFar
<1> QED BY <1>1, <1>4, <1>5, <1>6, <1>7, <1>8, Putting DEF Same

LEMMA PutVarsKeeps ==
  ASSUME AuthInv, NEW r \in Requests, PutVars(r)
  PROVE  AuthInv'
<1>1. PICK q \in Work : q = my[r] /\ q.pc = "putVars"
  BY InWork DEF PutVars, Finish, Step, Running
<1>2. q.op = "setup" /\ q \in Records /\ Fits(q) /\ q.at \in Envs /\ Leaves(q.op) = "set" /\ q.want = {Email}
  BY <1>1, OpAt DEF Fits, EnvOps, Leaves
<1>3. /\ Finish(r, "putVars") /\ UNCHANGED <<row, auth0, made>>
      /\ github' = [github EXCEPT ![q.at].domain = TRUE, ![q.at].passwordless = Email \in q.want]
      /\ here' = here /\ conf' = conf /\ auth0' = auth0
  BY <1>1 DEF PutVars, bounds, row
<1>4. /\ github' \in GithubRecords /\ \A e \in Envs \ {q.at} : github'[e] = github[e]
      /\ github'[q.at].secret = github[q.at].secret /\ github'[q.at].domain /\ github'[q.at].passwordless
      /\ github'[q.at].domain = TRUE /\ github'[q.at].passwordless = TRUE
  BY <1>2, <1>3, Stands DEF GithubRecords
<1>5. SoFar(q) => (SetUp(q.at))'
  <2> SUFFICES ASSUME SoFar(q) PROVE (SetUp(q.at))'
    OBVIOUS
  <2>1. /\ q.client \in auth0.clients /\ q.client \in auth0.roles /\ q.group # None
        /\ auth0.group[q.at] = q.group /\ q.client \in auth0.viewers[q.group]
        /\ q.client \in auth0.enabled[Email] /\ conf[q.at] = [client |-> q.client, group |-> q.group]
        /\ github[q.at].secret = q.client
    BY <1>1, <1>2 DEF SoFar, SetSoFar
  <2>2. github'[q.at] = [secret |-> q.client, domain |-> TRUE, passwordless |-> TRUE]
    BY <1>2, <1>4, <2>1 DEF GithubRecords
  <2> QED BY <1>3, <2>1, <2>2 DEF SetUp
<1>6. /\ conf' \in Documents /\ here' \in BOOLEAN /\ (~ here' => \A p \in Places : conf'[p] = Nothing)
      /\ \A p \in Places : settled[p] # "unknown" => here'
      /\ SoFar(q) => here'
  BY <1>3, Stands DEF AuthInv, AuthTypeOK, SoFar
<1> QED BY <1>1, <1>2, <1>3, <1>4, <1>5, <1>6, Finishing

-----------------------------------------------------------------------------
(* Removing settings, and deleting the app *)

LEMMA NextEnvKeeps ==
  ASSUME AuthInv, NEW r \in Requests, NextEnv(r)
  PROVE  AuthInv'
<1>1. PICK q \in Work : q = my[r] /\ q.pc = "nextEnv"
  BY InWork DEF NextEnv, Running
<1>2. /\ q.op = "delete" /\ q \in Records /\ Fits(q) /\ q.todo \subseteq Envs
      /\ "dropRow" \in Calls /\ "forgetSecrets" \in Calls
  BY <1>1, OpAt DEF Fits, Calls, Clearing
<1>3. UNCHANGED <<row, auth0, github, made, history>>
  BY DEF NextEnv, bounds
<1>4. CASE Call(r, "nextEnv", "dropRow")
  <2>1. PICK n : n = [q EXCEPT !.pc = "dropRow"]
    OBVIOUS
  <2>2. my' = [my EXCEPT ![r] = n]
    BY <1>1, <1>4, <2>1 DEF Call, Step
  <2>3. /\ n \in Records /\ n.pc = "dropRow" /\ n.op = q.op /\ n.at = q.at /\ n.copy = q.copy
        /\ n.client = q.client /\ n.group = q.group /\ n.want = q.want /\ n.todo = q.todo
        /\ n.seen = q.seen /\ n.doomed = q.doomed
    BY <1>2, <2>1, Advances
  <2>4. n \in Work
    BY <1>1, <1>2, <2>3 DEF Work, Fits, Clearing
  <2>5. SoFar(q) => SoFar(n)
    BY <1>1, <1>2, <2>3 DEF SoFar
  <2> QED BY <1>1, <1>2, <1>3, <2>2, <2>3, <2>4, <2>5, Looking
<1>5. ASSUME NEW e \in q.todo,
             Step(r, "nextEnv", [my[r] EXCEPT !.pc = "forgetSecrets", !.at = e, !.todo = @ \ {e}])
      PROVE  AuthInv'
  <2>1. PICK n : n = [q EXCEPT !.pc = "forgetSecrets", !.at = e, !.todo = @ \ {e}]
    OBVIOUS
  <2>2. my' = [my EXCEPT ![r] = n]
    BY <1>1, <1>5, <2>1 DEF Step
  <2>3. e \in Envs /\ e \in Places
    BY <1>2, <1>5 DEF Places
  <2>4. /\ n \in Records /\ n.pc = "forgetSecrets" /\ n.op = q.op /\ n.at = e /\ n.copy = q.copy
        /\ n.client = q.client /\ n.group = q.group /\ n.want = q.want /\ n.todo = q.todo \ {e}
        /\ n.seen = q.seen /\ n.doomed = q.doomed
    BY <1>2, <2>1, <2>3 DEF Records
  <2>5. n \in Work
    BY <1>1, <1>2, <2>3, <2>4 DEF Work, Fits, Clearing, EnvOps, Of
  <2>6. SoFar(q) => SoFar(n)
    BY <1>1, <1>2, <2>4 DEF SoFar
  <2> QED BY <1>1, <1>2, <1>3, <2>2, <2>4, <2>5, <2>6, Looking
<1> QED BY <1>1, <1>4, <1>5 DEF NextEnv

LEMMA ForgetSecretsKeeps ==
  ASSUME AuthInv, NEW r \in Requests, ForgetSecrets(r)
  PROVE  AuthInv'
<1>1. PICK q \in Work : q = my[r] /\ q.pc = "forgetSecrets"
  BY InWork DEF ForgetSecrets, Call, Step, Running
<1>2. /\ q.op \in {"remove", "delete"} /\ q \in Records /\ Fits(q) /\ q.at \in Envs
      /\ "forgetDomain" \in Calls
  BY <1>1, OpAt DEF Fits, Calls, Clearing, EnvOps
<1>3. PICK n : n = [q EXCEPT !.pc = "forgetDomain"]
  OBVIOUS
<1>4. /\ my' = [my EXCEPT ![r] = n] /\ UNCHANGED <<row, auth0, made, history>>
      /\ github' = [github EXCEPT ![q.at].secret = None]
      /\ here' = here /\ conf' = conf
  BY <1>1, <1>3 DEF ForgetSecrets, Call, Step, bounds, row
<1>5. /\ n \in Records /\ n.pc = "forgetDomain" /\ n.op = q.op /\ n.at = q.at /\ n.copy = q.copy
      /\ n.client = q.client /\ n.group = q.group /\ n.want = q.want /\ n.todo = q.todo
      /\ n.seen = q.seen /\ n.doomed = q.doomed
  BY <1>2, <1>3, Advances
<1>6. n \in Work
  BY <1>1, <1>2, <1>5 DEF Work, Fits, Clearing
<1>7. /\ github' \in GithubRecords /\ \A e \in Envs \ {q.at} : github'[e] = github[e]
      /\ github'[q.at].secret = None
  BY <1>2, <1>4, Stands DEF GithubRecords, Maybe
<1>8. alone[r] => (SoFar(n))'
  <2> SUFFICES ASSUME alone[r] PROVE (SoFar(n))'
    OBVIOUS
  <2>1. SoFar(q)
    BY <1>1, Knows
  <2> QED BY <1>1, <1>2, <1>4, <1>5, <1>7, <2>1 DEF SoFar, ClearedSoFar
<1> QED BY <1>1, <1>4, <1>5, <1>6, <1>7, <1>8, Putting DEF Same

LEMMA ForgetDomainKeeps ==
  ASSUME AuthInv, NEW r \in Requests, ForgetDomain(r)
  PROVE  AuthInv'
<1>1. PICK q \in Work : q = my[r] /\ q.pc = "forgetDomain"
  BY InWork DEF ForgetDomain, Call, Step, Running
<1>2. /\ q.op \in {"remove", "delete"} /\ q \in Records /\ Fits(q) /\ q.at \in Envs
      /\ "readGroup" \in Calls
  BY <1>1, OpAt DEF Fits, Calls, Clearing, EnvOps
<1>3. PICK n : n = [q EXCEPT !.pc = "readGroup"]
  OBVIOUS
<1>4. /\ my' = [my EXCEPT ![r] = n] /\ UNCHANGED <<row, auth0, made, history>>
      /\ github' = [github EXCEPT ![q.at].domain = FALSE]
      /\ here' = here /\ conf' = conf
  BY <1>1, <1>3 DEF ForgetDomain, Call, Step, bounds, row
<1>5. /\ n \in Records /\ n.pc = "readGroup" /\ n.op = q.op /\ n.at = q.at /\ n.copy = q.copy
      /\ n.client = q.client /\ n.group = q.group /\ n.want = q.want /\ n.todo = q.todo
      /\ n.seen = q.seen /\ n.doomed = q.doomed
  BY <1>2, <1>3, Advances
<1>6. n \in Work
  BY <1>1, <1>2, <1>5 DEF Work, Fits, Clearing
<1>7. /\ github' \in GithubRecords /\ \A e \in Envs \ {q.at} : github'[e] = github[e]
      /\ github'[q.at].secret = github[q.at].secret /\ ~ github'[q.at].domain
  BY <1>2, <1>4, Stands DEF GithubRecords, Maybe
<1>8. alone[r] => (SoFar(n))'
  <2> SUFFICES ASSUME alone[r] PROVE (SoFar(n))'
    OBVIOUS
  <2>1. SoFar(q)
    BY <1>1, Knows
  <2> QED BY <1>1, <1>2, <1>4, <1>5, <1>7, <2>1 DEF SoFar, ClearedSoFar
<1> QED BY <1>1, <1>4, <1>5, <1>6, <1>7, <1>8, Putting DEF Same

\* What a request that clears up found recorded of the place.
LEMMA Records1 ==
  ASSUME AuthInv, NEW q \in Work
  PROVE  /\ q.copy \in Documents /\ q.copy[q.at].client \in Maybe /\ q.copy[q.at].group \in Maybe
         /\ Of(q.copy[q.at].client, q.at) /\ Of(q.copy[q.at].group, q.at)
<1>1. q.copy \in Documents /\ q.at \in Places
  BY DEF Work, Records
<1> QED BY <1>1 DEF Documents

LEMMA ReadGroupKeeps ==
  ASSUME AuthInv, NEW r \in Requests, ReadGroup(r)
  PROVE  AuthInv'
<1>1. PICK q \in Work : q = my[r] /\ q.pc = "readGroup"
  BY InWork DEF ReadGroup, Running
<1>2. /\ q.op \in {"remove", "redundant", "delete"} /\ q \in Records /\ Fits(q) /\ q.at \in Envs
      /\ "dropGroup" \in Calls /\ "dropClient" \in Calls
  BY <1>1, OpAt DEF Fits, Calls, Clearing, EnvOps
<1>3. UNCHANGED <<row, auth0, github, made, history>>
  BY DEF ReadGroup, bounds
<1>4. CASE GroupStands(r)
  <2>1. PICK g \in Ids : g = q.copy[q.at].group /\ g[1] = q.at
    BY <1>1, <1>4, Records1 DEF GroupStands, Recorded, Maybe, Of
  <2>2. PICK n : n = [q EXCEPT !.pc = "dropGroup", !.doomed = auth0.viewers[g]]
    OBVIOUS
  <2>3. my' = [my EXCEPT ![r] = n]
    BY <1>1, <1>4, <2>1, <2>2 DEF ReadGroup, Recorded, Step
  <2>4. auth0.viewers[g] \in SUBSET Ids /\ \A i \in auth0.viewers[g] : i[1] = q.at
    BY <2>1, Stands DEF AuthRecords, Owned
  <2>5. /\ n \in Records /\ n.pc = "dropGroup" /\ n.op = q.op /\ n.at = q.at /\ n.copy = q.copy
        /\ n.client = q.client /\ n.group = q.group /\ n.want = q.want /\ n.todo = q.todo
        /\ n.seen = q.seen /\ n.doomed = auth0.viewers[g]
    BY <1>2, <2>2, <2>4 DEF Records
  <2>6. n \in Work
    BY <1>1, <1>2, <2>4, <2>5 DEF Work, Fits, Clearing
  <2>7. SoFar(q) => SoFar(n)
    BY <1>1, <1>2, <2>5 DEF SoFar, ClearedSoFar
  <2> QED BY <1>1, <1>3, <2>3, <2>5, <2>6, <2>7, Looking DEF Same
<1>5. CASE ~ GroupStands(r)
  <2>1. PICK n : n = [q EXCEPT !.pc = "dropClient"]
    OBVIOUS
  <2>2. my' = [my EXCEPT ![r] = n]
    BY <1>1, <1>5, <2>1 DEF ReadGroup, Call, Step
  <2>3. /\ n \in Records /\ n.pc = "dropClient" /\ n.op = q.op /\ n.at = q.at /\ n.copy = q.copy
        /\ n.client = q.client /\ n.group = q.group /\ n.want = q.want /\ n.todo = q.todo
        /\ n.seen = q.seen /\ n.doomed = q.doomed
    BY <1>2, <2>1, Advances
  <2>4. n \in Work
    BY <1>1, <1>2, <2>3 DEF Work, Fits, Clearing
  <2>5. SoFar(q) => SoFar(n)
    BY <1>1, <1>2, <2>3 DEF SoFar, ClearedSoFar
  <2> QED BY <1>1, <1>3, <2>2, <2>3, <2>4, <2>5, Looking DEF Same
<1> QED BY <1>4, <1>5

LEMMA DropGroupKeeps ==
  ASSUME AuthInv, NEW r \in Requests, DropGroup(r)
  PROVE  AuthInv'
<1>1. PICK q \in Work : q = my[r] /\ q.pc = "dropGroup"
  BY InWork DEF DropGroup, Running
<1>2. /\ q.op \in {"remove", "redundant", "delete"} /\ q \in Records /\ Fits(q) /\ q.at \in Envs
      /\ "dropRoles" \in Calls /\ \A i \in q.doomed : i[1] = q.at
  BY <1>1, OpAt DEF Fits, Calls, Clearing, EnvOps
<1>3. UNCHANGED <<row, github, made, history>> /\ here' = here /\ conf' = conf /\ github' = github
  BY DEF DropGroup, bounds, row
<1>4. CASE GroupStands(r)
  <2>1. PICK g \in Ids : g = q.copy[q.at].group /\ g[1] = q.at
    BY <1>1, <1>4, Records1 DEF GroupStands, Recorded, Maybe, Of
  <2>2. PICK n : n = [q EXCEPT !.pc = "dropRoles"]
    OBVIOUS
  <2>3. my' = [my EXCEPT ![r] = n] /\ auth0' = [auth0 EXCEPT !.group[q.at] = None, !.viewers[g] = {}]
    BY <1>1, <1>4, <2>1, <2>2 DEF DropGroup, Recorded, Call, Step
  <2>4. /\ n \in Records /\ n.pc = "dropRoles" /\ n.op = q.op /\ n.at = q.at /\ n.copy = q.copy
        /\ n.client = q.client /\ n.group = q.group /\ n.want = q.want /\ n.todo = q.todo
        /\ n.seen = q.seen /\ n.doomed = q.doomed
    BY <1>2, <2>2, Advances
  <2>5. n \in Work
    BY <1>1, <1>2, <2>4 DEF Work, Fits, Clearing
  <2>6. /\ auth0' \in AuthRecords
        /\ auth0'.group[q.at] = None /\ auth0'.viewers[g] = {}
        /\ \A e \in Envs \ {q.at} : auth0'.group[e] = auth0.group[e]
        /\ \A i \in Ids \ {g} : auth0'.viewers[i] = auth0.viewers[i]
        /\ auth0'.clients = auth0.clients /\ auth0'.roles = auth0.roles
        /\ auth0'.enabled = auth0.enabled
    BY <1>2, <2>1, <2>3, Stands DEF AuthRecords, Maybe
  <2>7. Owned' /\ Elsewhere(q.at) /\ Same(q, n)
    BY <1>2, <1>3, <2>1, <2>4, <2>6, Stands DEF Owned, Elsewhere, Same, Of
  <2>8. \A i \in auth0'.clients \cup auth0'.roles : i[2] <= made[i[1]]
    BY <2>6, Stands
  <2>9. alone[r] => (SoFar(n))'
    <3> SUFFICES ASSUME alone[r] PROVE (SoFar(n))'
      OBVIOUS
    <3>1. SoFar(q)
      BY <1>1, Knows
    <3> QED BY <1>1, <1>2, <1>3, <2>4, <3>1 DEF SoFar, ClearedSoFar
  <2> QED BY <1>1, <1>3, <2>3, <2>4, <2>5, <2>6, <2>7, <2>8, <2>9, Writing
<1>5. CASE ~ GroupStands(r)
  <2>1. my' = [my EXCEPT ![r] = Ended("failed")] /\ auth0' = auth0
    BY <1>1, <1>5 DEF DropGroup, Fails, Step
  <2> QED BY <1>1, <1>3, <2>1, FailingKeeps
<1> QED BY <1>4, <1>5

LEMMA DropRolesKeeps ==
  ASSUME AuthInv, NEW r \in Requests, DropRoles(r)
  PROVE  AuthInv'
<1>1. PICK q \in Work : q = my[r] /\ q.pc = "dropRoles"
  BY InWork DEF DropRoles, Call, Step, Running
<1>2. /\ q.op \in {"remove", "redundant", "delete"} /\ q \in Records /\ Fits(q) /\ q.at \in Envs
      /\ "dropClient" \in Calls /\ \A i \in q.doomed : i[1] = q.at
  BY <1>1, OpAt DEF Fits, Calls, Clearing, EnvOps
<1>3. PICK n : n = [q EXCEPT !.pc = "dropClient"]
  OBVIOUS
<1>4. /\ my' = [my EXCEPT ![r] = n] /\ UNCHANGED <<row, github, made, history>>
      /\ auth0' = [auth0 EXCEPT !.roles = @ \ q.doomed]
      /\ here' = here /\ conf' = conf /\ github' = github
  BY <1>1, <1>3 DEF DropRoles, Call, Step, bounds, row
<1>5. /\ n \in Records /\ n.pc = "dropClient" /\ n.op = q.op /\ n.at = q.at /\ n.copy = q.copy
      /\ n.client = q.client /\ n.group = q.group /\ n.want = q.want /\ n.todo = q.todo
      /\ n.seen = q.seen /\ n.doomed = q.doomed
  BY <1>2, <1>3, Advances
<1>6. n \in Work
  BY <1>1, <1>2, <1>5 DEF Work, Fits, Clearing
<1>7. /\ auth0' \in AuthRecords /\ auth0'.roles = auth0.roles \ q.doomed
      /\ auth0'.clients = auth0.clients /\ auth0'.group = auth0.group
      /\ auth0'.viewers = auth0.viewers /\ auth0'.enabled = auth0.enabled
  BY <1>4, Stands DEF AuthRecords
<1>8. Owned' /\ Elsewhere(q.at) /\ Same(q, n)
  BY <1>2, <1>4, <1>5, <1>7, Stands DEF Owned, Elsewhere, Same
<1>9. \A i \in auth0'.clients \cup auth0'.roles : i[2] <= made[i[1]]
  BY <1>7, Stands
<1>10. alone[r] => (SoFar(n))'
  <2> SUFFICES ASSUME alone[r] PROVE (SoFar(n))'
    OBVIOUS
  <2>1. SoFar(q)
    BY <1>1, Knows
  <2> QED BY <1>1, <1>2, <1>4, <1>5, <2>1 DEF SoFar, ClearedSoFar
<1> QED BY <1>1, <1>4, <1>5, <1>6, <1>7, <1>8, <1>9, <1>10, Writing

LEMMA DropClientKeeps ==
  ASSUME AuthInv, NEW r \in Requests, DropClient(r)
  PROVE  AuthInv'
<1>1. PICK q \in Work : q = my[r] /\ q.pc = "dropClient"
  BY InWork DEF DropClient, Call, Step, Running
<1>2. q.op \in {"remove", "redundant", "delete", "dropM2m"} /\ q \in Records /\ Fits(q) /\ "clear" \in Calls
  BY <1>1, OpAt DEF Calls, Clearing
<1>3. PICK n : n = [q EXCEPT !.pc = "clear"]
  OBVIOUS
<1>4. PICK c : c = q.copy[q.at].client
  OBVIOUS
<1>5. /\ my' = [my EXCEPT ![r] = n] /\ UNCHANGED <<row, github, made, history>>
      /\ auth0' = [auth0 EXCEPT !.clients = @ \ {c}]
      /\ here' = here /\ conf' = conf /\ github' = github
  BY <1>1, <1>3, <1>4 DEF DropClient, Recorded, Call, Step, bounds, row
<1>6. /\ n \in Records /\ n.pc = "clear" /\ n.op = q.op /\ n.at = q.at /\ n.copy = q.copy
      /\ n.client = q.client /\ n.group = q.group /\ n.want = q.want /\ n.todo = q.todo
      /\ n.seen = q.seen /\ n.doomed = q.doomed
  BY <1>2, <1>3, Advances
<1>7. n \in Work
  BY <1>1, <1>2, <1>6 DEF Work, Fits, Clearing
<1>8. /\ auth0' \in AuthRecords /\ auth0'.clients = auth0.clients \ {c}
      /\ auth0'.roles = auth0.roles /\ auth0'.group = auth0.group
      /\ auth0'.viewers = auth0.viewers /\ auth0'.enabled = auth0.enabled
  BY <1>5, Stands DEF AuthRecords
<1>9. Owned' /\ Elsewhere(q.at) /\ Same(q, n)
  <2>1. c \in Ids => c[1] = q.at
    <3>1. None \notin Ids
      BY AppAuthAssumption DEF Ids, Places
    <3> QED BY <1>1, <1>4, <3>1, Records1 DEF Of
  <2> QED BY <1>2, <1>5, <1>6, <1>8, <2>1, Stands DEF Owned, Elsewhere, Same
<1>10. \A i \in auth0'.clients \cup auth0'.roles : i[2] <= made[i[1]]
  BY <1>8, Stands
<1>11. alone[r] => (SoFar(n))'
  <2> SUFFICES ASSUME alone[r] PROVE (SoFar(n))'
    OBVIOUS
  <2>1. SoFar(q)
    BY <1>1, Knows
  <2> QED BY <1>1, <1>2, <1>5, <1>6, <2>1 DEF SoFar, ClearedSoFar
<1> QED BY <1>1, <1>5, <1>6, <1>7, <1>8, <1>9, <1>10, <1>11, Writing

LEMMA ClearSettingsKeeps ==
  ASSUME AuthInv, NEW r \in Requests, ClearSettings(r)
  PROVE  AuthInv'
<1>1. PICK q \in Work : q = my[r] /\ q.pc = "clear"
  BY InWork DEF ClearSettings, Running
<1>2. /\ q.op \in {"remove", "redundant", "delete", "dropM2m"} /\ q \in Records /\ Fits(q)
      /\ q.at \in Places /\ q.copy \in Documents /\ "nextEnv" \in Calls /\ settled[q.at] = "unknown"
      /\ q.op = "delete" => \A p \in Places : settled[p] = "unknown"
      /\ Running(r)
  BY <1>1, OpAt, UnsettledAtWork, InWork DEF Calls, Records
<1>3. PICK clear : clear = [q.copy EXCEPT ![q.at] = Nothing]
  OBVIOUS
<1>4. clear \in Documents /\ clear[q.at] = Nothing /\ \A p \in Places \ {q.at} : clear[p] = q.copy[p]
  <2>1. Nothing \in [client : Maybe, group : Maybe] /\ Of(Nothing.client, q.at) /\ Of(Nothing.group, q.at)
    BY DEF Nothing, Maybe, Of
  <2> QED BY <1>2, <1>3, <2>1 DEF Documents
<1>5. /\ UNCHANGED <<auth0, github, made>> /\ auth0' = auth0 /\ github' = github /\ made' = made
      /\ github' \in GithubRecords
  BY Stands DEF ClearSettings, bounds
<1>6. \/ conf' = clear /\ here'
      \/ conf' = conf /\ here' = here /\ q.copy[q.at] = Nothing /\ q.op # "dropM2m"
  BY <1>1, <1>3 DEF ClearSettings, Recorded, Save, row
<1>7. /\ conf' \in Documents /\ here' \in BOOLEAN
      /\ ~ here' => \A p \in Places : conf'[p] = Nothing
  BY <1>4, <1>6, Stands DEF AuthInv, AuthTypeOK, ClearSettings, Save, row
<1>8. SoFar(q) => here' /\ conf' = clear
  <2> SUFFICES ASSUME SoFar(q) PROVE here' /\ conf' = clear
    OBVIOUS
  <2>1. here /\ q.copy = conf
    BY <1>1 DEF SoFar
  <2>2. conf[q.at] = Nothing => clear = conf
    BY <1>2, <1>3, <2>1 DEF Documents
  <2> QED BY <1>6, <2>1, <2>2
<1>9. CASE q.op = "delete"
  <2>1. PICK n : n = [q EXCEPT !.pc = "nextEnv", !.copy = clear]
    OBVIOUS
  <2>2. /\ my' = [my EXCEPT ![r] = n] /\ UNCHANGED history
        /\ alone' = alone /\ settled' = settled /\ asked' = asked
    BY <1>1, <1>3, <1>9, <2>1 DEF ClearSettings, Step, history
  <2>3. /\ n \in Records /\ n.pc = "nextEnv" /\ n.op = q.op /\ n.at = q.at /\ n.copy = clear
        /\ n.client = q.client /\ n.group = q.group /\ n.want = q.want /\ n.todo = q.todo
        /\ n.seen = q.seen /\ n.doomed = q.doomed
    BY <1>2, <1>4, <2>1 DEF Records
  <2>4. n \in Work
    BY <1>1, <1>2, <1>9, <2>3 DEF Work, Fits, Clearing
  <2>5. AuthTypeOK'
    <3>1. conf' \in [Places -> [client : Maybe, group : Maybe]]
          /\ \A p \in Places : conf'[p].client # None => conf'[p].client[1] = p
      BY <1>7 DEF Documents, Of
    <3> QED BY <1>5, <1>7, <2>2, <3>1 DEF AuthInv, AuthTypeOK, Maybe
  <2>6. Owned' /\ \A p \in Places : made[p] <= made'[p]
    BY <1>5, Stands, AppAuthAssumption DEF Owned, AuthInv, AuthTypeOK
  <2>7. n.client = None
    BY <1>2, <1>9, <2>3 DEF Fits
  <2>8. alone[r] => (SoFar(n))'
    <3> SUFFICES ASSUME alone[r] PROVE (SoFar(n))'
      OBVIOUS
    <3>1. SoFar(q)
      BY <1>1, Knows
    <3> QED BY <1>1, <1>8, <1>9, <2>3, <3>1 DEF SoFar
  <2> QED BY <1>1, <1>2, <1>7, <1>9, <2>2, <2>4, <2>5, <2>6, <2>7, <2>8, Acts
<1>10. CASE q.op # "delete"
  <2>1. Finish(r, "clear")
    BY <1>1, <1>10 DEF ClearSettings
  <2>2. ASSUME NEW p \in Places \ {q.at}, settled[p] # "unknown"
        PROVE  conf'[p] = conf[p] /\ here'
    <3>1. Spares(q, p) /\ here
      BY <1>1, <1>2, <2>2 DEF AuthInv
    <3> QED BY <1>4, <1>6, <3>1 DEF Spares
  <2>3. Leaves(q.op) # "unknown" => q.op \in {"remove", "dropM2m"} /\ Leaves(q.op) = "cleared"
    BY <1>2, <1>10 DEF Leaves
  <2>4. SoFar(q) /\ Leaves(q.op) = "cleared" => (Cleared(q.at))'
    <3> SUFFICES ASSUME SoFar(q), Leaves(q.op) = "cleared" PROVE (Cleared(q.at))'
      OBVIOUS
    <3>1. conf'[q.at] = Nothing
      BY <1>4, <1>8
    <3>2. q.at \in Envs => github'[q.at].secret = None /\ ~ github'[q.at].domain
      <4>1. CASE q.op = "remove"
        BY <1>1, <1>5, <4>1 DEF SoFar, ClearedSoFar
      <4>2. CASE q.op = "dropM2m"
        BY <1>2, <4>2, AppAuthAssumption DEF Fits
      <4> QED BY <2>3, <4>1, <4>2
    <3> QED BY <3>1, <3>2 DEF Cleared
  <2>5. Leaves(q.op) # "set" /\ Leaves(q.op) # "connected" /\ q.op # "conns"
    BY <1>2, <2>3
  <2> QED BY <1>1, <1>5, <1>7, <1>8, <2>1, <2>2, <2>4, <2>5, Finishing
<1> QED BY <1>9, <1>10

LEMMA DropRowKeeps ==
  ASSUME AuthInv, NEW r \in Requests, DropRow(r)
  PROVE  AuthInv'
<1>1. PICK q \in Work : q = my[r] /\ q.pc = "dropRow"
  BY InWork DEF DropRow, Finish, Step, Running
<1>2. q.op = "delete" /\ Leaves(q.op) = "unknown" /\ \A p \in Places : settled[p] = "unknown"
  BY <1>1, OpAt, UnsettledAtWork DEF Leaves
<1>3. /\ Finish(r, "dropRow") /\ UNCHANGED <<auth0, made>> /\ github' = github
      /\ here' = FALSE /\ conf' = [p \in Places |-> Nothing]
  BY DEF DropRow, bounds
<1>4. conf' \in Documents
  BY <1>3 DEF Documents, Nothing, Maybe, Of
<1>5. github' \in GithubRecords
  BY <1>3, Stands
<1> QED BY <1>1, <1>2, <1>3, <1>4, <1>5, Finishing

-----------------------------------------------------------------------------
(* The machine-to-machine client *)

LEMMA SearchM2mKeeps ==
  ASSUME AuthInv, NEW r \in Requests, SearchM2m(r)
  PROVE  AuthInv'
<1>1. PICK q \in Work : q = my[r] /\ q.pc = "search"
  BY InWork DEF SearchM2m, Call, Step, Running
<1>2. q.op = "m2m" /\ q \in Records /\ Fits(q) /\ q.at = M2m /\ "newM2m" \in Calls /\ "saveM2m" \in Calls
  BY <1>1, OpAt DEF Fits, Calls, Registers
<1>3. UNCHANGED <<row, auth0, github, made, history>>
  BY DEF SearchM2m, bounds
<1>4. CASE Call(r, "search", "newM2m")
  <2>1. PICK n : n = [q EXCEPT !.pc = "newM2m"]
    OBVIOUS
  <2>2. my' = [my EXCEPT ![r] = n]
    BY <1>1, <1>4, <2>1 DEF Call, Step
  <2>3. /\ n \in Records /\ n.pc = "newM2m" /\ n.op = q.op /\ n.at = q.at /\ n.copy = q.copy
        /\ n.client = q.client /\ n.group = q.group /\ n.want = q.want /\ n.todo = q.todo
        /\ n.seen = q.seen /\ n.doomed = q.doomed
    BY <1>2, <2>1, Advances
  <2>4. n \in Work
    BY <1>1, <1>2, <2>3 DEF Work, Fits, Registers
  <2>5. SoFar(q) => SoFar(n)
    BY <1>1, <1>2, <2>3 DEF SoFar
  <2> QED BY <1>1, <1>3, <2>2, <2>3, <2>4, <2>5, Looking DEF Same
<1>5. ASSUME NEW i \in auth0.clients, i[1] = M2m,
             Step(r, "search", [my[r] EXCEPT !.pc = "saveM2m", !.client = i])
      PROVE  AuthInv'
  <2>1. PICK n : n = [q EXCEPT !.pc = "saveM2m", !.client = i]
    OBVIOUS
  <2>2. my' = [my EXCEPT ![r] = n]
    BY <1>1, <1>5, <2>1 DEF Step
  <2>3. i \in Ids /\ i # None
    BY Stands, AppAuthAssumption DEF AuthRecords, Ids, Places
  <2>4. /\ n \in Records /\ n.pc = "saveM2m" /\ n.op = q.op /\ n.at = q.at /\ n.copy = q.copy
        /\ n.client = i /\ n.group = q.group /\ n.want = q.want /\ n.todo = q.todo
        /\ n.seen = q.seen /\ n.doomed = q.doomed
    BY <1>2, <2>1, <2>3 DEF Records, Maybe
  <2>5. n \in Work
    BY <1>1, <1>2, <1>5, <2>3, <2>4 DEF Work, Fits, Registers, Of
  <2>6. SoFar(q) => SoFar(n)
    BY <1>1, <1>2, <2>4 DEF SoFar
  <2> QED BY <1>1, <1>3, <2>2, <2>4, <2>5, <2>6, Looking DEF Same
<1> QED BY <1>4, <1>5 DEF SearchM2m

LEMMA GrantM2mKeeps ==
  ASSUME AuthInv, NEW r \in Requests, GrantM2m(r)
  PROVE  AuthInv'
<1>1. PICK q \in Work : q = my[r] /\ q.pc = "grant"
  BY InWork DEF GrantM2m, Call, Fails, Step, Running
<1>2. /\ q.op = "m2m" /\ q \in Records /\ Fits(q) /\ q.at = M2m /\ q.at \in Places /\ "saveM2m" \in Calls
      /\ q.client # None
  BY <1>1, OpAt DEF Fits, Calls, Registers
<1>3. UNCHANGED <<row, github, made, history>>
  BY DEF GrantM2m, bounds
<1>4. CASE Call(r, "grant", "saveM2m") /\ UNCHANGED <<auth0, fails>>
  <2>1. PICK n : n = [q EXCEPT !.pc = "saveM2m"]
    OBVIOUS
  <2>2. my' = [my EXCEPT ![r] = n] /\ auth0' = auth0
    BY <1>1, <1>4, <2>1 DEF Call, Step
  <2>3. /\ n \in Records /\ n.pc = "saveM2m" /\ n.op = q.op /\ n.at = q.at /\ n.copy = q.copy
        /\ n.client = q.client /\ n.group = q.group /\ n.want = q.want /\ n.todo = q.todo
        /\ n.seen = q.seen /\ n.doomed = q.doomed
    BY <1>2, <2>1, Advances
  <2>4. n \in Work
    BY <1>1, <1>2, <2>3 DEF Work, Fits, Registers
  <2>5. SoFar(q) => SoFar(n)
    BY <1>1, <1>2, <2>3 DEF SoFar
  <2> QED BY <1>1, <1>3, <2>2, <2>3, <2>4, <2>5, Looking DEF Same
<1>5. CASE Fails(r, "grant") /\ auth0' = [auth0 EXCEPT !.clients = @ \ {my[r].client}]
  <2>1. PICK n : n = Ended("failed")
    OBVIOUS
  <2>2. n \in Rest /\ n \notin Work /\ my' = [my EXCEPT ![r] = n]
    BY <1>5, <2>1, InWork DEF Rest, Fails, Step
  <2>3. /\ auth0' \in AuthRecords /\ auth0'.clients = auth0.clients \ {q.client}
        /\ auth0'.roles = auth0.roles /\ auth0'.group = auth0.group
        /\ auth0'.viewers = auth0.viewers /\ auth0'.enabled = auth0.enabled
        /\ github' \in GithubRecords /\ github' = github
    BY <1>1, <1>3, <1>5, Stands DEF AuthRecords
  <2>4. Owned' /\ Elsewhere(q.at)
    <3>1. q.client[1] = q.at
      BY <1>2 DEF Fits, Of
    <3> QED BY <2>3, <3>1, Stands DEF Owned, Elsewhere
  <2>5. \A p \in Places \ {q.at} : Untouched(p)
    BY <1>2, <2>3, <2>4, PlacesApart
  <2>6. \A i \in auth0'.clients \cup auth0'.roles : i[2] <= made[i[1]]
    BY <2>3, Stands
  <2> QED BY <1>1, <1>3, <2>2, <2>3, <2>4, <2>5, <2>6, Calling
<1> QED BY <1>4, <1>5 DEF GrantM2m

LEMMA SaveM2mKeeps ==
  ASSUME AuthInv, NEW r \in Requests, SaveM2m(r)
  PROVE  AuthInv'
<1>1. PICK q \in Work : q = my[r] /\ q.pc = "saveM2m"
  BY InWork DEF SaveM2m, Finish, Step, Running
<1>2. /\ q.op = "m2m" /\ q \in Records /\ Fits(q) /\ q.at = M2m /\ q.at \in Places /\ q.at \notin Envs
      /\ q.client \in Maybe /\ Of(q.client, q.at) /\ q.copy \in Documents /\ Leaves(q.op) = "set"
  BY <1>1, OpAt, AppAuthAssumption DEF Fits, Records, Leaves
<1>3. /\ Finish(r, "saveM2m") /\ UNCHANGED <<auth0, made>> /\ auth0' = auth0 /\ github' = github
      /\ here' = TRUE /\ conf' = [q.copy EXCEPT ![q.at].client = q.client]
  BY <1>1, <1>2 DEF SaveM2m, Save, bounds
<1>4. /\ conf' \in Documents /\ conf'[q.at].client = q.client
      /\ \A p \in Places \ {q.at} : conf'[p] = q.copy[p]
  BY <1>2, <1>3 DEF Documents
<1>5. ASSUME NEW p \in Places \ {q.at}, settled[p] # "unknown"
      PROVE  conf'[p] = conf[p] /\ here'
  <2>1. Spares(q, p)
    BY <1>1, <1>5, InWork DEF AuthInv
  <2> QED BY <1>3, <1>4, <2>1 DEF Spares
<1>6. SoFar(q) => (SetUp(q.at))'
  BY <1>1, <1>2, <1>3, <1>4 DEF SoFar, SetUp
<1>7. github' \in GithubRecords
  BY <1>3, Stands
<1> QED BY <1>1, <1>2, <1>3, <1>4, <1>5, <1>6, <1>7, Finishing

LEMMA RotateM2mKeeps ==
  ASSUME AuthInv, NEW r \in Requests, RotateM2m(r)
  PROVE  AuthInv'
<1>1. PICK q \in Work : q = my[r] /\ q.pc = "rotate"
  BY InWork DEF RotateM2m, Finish, Step, Running
<1>2. /\ q.op = "rotate" /\ q \in Records /\ Fits(q) /\ q.at = M2m /\ q.at \in Places
      /\ q.copy \in Documents /\ Leaves(q.op) = "unknown"
  BY <1>1, OpAt DEF Fits, Records, Leaves
<1>3. PICK clear : clear = [q.copy EXCEPT ![q.at] = Nothing]
  OBVIOUS
<1>4. clear \in Documents /\ \A p \in Places \ {q.at} : clear[p] = q.copy[p]
  <2>1. Nothing \in [client : Maybe, group : Maybe] /\ Of(Nothing.client, q.at) /\ Of(Nothing.group, q.at)
    BY DEF Nothing, Maybe, Of
  <2> QED BY <1>2, <1>3, <2>1 DEF Documents
<1>5. /\ Finish(r, "rotate") /\ UNCHANGED <<auth0, made>> /\ auth0' = auth0 /\ github' = github
      /\ \/ conf' = conf /\ here' = here
         \/ conf' = clear /\ here' = TRUE
  BY <1>1, <1>2, <1>3 DEF RotateM2m, Save, bounds, row
<1>6. /\ conf' \in Documents /\ here' \in BOOLEAN /\ github' \in GithubRecords
      /\ ~ here' => \A p \in Places : conf'[p] = Nothing
  <2>1. here \in BOOLEAN /\ (~ here => \A p \in Places : conf[p] = Nothing) /\ conf \in Documents
    BY Stands DEF AuthInv, AuthTypeOK
  <2>2. CASE conf' = conf /\ here' = here
    BY <1>5, <2>1, <2>2, Stands
  <2>3. CASE conf' = clear /\ here' = TRUE
    BY <1>4, <1>5, <2>3, Stands
  <2> QED BY <1>5, <2>2, <2>3
<1>7. ASSUME NEW p \in Places \ {q.at}, settled[p] # "unknown"
      PROVE  conf'[p] = conf[p] /\ here'
  <2>1. Spares(q, p) /\ here
    BY <1>1, <1>7, InWork DEF AuthInv
  <2> QED BY <1>4, <1>5, <2>1 DEF Spares
<1> QED BY <1>1, <1>2, <1>5, <1>6, <1>7, Finishing

-----------------------------------------------------------------------------
(* A request begins *)

LEMMA BeginKeeps ==
  ASSUME AuthInv, NEW r \in Requests, NEW o \in Ops, NEW p \in Places, Begin(r, o, p)
  PROVE  AuthInv'
<1>1. PICK n \in Asks(o, p) : my' = [my EXCEPT ![r] = n]
  BY DEF Begin
<1>2. /\ n.op = o /\ n.at = p /\ n.pc = FirstCall(o) /\ n.copy = conf /\ n.client = None
      /\ n.group = None /\ n.want \in Wanted(o) /\ n.todo \in {Envs, {}} /\ n.seen = Unread /\ n.doomed = {}
      /\ o # "delete" => n.todo = {}
  BY DEF Asks
<1>3. /\ my[r].pc = "idle" /\ here /\ conf \in Documents
      /\ o \in EnvOps => p \in Envs
      /\ o \notin EnvOps => p = M2m
      /\ o \in {"conns", "rotate", "dropM2m"} => conf[p].client # None
  BY Stands DEF Begin
<1>4. /\ o \in {"setup", "conns", "remove", "redundant", "delete", "m2m", "rotate", "dropM2m"}
      /\ Unread \in [Conns -> SUBSET Ids] /\ Email \in Conns
  BY AppAuthAssumption DEF Ops, EnvOps, Unread
<1>5. /\ o = "setup" => FirstCall(o) = "client" /\ Wanted(o) = {{Email}}
      /\ o = "conns" => FirstCall(o) = "existing"
      /\ o = "remove" => FirstCall(o) = "forgetSecrets"
      /\ o = "delete" => FirstCall(o) = "nextEnv"
      /\ o = "redundant" => FirstCall(o) = "readGroup"
      /\ o = "m2m" => FirstCall(o) = "search"
      /\ o = "rotate" => FirstCall(o) = "rotate"
      /\ o = "dropM2m" => FirstCall(o) = "dropClient"
  BY DEF FirstCall, Wanted
<1>6. n \in Records
  <2>1. FirstCall(o) \in Calls
    BY <1>4, <1>5 DEF Calls, SettingUp, Connecting, Clearing, Registers
  <2>2. n.want \in SUBSET Conns
    BY <1>2, <1>4 DEF Wanted, Choices
  <2>3. n \in [op : {o}, at : {p}, pc : {FirstCall(o)}, copy : {conf}, client : {None}, group : {None},
               want : Wanted(o), todo : {Envs, {}}, seen : {Unread}, doomed : {{}}]
    BY DEF Asks
  <2> QED BY <1>2, <1>3, <1>4, <2>1, <2>2, <2>3 DEF Records, Maybe
<1>7. Fits(n)
  <2>1. /\ n.op \in EnvOps => n.at \in Envs
        /\ n.op \in {"m2m", "rotate", "dropM2m"} => n.at = M2m
    BY <1>2, <1>3 DEF EnvOps
  <2>2. n.op = "setup" => n.pc \in SettingUp /\ n.want = {Email} /\ n.pc = "client" /\ n.todo = {}
    BY <1>2, <1>5 DEF SettingUp
  <2>3. n.op = "conns" => n.pc \in Connecting /\ n.copy[n.at].client # None
    BY <1>2, <1>3, <1>5 DEF Connecting
  <2>4. /\ n.op = "remove" => n.pc \in Clearing
        /\ n.op = "redundant" => n.pc \in Clearing \ {"forgetSecrets", "forgetDomain"}
        /\ n.op = "delete" => n.pc = "nextEnv" /\ n.pc \notin Clearing /\ n.todo \subseteq Envs
        /\ n.op = "m2m" => n.pc = "search" /\ n.pc \in Registers
    BY <1>2, <1>5 DEF Clearing, Registers
  <2>5. /\ n.op = "rotate" => n.pc = "rotate"
        /\ n.op = "dropM2m" => n.pc \in {"dropClient", "clear"}
        /\ n.pc \notin {"dropGroup", "dropRoles"}
    BY <1>2, <1>4, <1>5
  <2> QED BY <1>2, <2>1, <2>2, <2>3, <2>4, <2>5 DEF Fits, Of
<1>8. n \in Work
  BY <1>6, <1>7 DEF Work
<1>9. /\ UNCHANGED <<row, auth0, github, made, asked>>
      /\ here' = here /\ conf' = conf /\ auth0' = auth0 /\ github' = github /\ made' = made /\ asked' = asked
  BY DEF Begin, row, bounds
<1>10. /\ my' \in [Requests -> Rest \cup Work] /\ my'[r] = n
       /\ \A s \in Requests \ {r} : my'[s] = my[s]
       /\ ~ Running(r) /\ Running(r)'
       /\ \A s \in Requests \ {r} : Running(s)' <=> Running(s)
  <2>1. /\ my' \in [Requests -> Rest \cup Work] /\ my'[r] = n
        /\ \A s \in Requests \ {r} : my'[s] = my[s]
    BY <1>1, <1>8 DEF AuthInv
  <2> QED BY <1>3, <1>8, <2>1, InWork DEF Running
<1>11. /\ alone' = [q \in Requests |->
                      alone[q] /\ ~ Running(q) /\ (q = r => \A s \in Requests : ~ Running(s))]
       /\ settled' = [q \in Places |-> IF o = "delete" \/ q = p THEN "unknown" ELSE settled[q]]
  BY DEF Begin
<1>12. /\ alone' \in [Requests -> BOOLEAN]
       /\ \A s \in Requests : alone'[s] => alone[s] /\ ~ Running(s)
       /\ alone'[r] => \A s \in Requests : ~ Running(s)
  BY <1>11, Zenon
<1>13. /\ settled' \in [Places -> {"unknown", "set", "connected", "cleared"}]
       /\ \A q \in Places : settled'[q] # "unknown" => o # "delete" /\ q # p /\ settled'[q] = settled[q]
  BY <1>11 DEF AuthInv, AuthTypeOK
<1>14. AuthTypeOK' /\ conf' \in Documents /\ Owned'
  BY <1>9, <1>12, <1>13, Stands DEF AuthInv, AuthTypeOK, Owned
<1>15. ASSUME NEW s \in Requests, Running(s)', my'[s].client # None
       PROVE  my'[s].client[2] <= made'[my'[s].client[1]]
  <2>1. s # r
    BY <1>2, <1>10, <1>15
  <2> QED BY <1>9, <1>10, <1>15, <2>1 DEF AuthInv
<1>16. ASSUME NEW s \in Requests, NEW t \in Requests, Running(s)', alone'[s], t # s
       PROVE  ~ Running(t)'
  <2>1. s = r
    BY <1>10, <1>12, <1>16
  <2> QED BY <1>10, <1>12, <1>16, <2>1
<1>17. ASSUME NEW s \in Requests, Running(s)', alone'[s]
       PROVE  (SoFar(my[s]))'
  <2>1. s = r
    BY <1>10, <1>12, <1>17
  <2>2. /\ n.pc \notin {"putSecrets", "putVars"}
        /\ n.op = "setup" => n.pc = "client"
        /\ n.op = "conns" => n.pc = "existing"
        /\ n.op = "remove" => n.pc = "forgetSecrets"
        /\ n.op = "m2m" => n.pc = "search"
    BY <1>2, <1>4, <1>5
  <2>3. (SoFar(n))'
    BY <1>2, <1>3, <1>9, <2>2 DEF SoFar, SetSoFar, ConnsSoFar, ClearedSoFar
  <2> QED BY <1>10, <2>1, <2>3
<1>18. ASSUME NEW q \in Places, settled'[q] # "unknown"
       PROVE  /\ here' /\ (Agrees(q))'
              /\ \A s \in Requests : Running(s)' => (Spares(my[s], q))'
  <2>1. o # "delete" /\ q # p /\ settled'[q] = settled[q]
    BY <1>13, <1>18
  <2>2. (Agrees(q))'
    <3>1. Untouched(q)
      BY <1>9 DEF Untouched
    <3> QED BY <1>3, <1>9, <2>1, <3>1, StaysSettled
  <2>3. ASSUME NEW s \in Requests, Running(s)' PROVE (Spares(my[s], q))'
    <3>1. CASE s = r
      <4>1. n.pc # "putConns"
        BY <1>2, <1>4, <1>5
      <4>2. (Spares(n, q))'
        BY <1>2, <1>9, <2>1, <4>1 DEF Spares
      <4> QED BY <1>10, <3>1, <4>2
    <3>2. CASE s # r
      <4>1. PICK z : z = my[s]
        OBVIOUS
      <4>2. Spares(z, q)
        BY <1>10, <1>18, <2>1, <2>3, <3>2, <4>1 DEF AuthInv
      <4>3. (Spares(z, q))'
        BY <1>9, <4>2 DEF Spares
      <4> QED BY <1>10, <3>2, <4>1, <4>3
    <3> QED BY <3>1, <3>2
  <2> QED BY <1>3, <1>9, <2>2, <2>3
<1>19. \A q \in Places : (Agrees(q))'
  <2> SUFFICES ASSUME NEW q \in Places PROVE (Agrees(q))'
    OBVIOUS
  <2>1. CASE settled'[q] = "unknown"
    BY <2>1 DEF Agrees
  <2> QED BY <1>18, <2>1
<1> QED BY <1>10, <1>14, <1>15, <1>16, <1>17, <1>18, <1>19 DEF AuthInv

-----------------------------------------------------------------------------
(* The theorems *)

LEMMA AuthStart == AuthInit => AuthInv
<1> SUFFICES ASSUME AuthInit PROVE AuthInv
  OBVIOUS
<1>1. \A r \in Requests : my[r] = Ended("idle")
  BY DEF AuthInit, Ended
<1>2. my \in [Requests -> Rest \cup Work]
  BY DEF AuthInit, Ended, Rest
<1>3. \A r \in Requests : ~ Running(r)
  BY <1>1 DEF Running, Ended
<1>4. /\ conf \in Documents /\ Owned
      /\ \A p \in Places : settled[p] = "unknown"
  BY DEF AuthInit, Documents, Nothing, Maybe, Of, Owned
<1>5. AuthTypeOK
  BY AppAuthAssumption DEF AuthInit, AuthTypeOK, Nothing
<1>6. \A p \in Places : Agrees(p)
  BY <1>4 DEF Agrees
<1> QED BY <1>2, <1>3, <1>4, <1>5, <1>6 DEF AuthInv

LEMMA AuthStays == AuthInv /\ UNCHANGED authVars => AuthInv'
<1> SUFFICES ASSUME AuthInv, UNCHANGED authVars PROVE AuthInv'
  OBVIOUS
<1>1. /\ here' = here /\ conf' = conf /\ auth0' = auth0 /\ github' = github /\ my' = my /\ made' = made
      /\ alone' = alone /\ settled' = settled /\ asked' = asked
  BY DEF authVars, row, bounds, history
<1>2. AuthTypeOK' /\ conf' \in Documents /\ Owned' /\ my' \in [Requests -> Rest \cup Work]
  BY <1>1 DEF AuthInv, AuthTypeOK, Owned
<1>3. \A r \in Requests : Running(r)' <=> Running(r)
  BY <1>1 DEF Running
<1>4. \A r \in Requests : SoFar(my[r]) => (SoFar(my[r]))'
  BY <1>1 DEF SoFar, SetSoFar, ConnsSoFar, ClearedSoFar, Serves
<1>5. \A r \in Requests, p \in Places : Spares(my[r], p) => (Spares(my[r], p))'
  BY <1>1 DEF Spares
<1>6. \A p \in Places : Agrees(p) => (Agrees(p))'
  BY <1>1 DEF Agrees, SetUp, Connected, Cleared
<1> QED BY <1>1, <1>2, <1>3, <1>4, <1>5, <1>6 DEF AuthInv

LEMMA AuthSteps == AuthInv /\ [AuthNext]_authVars => AuthInv'
<1> SUFFICES ASSUME AuthInv, [AuthNext]_authVars PROVE AuthInv'
  OBVIOUS
<1>1. ASSUME NEW r \in Requests, \E o \in Ops, p \in Places : Begin(r, o, p) PROVE AuthInv'
  BY <1>1, BeginKeeps
<1>2. ASSUME NEW r \in Requests, SetupNext(r) PROVE AuthInv'
  <2>1. ASSUME NewClient(r) PROVE AuthInv'
    BY <2>1, CreateKeeps DEF NewClient
  <2> QED BY <1>2, <2>1, NewRoleKeeps, NewGroupKeeps, LookUpGroupKeeps, AddViewerKeeps,
             SaveAuthSettingsKeeps, PutSecretsKeeps, PutVarsKeeps DEF SetupNext
<1>3. ASSUME NEW r \in Requests, ConnsNext(r) PROVE AuthInv'
  BY <1>3, ReadExistingKeeps, PutPasswordlessKeeps, ReadConnsKeeps, ConnsPutKeeps, PutConnKeeps
     DEF ConnsNext
<1>4. ASSUME NEW r \in Requests, RemoveNext(r) PROVE AuthInv'
  BY <1>4, NextEnvKeeps, ForgetSecretsKeeps, ForgetDomainKeeps, ReadGroupKeeps, DropGroupKeeps,
     DropRolesKeeps, DropClientKeeps, ClearSettingsKeeps, DropRowKeeps DEF RemoveNext
<1>5. ASSUME NEW r \in Requests, M2mNext(r) PROVE AuthInv'
  <2>1. ASSUME NewM2m(r) PROVE AuthInv'
    BY <2>1, CreateKeeps DEF NewM2m
  <2> QED BY <1>5, <2>1, SearchM2mKeeps, GrantM2mKeeps, SaveM2mKeeps, RotateM2mKeeps DEF M2mNext
<1> QED BY <1>1, <1>2, <1>3, <1>4, <1>5, CallFailsKeeps, AuthStays DEF AuthNext, RequestNext

\* Who writes the row and overlapped with nobody changes its own place of it,
\* or deletes it.
LEMMA WritesOwnPlace ==
  ASSUME AuthInv, NEW r \in Requests, NEW p \in Places, conf'[p] # conf[p],
         SaveAuthSettings(r) \/ ClearSettings(r) \/ SaveM2m(r) \/ RotateM2m(r) \/ DropRow(r)
  PROVE  /\ Running(r) /\ my'[r] # my[r]
         /\ my[r].at = p \/ my[r].pc = "dropRow" \/ ~ alone[r]
<1>1. PICK q \in Work : q = my[r] /\ q.pc \in {"save", "clear", "saveM2m", "rotate", "dropRow"}
  BY InWork DEF SaveAuthSettings, ClearSettings, SaveM2m, RotateM2m, DropRow, Finish, Call, Step, Running
<1>2. q \in Records /\ q.at \in Places /\ q.copy \in Documents /\ Running(r)
  BY <1>1, InWork DEF Work, Records
<1>3. alone[r] => q.copy = conf
  BY <1>1, Knows DEF SoFar
<1>4. \A n : my' = [my EXCEPT ![r] = n] => my'[r] = n
  BY DEF AuthInv
<1>5. CASE SaveAuthSettings(r)
  <2>1. /\ my'[r] = [q EXCEPT !.pc = "putSecrets"] /\ q.pc = "save"
        /\ conf' = [q.copy EXCEPT ![q.at] = [client |-> q.client, group |-> q.group]]
    BY <1>1, <1>4, <1>5 DEF SaveAuthSettings, Call, Step, Save
  <2>2. my'[r].pc = "putSecrets"
    BY <1>2, <2>1 DEF Records
  <2> QED BY <1>1, <1>2, <1>3, <2>1, <2>2 DEF Documents
<1>6. CASE ClearSettings(r)
  <2>1. q.pc = "clear" /\ conf' = [q.copy EXCEPT ![q.at] = Nothing]
    BY <1>1, <1>6 DEF ClearSettings, Save, row
  <2>2. my'[r].pc \in {"nextEnv", "done"}
    <3>1. CASE q.op = "delete"
      <4>1. my'[r] = [q EXCEPT !.pc = "nextEnv", !.copy = [q.copy EXCEPT ![q.at] = Nothing]]
        BY <1>1, <1>4, <1>6, <3>1 DEF ClearSettings, Step
      <4> QED BY <1>2, <4>1 DEF Records
    <3>2. CASE q.op # "delete"
      BY <1>1, <1>4, <1>6, <3>2 DEF ClearSettings, Finish, Step, Ended
    <3> QED BY <3>1, <3>2
  <2> QED BY <1>1, <1>2, <1>3, <2>1, <2>2 DEF Documents
<1>7. CASE SaveM2m(r)
  <2>1. q.pc = "saveM2m" /\ q.at = M2m /\ conf' = [q.copy EXCEPT ![M2m].client = q.client]
    BY <1>1, <1>7, OpAt DEF SaveM2m, Finish, Step, Save, Fits
  <2>2. my'[r].pc = "done"
    BY <1>4, <1>7 DEF SaveM2m, Finish, Step, Ended
  <2> QED BY <1>1, <1>2, <1>3, <2>1, <2>2 DEF Documents
<1>8. CASE RotateM2m(r)
  <2>1. q.pc = "rotate" /\ q.at = M2m /\ conf' = [q.copy EXCEPT ![M2m] = Nothing]
    BY <1>1, <1>8, OpAt DEF RotateM2m, Finish, Step, Save, row, Fits
  <2>2. my'[r].pc = "done"
    BY <1>4, <1>8 DEF RotateM2m, Finish, Step, Ended
  <2> QED BY <1>1, <1>2, <1>3, <2>1, <2>2 DEF Documents
<1>9. CASE DropRow(r)
  <2>1. q.pc = "dropRow" /\ my'[r].pc = "done"
    BY <1>1, <1>4, <1>9 DEF DropRow, Finish, Step, Ended
  <2> QED BY <1>1, <1>2, <2>1
<1> QED BY <1>5, <1>6, <1>7, <1>8, <1>9

LEMMA OthersKept ==
  ASSUME AuthInv, [AuthNext]_authVars
  PROVE  \A p \in Places : conf'[p] # conf[p] =>
           \E r \in Requests :
             /\ Running(r) /\ my'[r] # my[r]
             /\ (my[r].at = p \/ my[r].pc = "dropRow" \/ ~ alone[r])
<1> SUFFICES ASSUME NEW p \in Places, conf'[p] # conf[p]
             PROVE  \E r \in Requests :
                      /\ Running(r) /\ my'[r] # my[r]
                      /\ (my[r].at = p \/ my[r].pc = "dropRow" \/ ~ alone[r])
  OBVIOUS
<1>1. ~ UNCHANGED row /\ ~ UNCHANGED authVars
  BY DEF row, authVars
<1>2. PICK r \in Requests : (\E o \in Ops, q \in Places : Begin(r, o, q)) \/ RequestNext(r)
  BY <1>1 DEF AuthNext
<1>3. SaveAuthSettings(r) \/ ClearSettings(r) \/ SaveM2m(r) \/ RotateM2m(r) \/ DropRow(r)
  <2>1. ~ \E o \in Ops, q \in Places : Begin(r, o, q)
    BY <1>1 DEF Begin
  <2>2. ~ CallFails(r)
    BY <1>1 DEF CallFails
  <2>3. SetupNext(r) => SaveAuthSettings(r)
    BY <1>1 DEF SetupNext, NewClient, Create, NewRole, NewGroup, LookUpGroup, AddViewer, PutSecrets, PutVars
  <2>4. ~ ConnsNext(r)
    BY <1>1 DEF ConnsNext, ReadExisting, PutPasswordless, ReadConns, ConnsPut, PutConn
  <2>5. RemoveNext(r) => ClearSettings(r) \/ DropRow(r)
    BY <1>1 DEF RemoveNext, NextEnv, ForgetSecrets, ForgetDomain, ReadGroup, DropGroup, DropRoles, DropClient
  <2>6. M2mNext(r) => SaveM2m(r) \/ RotateM2m(r)
    BY <1>1 DEF M2mNext, SearchM2m, NewM2m, Create, GrantM2m
  <2> QED BY <1>2, <2>1, <2>2, <2>3, <2>4, <2>5, <2>6 DEF RequestNext
<1> QED BY <1>3, WritesOwnPlace

\* What the requests of the settings pages keep: each document and Auth0 agree on
\* whose identity is whose, a request alone has done what its steps so far say, and
\* nobody's work reaches a place that is settled.
THEOREM AuthInvariant == AuthSpec => []AuthInv
<1> QED BY AuthStart, AuthSteps, PTL DEF AuthSpec

\* The app's row, Auth0, GitHub and every request keep their types.
THEOREM AuthTyped == AuthSpec => []AuthTypeOK
<1>1. AuthInv => AuthTypeOK
  BY DEF AuthInv
<1> QED BY <1>1, AuthInvariant, PTL

\* A request that ran alone and ended well leaves the row, Auth0 and GitHub in
\* agreement about the place it worked on, for any number of environments,
\* connections and requests (cluster.py App.create_auth_settings, remove_auth_settings).
THEOREM AloneLeavesAgreement == AuthSpec => []AloneAgrees
<1>1. AuthInv => AloneAgrees
  BY DEF AuthInv, Agrees, AloneAgrees
<1> QED BY <1>1, AuthInvariant, PTL

\* A request rewrites only the settings of the place it works on, unless it
\* overlaps with another one or deletes the app (models/app.py save_auth_settings).
THEOREM OthersSettings == AuthSpec => OthersSettingsKept
<1>1. AuthInv /\ [AuthNext]_authVars =>
        [\A p \in Places : conf'[p] # conf[p] =>
           \E r \in Requests :
               /\ Running(r) /\ my'[r] # my[r]
             /\ (my[r].at = p \/ my[r].pc = "dropRow" \/ ~ alone[r])]_authVars
  BY OthersKept
<1> QED BY <1>1, AuthInvariant, PTL DEF AuthSpec, OthersSettingsKept

-----------------------------------------------------------------------------
(***************************************************************************)
(* AppRanges: SecretsSettle.  While nothing has failed and nothing has     *)
(* clashed, a secret that is wrong has somebody who is about to write it.  *)
(***************************************************************************)

Messages == [kind : {"update", "delete"}, list : Lists]
Texts == SUBSET (Lists \X Versions)
Jobs ==
  [pc : {"remove", "read"}, msg : Messages, todo : SUBSET RangeEnvs,
   got : {{}}, del : SUBSET Row, ins : {{}}]
    \cup [pc : {"put"}, msg : Messages, todo : SUBSET RangeEnvs,
          got : RangeEnvs \X Texts, del : SUBSET Row, ins : {{}}]
Endings == [pc : {"count", "drop"}, list : Lists]
Pages ==
  [pc : {"old"}, env : RangeEnvs, chosen : SUBSET Lists]
    \cup [pc : {"write"}, env : RangeEnvs, chosen : SUBSET Lists, del : SUBSET Row]
    \cup [pc : {"put", "commit"}, env : RangeEnvs, del : SUBSET Row, ins : SUBSET Row]
Edits ==
  [pc : {"look"}, list : Lists, mark : {"live", "deleted"}, new : Versions]
    \cup [pc : {"save"}, list : Lists, mark : {"live", "deleted"}, new : Versions, old : Versions]
Orders == [pc : {"tellUpdate", "mark", "drop", "tellDelete"}, list : Lists]

RangesTyped ==
  /\ RangesTypeOK
  /\ user \in [Users -> {Idle} \cup Pages \cup Edits \cup Orders]
  /\ hand \in [Hands -> {Idle} \cup Jobs \cup Endings]
  /\ inbox \in [Hands -> Seq(Messages)]
  /\ \A w \in Hands : hand[w].pc \in {"remove", "read", "put"} /\ hand[w].msg.kind = "update" =>
       hand[w].pc # "remove" /\ hand[w].del = {}

Deletion(l) == [kind |-> "delete", list |-> l]
Waits(w, l) == inbox[w] # <<>> /\ Head(inbox[w]) = Deletion(l)
Deletes(w, l) ==
  \/ hand[w].pc \in {"remove", "read", "put"} /\ hand[w].msg = Deletion(l)
  \/ hand[w].pc \in {"count", "drop"} /\ hand[w].list = l
Lost(w) == \E l \in Lists : Waits(w, l) /\ (list[l] = "gone" \/ \E x \in Hands : Deletes(x, l))

Kept == {pair \in held : list[pair[2]] # "deleted"}
Target(e) == Ranges(Kept, e)
Reads(w, e) ==
  \/ hand[w].pc \in {"remove", "read", "put"} /\ e \in hand[w].todo
  \/ inbox[w] # <<>> /\ ~ Lost(w)
Tells(e) ==
  \E u \in Users : \/ user[u].pc = "tellUpdate" /\ <<e, user[u].list>> \in Kept
                   \/ user[u].pc = "tellDelete"
Holds(w, e) == hand[w].pc = "put" /\ hand[w].got[1] = e
WillBeRight(e) ==
  \/ secret[e] = Target(e)
  \/ Tells(e)
  \/ \E w \in Hands : Reads(w, e) \/ (Holds(w, e) /\ hand[w].got[2] = Target(e))
  \/ \E u \in Users : user[u].pc = "commit" /\ user[u].env = e
StaysRight(e) ==
  \A w \in Hands : Holds(w, e) => hand[w].got[2] = Target(e) \/ Reads(w, e) \/ Tells(e)

RowsOf(l) == {pair \in held : pair[2] = l}
PageSound(u) ==
  LET e == user[u].env IN
  /\ user[u].pc \in {"old", "write"} => user[u].chosen \subseteq Present
  /\ user[u].pc \in {"write", "put", "commit"} => user[u].del = {pair \in held : pair[1] = e}
  /\ user[u].pc \in {"put", "commit"} => user[u].ins \subseteq {e} \X Present
  /\ user[u].pc = "commit" => secret[e] = Ranges(Seen(u), e)
OrderSound(u) ==
  user[u].pc \in {"mark", "drop", "tellDelete"} =>
    /\ \A w \in Hands : inbox[w] = <<>>
    /\ list[user[u].list] = IF user[u].pc = "tellDelete" THEN "deleted" ELSE "live"
    /\ user[u].pc = "drop" <=> RowsOf(user[u].list) = {}
Apart ==
  \A u \in Users : Exclusive(u) => \A a \in Actors \ {u} : Actor(a).pc = "idle"

DeletionsFirst ==
  \A w \in Hands : \A i \in 1 .. Len(inbox[w]) :
    inbox[w][i].kind = "delete" => i = 1 /\ hand[w].pc = "idle"
MarkedAreDeleted ==
  \A l \in Lists : list[l] = "deleted" =>
    \/ \E u \in Users : user[u].pc = "tellDelete" /\ user[u].list = l
    \/ \A w \in Hands : Waits(w, l) \/ Deletes(w, l)
DeletesMarked ==
  \A w \in Hands, l \in Lists : Waits(w, l) \/ Deletes(w, l) => list[l] # "live"
RowsGo ==
  \A w \in Hands, l \in Lists : Deletes(w, l) =>
    /\ hand[w].pc \in {"read", "put"} => RowsOf(l) \subseteq hand[w].del /\ \A pair \in hand[w].del : pair[2] = l
    /\ hand[w].pc \in {"count", "drop"} => RowsOf(l) = {}
SomeHandles == \E x \in Hands : ~ Lost(x)

Smooth == faults = 0 /\ ~ clashed
Settling ==
  /\ Apart /\ DeletionsFirst /\ MarkedAreDeleted /\ DeletesMarked /\ RowsGo /\ SomeHandles
  /\ \A u \in Users : PageSound(u) /\ OrderSound(u)
  /\ \A e \in RangeEnvs : WillBeRight(e) /\ StaysRight(e)
RangesInv == RangesTyped /\ (Smooth => Settling)

UserStates == {Idle} \cup Pages \cup Edits \cup Orders
HandStates == {Idle} \cup Jobs \cup Endings

\* What the state of a user, and of a worker, is made of.
LEMMA UserShape ==
  ASSUME NEW z \in UserStates
  PROVE  /\ z.pc \in {"idle", "old", "write", "put", "commit", "look", "save",
                     "tellUpdate", "mark", "drop", "tellDelete"}
         /\ z.pc \in {"look", "save"} => z.list \in Lists /\ z.mark \in {"live", "deleted"} /\ z.new \in Versions
         /\ z.pc \in {"old", "write", "put", "commit"} => z.env \in RangeEnvs
         /\ z.pc \in {"old", "write"} => z.chosen \in SUBSET Lists
         /\ z.pc \in {"write", "put", "commit"} => z.del \in SUBSET Row
         /\ z.pc \in {"put", "commit"} => z.ins \in SUBSET Row /\ z \in Pages
         /\ z.pc \in {"tellUpdate", "mark", "drop", "tellDelete"} => z.list \in Lists /\ z \in Orders
<1>1. CASE z = Idle
  BY <1>1 DEF Idle
<1>2. CASE z \in Pages
  BY <1>2 DEF Pages
<1>3. CASE z \in Edits
  BY <1>3 DEF Edits
<1>4. CASE z \in Orders
  BY <1>4 DEF Orders
<1> QED BY <1>1, <1>2, <1>3, <1>4 DEF UserStates

LEMMA HandShape ==
  ASSUME NEW z \in HandStates
  PROVE  /\ z.pc \in {"idle", "remove", "read", "put", "count", "drop"}
         /\ z.pc \in {"remove", "read", "put"} =>
              /\ z \in Jobs /\ z.msg \in Messages /\ z.msg.kind \in {"update", "delete"} /\ z.msg.list \in Lists
              /\ z.todo \in SUBSET RangeEnvs /\ z.del \in SUBSET Row /\ z.ins = {}
         /\ z.pc \in {"remove", "read"} => z.got = {}
         /\ z.pc = "put" => z.got \in RangeEnvs \X Texts
         /\ z.pc \in {"count", "drop"} => z.list \in Lists /\ z \in Endings
<1>1. CASE z = Idle
  BY <1>1 DEF Idle
<1>2. CASE z \in Jobs
  BY <1>2 DEF Jobs, Messages
<1>3. CASE z \in Endings
  BY <1>3 DEF Endings
<1> QED BY <1>1, <1>2, <1>3 DEF HandStates

LEMMA WhoActs ==
  /\ \A u \in Users : Actor(u) = user[u] /\ u \in Actors /\ u \notin Hands
  /\ \A w \in Hands : Actor(w) = hand[w] /\ w \in Actors /\ w \notin Users
BY AppRangesAssumption DEF Actor, Actors

LEMMA UserTurns ==
  ASSUME RangesTyped, NEW u \in Users, NEW from, NEW n, Turn(u, from, n)
  PROVE  /\ user[u].pc = from /\ user' = [user EXCEPT ![u] = n] /\ hand' = hand
         /\ user'[u] = n /\ \A v \in Users \ {u} : user'[v] = user[v]
BY WhoActs DEF RangesTyped, Turn

LEMMA HandTurns ==
  ASSUME RangesTyped, NEW w \in Hands, NEW from, NEW n, Turn(w, from, n)
  PROVE  /\ hand[w].pc = from /\ hand' = [hand EXCEPT ![w] = n] /\ user' = user
         /\ hand'[w] = n /\ \A v \in Hands \ {w} : hand'[v] = hand[v]
BY WhoActs DEF RangesTyped, Turn

LEMMA RangesAreTexts ==
  ASSUME RangesTypeOK, NEW rows, NEW e
  PROVE  Ranges(rows, e) \in Texts
<1>1. \A l \in Present : l \in Lists /\ text[l] \in Versions
  BY DEF RangesTypeOK, Present
<1>2. \A t \in Ranges(rows, e) : t \in Lists \X Versions
  <2> SUFFICES ASSUME NEW t \in Ranges(rows, e) PROVE t \in Lists \X Versions
    OBVIOUS
  <2>1. PICK l \in Present : t = <<l, text[l]>>
    BY DEF Ranges
  <2> QED BY <1>1, <2>1
<1> QED BY <1>2 DEF Texts

\* Types of the tables and of the messages.
TablesTyped ==
  /\ list \in [Lists -> {"live", "deleted", "gone"}]
  /\ text \in [Lists -> Versions]
  /\ held \subseteq RangeEnvs \X Present
  /\ secret \in [RangeEnvs -> Texts]
  /\ asked2 \in 0 .. MaxAsked /\ faults \in 0 .. MaxFaults /\ clashed \in BOOLEAN

HandFits(w) ==
  hand[w].pc \in {"remove", "read", "put"} /\ hand[w].msg.kind = "update" =>
    hand[w].pc # "remove" /\ hand[w].del = {}

LEMMA TypesMeanTyped ==
  ASSUME user \in [Users -> UserStates], hand \in [Hands -> HandStates], inbox \in [Hands -> Seq(Messages)],
         TablesTyped, \A w \in Hands : HandFits(w)
  PROVE  RangesTyped
<1>1. \A w \in Hands : \A i \in 1 .. Len(inbox[w]) : inbox[w][i].list \in Lists
  <2> SUFFICES ASSUME NEW w \in Hands, NEW i \in 1 .. Len(inbox[w]) PROVE inbox[w][i].list \in Lists
    OBVIOUS
  <2>1. inbox[w] \in Seq(Messages)
    OBVIOUS
  <2>2. inbox[w][i] \in Messages
    BY <2>1, ElementOfSeq
  <2> QED BY <2>2 DEF Messages
<1> QED BY <1>1 DEF RangesTyped, RangesTypeOK, UserStates, HandStates, TablesTyped, HandFits, Texts

LEMMA TypedMeansTypes ==
  ASSUME RangesTyped
  PROVE  /\ user \in [Users -> UserStates] /\ hand \in [Hands -> HandStates] /\ inbox \in [Hands -> Seq(Messages)]
         /\ TablesTyped /\ \A w \in Hands : HandFits(w)
BY DEF RangesTyped, RangesTypeOK, UserStates, HandStates, TablesTyped, HandFits, Texts

LEMMA TypesMeanTypedNext ==
  ASSUME user' \in [Users -> UserStates], hand' \in [Hands -> HandStates], inbox' \in [Hands -> Seq(Messages)],
         TablesTyped', \A w \in Hands : HandFits(w)'
  PROVE  RangesTyped'
<1>1. \A w \in Hands : \A i \in 1 .. Len(inbox'[w]) : inbox'[w][i].list \in Lists
  <2> SUFFICES ASSUME NEW w \in Hands, NEW i \in 1 .. Len(inbox'[w]) PROVE inbox'[w][i].list \in Lists
    OBVIOUS
  <2>1. inbox'[w] \in Seq(Messages)
    OBVIOUS
  <2>2. inbox'[w][i] \in Messages
    BY <2>1, ElementOfSeq
  <2> QED BY <2>2 DEF Messages
<1> QED BY <1>1 DEF RangesTyped, RangesTypeOK, UserStates, HandStates, TablesTyped, HandFits, Texts

LEMMA UserTyped ==
  ASSUME RangesTyped, NEW u \in Users, NEW from, NEW n \in UserStates, Turn(u, from, n),
         inbox' \in [Hands -> Seq(Messages)], TablesTyped'
  PROVE  RangesTyped'
<1>1. /\ user' = [user EXCEPT ![u] = n] /\ hand' = hand
  BY UserTurns
<1>2. user' \in [Users -> UserStates] /\ hand' \in [Hands -> HandStates] /\ \A w \in Hands : HandFits(w)'
  BY <1>1, TypedMeansTypes DEF HandFits
<1> QED BY <1>2, TypesMeanTypedNext

LEMMA HandTyped ==
  ASSUME RangesTyped, NEW w \in Hands, NEW from, NEW n \in HandStates, Turn(w, from, n),
         n.pc \in {"remove", "read", "put"} /\ n.msg.kind = "update" => n.pc # "remove" /\ n.del = {},
         inbox' \in [Hands -> Seq(Messages)], TablesTyped'
  PROVE  RangesTyped'
<1>1. /\ hand' = [hand EXCEPT ![w] = n] /\ user' = user /\ hand'[w] = n
      /\ \A v \in Hands \ {w} : hand'[v] = hand[v]
  BY HandTurns
<1>2. user' \in [Users -> UserStates] /\ hand' \in [Hands -> HandStates]
  BY <1>1, TypedMeansTypes
<1>3. \A v \in Hands : HandFits(v)'
  BY <1>1, TypedMeansTypes DEF HandFits
<1> QED BY <1>2, <1>3, TypesMeanTypedNext

LEMMA TellTyped ==
  ASSUME RangesTyped, NEW kind \in {"update", "delete"}, NEW l \in Lists, Tell(kind, l)
  PROVE  inbox' \in [Hands -> Seq(Messages)]
<1>1. [kind |-> kind, list |-> l] \in Messages
  BY DEF Messages
<1>2. \A w \in Hands : inbox[w] \in Seq(Messages)
  BY DEF RangesTyped
<1> QED BY <1>1, <1>2 DEF Tell

\* A request moves the counter of requests and its user, nothing else.
LEMMA AskTyped ==
  ASSUME RangesTyped, NEW u \in Users, NEW n \in UserStates, NEW clash \in BOOLEAN, Ask(u, n, clash),
         text' \in [Lists -> Versions]
  PROVE  RangesTyped'
<1>1. asked2' \in 0 .. MaxAsked
  BY AppRangesAssumption DEF Ask, RangesTyped, RangesTypeOK
<1>2. clashed' \in BOOLEAN
  BY DEF Ask, Overlap
<1>3. TablesTyped'
  BY <1>1, <1>2, TypedMeansTypes DEF Ask, TablesTyped, Present
<1>4. inbox' \in [Hands -> Seq(Messages)] /\ Turn(u, "idle", n)
  BY TypedMeansTypes DEF Ask
<1> QED BY <1>3, <1>4, UserTyped

LEMMA UserStepsTyped ==
  ASSUME RangesTyped, NEW u \in Users, UserNext(u)
  PROVE  RangesTyped'
<1>1. PICK z \in UserStates : z = user[u]
  BY TypedMeansTypes
<1>2. TablesTyped /\ inbox \in [Hands -> Seq(Messages)]
  BY TypedMeansTypes
<1>3. ASSUME NEW e \in RangeEnvs, NEW chosen \in SUBSET Lists, SavePage(u, e, chosen)
      PROVE  RangesTyped'
  <2>1. [pc |-> "old", env |-> e, chosen |-> chosen] \in UserStates
    BY DEF UserStates, Pages
  <2> QED BY <1>2, <1>3, <2>1, AskTyped DEF SavePage, TablesTyped, AtWork
<1>4. ASSUME ReadOld(u) PROVE RangesTyped'
  <2>1. PICK n : n = [pc |-> "write", env |-> z.env, chosen |-> z.chosen, del |-> {pair \in held : pair[1] = z.env}]
    OBVIOUS
  <2>2. Turn(u, "old", n) /\ z.pc = "old"
    BY <1>1, <1>4, <2>1, WhoActs DEF ReadOld, Turn
  <2>3. {pair \in held : pair[1] = z.env} \in SUBSET Row
    BY <1>2 DEF TablesTyped, Row, Present
  <2>4. n \in UserStates
    BY <2>1, <2>2, <2>3, UserShape DEF UserStates, Pages
  <2>5. TablesTyped' /\ inbox' = inbox
    BY <1>2, <1>4 DEF ReadOld, tables, counts, TablesTyped, Present
  <2> QED BY <1>2, <2>2, <2>4, <2>5, UserTyped
<1>5. ASSUME WriteRows(u) PROVE RangesTyped'
  <2>1. PICK n : n = [pc |-> "put", env |-> z.env, del |-> z.del, ins |-> {z.env} \X z.chosen]
    OBVIOUS
  <2>2. Turn(u, "write", n) /\ z.pc = "write"
    BY <1>1, <1>5, <2>1 DEF WriteRows
  <2>3. z.env \in RangeEnvs /\ z.chosen \in SUBSET Lists /\ z.del \in SUBSET Row
    BY <2>2, UserShape
  <2>4. {z.env} \X z.chosen \in SUBSET Row
    BY <2>3 DEF Row
  <2>5. n \in UserStates
    BY <2>1, <2>3, <2>4 DEF UserStates, Pages
  <2>6. TablesTyped' /\ inbox' = inbox
    BY <1>2, <1>5 DEF WriteRows, tables, counts, TablesTyped, Present
  <2> QED BY <1>2, <2>2, <2>5, <2>6, UserTyped
<1>6. ASSUME PutPage(u) PROVE RangesTyped'
  <2>1. PICK n : n = [z EXCEPT !.pc = "commit"]
    OBVIOUS
  <2>2. Turn(u, "put", n) /\ z.pc = "put" /\ secret' = [secret EXCEPT ![z.env] = Ranges(Seen(u), z.env)]
    BY <1>1, <1>6, <2>1 DEF PutPage
  <2>3. z \in [pc : {"put", "commit"}, env : RangeEnvs, del : SUBSET Row, ins : SUBSET Row]
    BY <2>2, UserShape DEF Pages
  <2>4. n \in UserStates
    BY <2>1, <2>3 DEF UserStates, Pages
  <2>5. secret' \in [RangeEnvs -> Texts]
    BY <1>2, <2>2, <2>3, RangesAreTexts DEF TablesTyped, RangesTyped
  <2>6. TablesTyped' /\ inbox' = inbox
    BY <1>2, <1>6, <2>5 DEF PutPage, tables, counts, TablesTyped, Present
  <2> QED BY <1>2, <2>2, <2>4, <2>6, UserTyped
<1>7. ASSUME CommitPage(u) PROVE RangesTyped'
  <2>1. Turn(u, "commit", Idle) /\ z.pc = "commit" /\ Idle \in UserStates
    BY <1>1, <1>7, WhoActs DEF CommitPage, Turn, UserStates
  <2>2. z.ins \in SUBSET Row
    BY <2>1, UserShape
  <2>3. held' \subseteq RangeEnvs \X Present
    <3>1. held' \subseteq held \/ (held' \subseteq held \cup z.ins /\ \A pair \in z.ins : pair[2] \in Present)
      BY <1>1, <1>7 DEF CommitPage
    <3> QED BY <1>2, <2>2, <3>1 DEF TablesTyped, Row
  <2>4. TablesTyped' /\ inbox' = inbox
    BY <1>2, <1>7, <2>3 DEF CommitPage, counts, TablesTyped, Present
  <2> QED BY <1>2, <2>1, <2>4, UserTyped
<1>8. ASSUME NEW l \in Lists, NEW v \in Versions, EditList(u, l, v) PROVE RangesTyped'
  <2>1. list[l] \in {"live", "deleted"}
    BY <1>2, <1>8 DEF EditList, TablesTyped
  <2>2. [pc |-> "look", list |-> l, mark |-> list[l], new |-> v] \in UserStates
    BY <2>1 DEF UserStates, Edits
  <2> QED BY <1>2, <1>8, <2>2, AskTyped DEF EditList, TablesTyped
<1>9. ASSUME NEW l \in Lists, DeleteList(u, l) PROVE RangesTyped'
  <2>1. PICK to \in {"mark", "drop"} : to = IF \E e \in RangeEnvs : <<e, l>> \in held THEN "mark" ELSE "drop"
    OBVIOUS
  <2>2. [pc |-> to, list |-> l] \in UserStates
    BY DEF UserStates, Orders
  <2>3. Ask(u, [pc |-> to, list |-> l], AtWork(u) \/ Pending) /\ (AtWork(u) \/ Pending) \in BOOLEAN
    BY <1>9, <2>1 DEF DeleteList
  <2> QED BY <1>2, <1>9, <2>2, <2>3, AskTyped DEF DeleteList, TablesTyped
<1>10. ASSUME TellUpdate(u) PROVE RangesTyped'
  <2>1. Turn(u, "tellUpdate", Idle) /\ z.pc = "tellUpdate" /\ Idle \in UserStates
    BY <1>1, <1>10, WhoActs DEF TellUpdate, Turn, UserStates
  <2>2. z.list \in Lists
    BY <2>1, UserShape
  <2>3. inbox' \in [Hands -> Seq(Messages)]
    BY <1>1, <1>2, <1>10, <2>2, TellTyped DEF TellUpdate
  <2>4. TablesTyped'
    BY <1>2, <1>10 DEF TellUpdate, tables, counts, TablesTyped, Present
  <2> QED BY <2>1, <2>3, <2>4, UserTyped
<1>11. ASSUME TellDelete(u) PROVE RangesTyped'
  <2>1. Turn(u, "tellDelete", Idle) /\ z.pc = "tellDelete" /\ Idle \in UserStates
    BY <1>1, <1>11, WhoActs DEF TellDelete, Turn, UserStates
  <2>2. z.list \in Lists
    BY <2>1, UserShape
  <2>3. inbox' \in [Hands -> Seq(Messages)]
    BY <1>1, <1>2, <1>11, <2>2, TellTyped DEF TellDelete
  <2>4. TablesTyped'
    BY <1>2, <1>11 DEF TellDelete, tables, counts, TablesTyped, Present
  <2> QED BY <2>1, <2>3, <2>4, UserTyped
<1>12. ASSUME DropUnused(u) PROVE RangesTyped'
  <2>1. Turn(u, "drop", Idle) /\ Idle \in UserStates
    BY <1>12 DEF DropUnused, UserStates
  <2>2. TablesTyped' /\ inbox' = inbox
    BY <1>2, <1>12 DEF DropUnused, Gone, counts, TablesTyped, Present
  <2> QED BY <1>2, <2>1, <2>2, UserTyped
<1>13. ASSUME MarkDeleted(u) PROVE RangesTyped'
  <2>1. PICK n : n = [z EXCEPT !.pc = "tellDelete"]
    OBVIOUS
  <2>2. Turn(u, "mark", n) /\ z.pc = "mark"
    BY <1>1, <1>13, <2>1, WhoActs DEF MarkDeleted, Turn
  <2>3. n \in UserStates
    BY <2>1, <2>2, UserShape DEF UserStates, Orders
  <2>4. TablesTyped' /\ inbox' = inbox
    BY <1>2, <1>13 DEF MarkDeleted, counts, TablesTyped, Present
  <2> QED BY <1>2, <2>2, <2>3, <2>4, UserTyped
<1>14. ASSUME LookAgain(u) PROVE RangesTyped'
  <2>1. PICK n : n = IF list[z.list] = "gone" THEN Idle
                     ELSE [pc |-> "save", list |-> z.list, mark |-> z.mark, new |-> z.new,
                           old |-> text[z.list]]
    OBVIOUS
  <2>2. Turn(u, "look", n) /\ z.pc = "look"
    BY <1>1, <1>14, <2>1, WhoActs DEF LookAgain, Turn
  <2>3. z.list \in Lists /\ z.mark \in {"live", "deleted"} /\ z.new \in Versions /\ text[z.list] \in Versions
    BY <1>2, <2>2, UserShape DEF TablesTyped
  <2>4. n \in UserStates
    BY <2>1, <2>3 DEF UserStates, Edits
  <2>5. TablesTyped' /\ inbox' = inbox
    BY <1>2, <1>14 DEF LookAgain, tables, counts, TablesTyped, Present
  <2> QED BY <1>2, <2>2, <2>4, <2>5, UserTyped
<1>15. ASSUME SaveList(u) PROVE RangesTyped'
  <2>1. PICK n : n = IF z.old = z.new THEN Idle ELSE [pc |-> "tellUpdate", list |-> z.list]
    OBVIOUS
  <2>2. Turn(u, "save", n) /\ z.pc = "save"
    BY <1>1, <1>15, <2>1, WhoActs DEF SaveList, Turn
  <2>3. z.list \in Lists /\ z.mark \in {"live", "deleted"} /\ z.new \in Versions
    BY <2>2, UserShape
  <2>4. n \in UserStates
    BY <2>1, <2>3 DEF UserStates, Orders
  <2>5. list' = [list EXCEPT ![z.list] = z.mark] /\ text' = [text EXCEPT ![z.list] = z.new]
    BY <1>1, <1>15 DEF SaveList
  <2>6. UNCHANGED <<held, secret, inbox, asked2, faults>> /\ clashed' \in BOOLEAN
    BY <1>15 DEF SaveList, counts
  <2>7. /\ list' \in [Lists -> {"live", "deleted", "gone"}] /\ text' \in [Lists -> Versions]
        /\ held' \subseteq RangeEnvs \X Present'
    BY <1>2, <2>3, <2>5, <2>6 DEF TablesTyped, Present
  <2>8. TablesTyped'
    BY <1>2, <2>6, <2>7 DEF TablesTyped
  <2> QED BY <1>2, <2>2, <2>4, <2>6, <2>8, UserTyped
<1> QED BY <1>3, <1>4, <1>5, <1>6, <1>7, <1>8, <1>9, <1>10, <1>11, <1>12, <1>13, <1>14, <1>15
       DEF UserNext

LEMMA HandStepsTyped ==
  ASSUME RangesTyped, NEW w \in Hands, HandNext(w)
  PROVE  RangesTyped'
<1>1. PICK z \in HandStates : z = hand[w]
  BY TypedMeansTypes
<1>2. TablesTyped /\ inbox \in [Hands -> Seq(Messages)] /\ Idle \in HandStates /\ Idle.pc = "idle" /\ HandFits(w)
  BY TypedMeansTypes DEF HandStates, Idle
<1>3. CASE TakeJob(w)
  <2>1. PICK s \in Seq(Messages) : s = inbox[w]
    BY <1>2
  <2>2. PICK m \in Messages : m = Head(s)
    BY <1>3, <2>1, HeadTailProperties DEF TakeJob
  <2>3. Tail(s) \in Seq(Messages) /\ <<>> \in Seq(Messages)
    BY <1>3, <2>1, HeadTailProperties, EmptySeq DEF TakeJob
  <2>4. PICK n : n = IF m.kind = "delete" /\ list[m.list] = "gone" THEN Idle
                     ELSE [pc |-> IF m.kind = "delete" THEN "remove" ELSE "read",
                           msg |-> m, todo |-> RangeEnvs, got |-> {}, del |-> {}, ins |-> {}]
    OBVIOUS
  <2>5. Turn(w, "idle", n)
    BY <1>3, <2>1, <2>2, <2>4 DEF TakeJob
  <2>6. n \in HandStates /\ (n.pc \in {"remove", "read", "put"} /\ n.msg.kind = "update" => n.pc # "remove" /\ n.del = {})
    <3>1. CASE m.kind = "delete" /\ list[m.list] = "gone"
      BY <1>2, <2>4, <3>1
    <3>2. CASE ~ (m.kind = "delete" /\ list[m.list] = "gone") /\ m.kind = "delete"
      BY <2>4, <3>2 DEF HandStates, Jobs
    <3>3. CASE ~ (m.kind = "delete" /\ list[m.list] = "gone") /\ m.kind # "delete"
      BY <2>4, <3>3 DEF HandStates, Jobs
    <3> QED BY <3>1, <3>2, <3>3
  <2>7. inbox' \in [Hands -> Seq(Messages)]
    BY <1>2, <1>3, <2>1, <2>3 DEF TakeJob
  <2>8. TablesTyped'
    BY <1>2, <1>3 DEF TakeJob, Overlap, tables, counts, TablesTyped, Present
  <2> QED BY <2>5, <2>6, <2>7, <2>8, HandTyped
<1>4. CASE RemoveRows(w)
  <2>1. PICK rows : rows = {pair \in held : pair[2] = z.msg.list}
    OBVIOUS
  <2>2. PICK n : n = [z EXCEPT !.pc = "read", !.del = rows]
    OBVIOUS
  <2>3. Turn(w, "remove", n) /\ z.pc = "remove"
    BY <1>1, <1>4, <2>1, <2>2 DEF RemoveRows
  <2>4. rows \in SUBSET Row
    BY <1>2, <2>1 DEF TablesTyped, Row, Present
  <2>5. n \in HandStates /\ n.msg = z.msg
    BY <2>2, <2>3, <2>4, HandShape DEF HandStates, Jobs
  <2>6. z.msg.kind # "update"
    BY <1>1, <1>2, <2>3 DEF HandFits
  <2>7. TablesTyped' /\ inbox' = inbox
    BY <1>2, <1>4 DEF RemoveRows, tables, counts, TablesTyped, Present
  <2> QED BY <1>2, <2>3, <2>5, <2>6, <2>7, HandTyped
<1>5. ASSUME NEW e \in RangeEnvs, ReadRanges(w, e) PROVE RangesTyped'
  <2>1. PICK t \in Texts : t = Ranges(Seen(w), e)
    BY RangesAreTexts DEF RangesTyped
  <2>2. PICK n : n = [z EXCEPT !.pc = "put", !.todo = @ \ {e}, !.got = <<e, t>>]
    OBVIOUS
  <2>3. Turn(w, "read", n) /\ z.pc = "read"
    BY <1>1, <1>5, <2>1, <2>2 DEF ReadRanges
  <2>4. n \in HandStates /\ n.msg = z.msg /\ n.del = z.del /\ n.pc = "put"
    BY <2>2, <2>3, HandShape DEF HandStates, Jobs
  <2>5. TablesTyped' /\ inbox' = inbox
    BY <1>2, <1>5 DEF ReadRanges, tables, counts, TablesTyped, Present
  <2> QED BY <1>1, <1>2, <2>3, <2>4, <2>5, HandTyped DEF HandFits
<1>6. CASE PutRanges(w)
  <2>1. PICK n : n = [z EXCEPT !.pc = "read", !.got = {}]
    OBVIOUS
  <2>2. Turn(w, "put", n) /\ z.pc = "put" /\ secret' = [secret EXCEPT ![z.got[1]] = z.got[2]]
    BY <1>1, <1>6, <2>1 DEF PutRanges
  <2>3. n \in HandStates /\ n.msg = z.msg /\ n.del = z.del /\ n.pc = "read" /\ z.got \in RangeEnvs \X Texts
    BY <2>1, <2>2, HandShape DEF HandStates, Jobs
  <2>4. secret' \in [RangeEnvs -> Texts]
    BY <1>2, <2>2, <2>3 DEF TablesTyped
  <2>5. TablesTyped' /\ inbox' = inbox
    BY <1>2, <1>6, <2>4 DEF PutRanges, tables, counts, TablesTyped, Present
  <2> QED BY <1>1, <1>2, <2>2, <2>3, <2>5, HandTyped DEF HandFits
<1>7. CASE EndJob(w)
  <2>1. PICK n : n = IF z.msg.kind = "delete" THEN [pc |-> "count", list |-> z.msg.list] ELSE Idle
    OBVIOUS
  <2>2. Turn(w, "read", n) /\ z.pc = "read"
    BY <1>1, <1>7, <2>1 DEF EndJob
  <2>3. n \in HandStates /\ n.pc \in {"count", "idle"}
    BY <1>2, <2>1, <2>2, HandShape DEF HandStates, Endings
  <2>4. TablesTyped' /\ inbox' = inbox
    BY <1>2, <1>7 DEF EndJob, counts, TablesTyped, Present
  <2> QED BY <1>2, <2>2, <2>3, <2>4, HandTyped
<1>8. CASE CountApps(w)
  <2>1. PICK n : n = IF \E e \in RangeEnvs : <<e, z.list>> \in held THEN Idle ELSE [z EXCEPT !.pc = "drop"]
    OBVIOUS
  <2>2. Turn(w, "count", n) /\ z.pc = "count"
    BY <1>1, <1>8, <2>1, WhoActs DEF CountApps, Turn
  <2>3. n \in HandStates /\ n.pc \in {"drop", "idle"}
    <3>1. [z EXCEPT !.pc = "drop"] \in Endings /\ [z EXCEPT !.pc = "drop"].pc = "drop"
      BY <2>2, HandShape DEF Endings
    <3>2. n = Idle \/ n = [z EXCEPT !.pc = "drop"]
      BY <2>1
    <3> QED BY <1>2, <3>1, <3>2 DEF HandStates
  <2>4. TablesTyped' /\ inbox' = inbox
    BY <1>2, <1>8 DEF CountApps, tables, counts, TablesTyped, Present
  <2> QED BY <1>2, <2>2, <2>3, <2>4, HandTyped
<1>9. CASE DropList(w)
  <2>1. TablesTyped' /\ inbox' = inbox
    BY <1>2, <1>9 DEF DropList, Gone, counts, TablesTyped, Present
  <2> QED BY <1>2, <1>9, <2>1, HandTyped DEF DropList
<1> QED BY <1>3, <1>4, <1>5, <1>6, <1>7, <1>8, <1>9 DEF HandNext

LEMMA FaultTyped ==
  ASSUME RangesTyped, NEW a \in Actors, Fault(a)
  PROVE  RangesTyped'
<1>1. faults' \in 0 .. MaxFaults
  BY AppRangesAssumption DEF Fault, RangesTyped, RangesTypeOK
<1>2. TablesTyped' /\ inbox' \in [Hands -> Seq(Messages)]
  BY <1>1, TypedMeansTypes, EmptySeq DEF Fault, tables, TablesTyped, Present
<1>3. CASE a \in Users
  BY <1>2, <1>3, UserTyped DEF Fault, UserStates
<1>4. CASE a \in Hands
  BY <1>2, <1>4, HandTyped DEF Fault, HandStates, Idle
<1> QED BY <1>3, <1>4 DEF Actors

LEMMA RangesStartTyped == ASSUME RangesInit PROVE RangesTyped
<1>1. user \in [Users -> UserStates] /\ hand \in [Hands -> HandStates]
  BY DEF RangesInit, UserStates, HandStates
<1>2. inbox \in [Hands -> Seq(Messages)] /\ \A w \in Hands : HandFits(w)
  BY EmptySeq DEF RangesInit, HandFits, Idle
<1>3. TablesTyped
  <2>1. 0 \in Versions /\ 0 \in 0 .. MaxAsked /\ 0 \in 0 .. MaxFaults /\ FALSE \in BOOLEAN /\ {} \in Texts
    BY AppRangesAssumption DEF Texts, Versions
  <2>2. list \in [Lists -> {"live", "deleted", "gone"}]
    BY DEF RangesInit
  <2>3. text \in [Lists -> Versions]
    BY <2>1 DEF RangesInit
  <2>4. secret \in [RangeEnvs -> Texts]
    BY <2>1 DEF RangesInit
  <2> QED BY <2>1, <2>2, <2>3, <2>4 DEF RangesInit, TablesTyped
<1> QED BY <1>1, <1>2, <1>3, TypesMeanTyped

LEMMA RangesStayTyped == ASSUME RangesTyped, UNCHANGED rangeVars PROVE RangesTyped'
<1>1. /\ user' \in [Users -> UserStates] /\ hand' \in [Hands -> HandStates] /\ inbox' \in [Hands -> Seq(Messages)]
      /\ \A w \in Hands : HandFits(w)'
  BY TypedMeansTypes DEF rangeVars, HandFits
<1>2. TablesTyped'
  BY TypedMeansTypes DEF rangeVars, TablesTyped, Present
<1> QED BY <1>1, <1>2, TypesMeanTypedNext

LEMMA RangesStepTyped == ASSUME RangesTyped, [RangesNext]_rangeVars PROVE RangesTyped'
BY UserStepsTyped, HandStepsTyped, FaultTyped, RangesStayTyped DEF RangesNext

Others(u) ==
  /\ \A v \in Users \ {u} : user[v].pc = "idle"
  /\ \A w \in Hands : hand[w].pc = "idle"

LEMMA OthersIdle ==
  ASSUME Apart, NEW u \in Users, Exclusive(u)
  PROVE  Others(u)
BY WhoActs DEF Apart, Others, Actors

LEMMA NobodyAtWork ==
  ASSUME NEW u \in Users, ~ AtWork(u)
  PROVE  Others(u)
BY WhoActs DEF AtWork, Others, Actors

\* A step that keeps the history smooth began in a smooth one, and found no other
\* page under way if it is a request or the start of a job.
LEMMA StartedSmooth ==
  ASSUME RangesTyped, RangesNext \/ UNCHANGED rangeVars, Smooth'
  PROVE  Smooth
<1>1. faults \in Nat
  BY AppRangesAssumption DEF RangesTyped, RangesTypeOK
<1>2. ASSUME NEW u \in Users, UserNext(u) PROVE Smooth
  <2>1. ASSUME NEW n, NEW clash, Ask(u, n, clash) PROVE faults' = faults /\ (clashed => clashed')
    BY <2>1 DEF Ask, Overlap
  <2>2. ASSUME NEW e \in RangeEnvs, NEW chosen \in SUBSET Lists, SavePage(u, e, chosen) PROVE Smooth
    BY <2>1, <2>2 DEF SavePage, Smooth
  <2>3. ASSUME NEW l \in Lists, NEW v \in Versions, EditList(u, l, v) PROVE Smooth
    BY <2>1, <2>3 DEF EditList, Smooth
  <2>4. ASSUME NEW l \in Lists, DeleteList(u, l) PROVE Smooth
    BY <2>1, <2>4 DEF DeleteList, Smooth
  <2>5. ASSUME ReadOld(u) \/ WriteRows(u) \/ PutPage(u) \/ CommitPage(u) \/ TellUpdate(u) PROVE Smooth
    BY <2>5 DEF ReadOld, WriteRows, PutPage, CommitPage, TellUpdate, counts, Smooth
  <2>6. ASSUME DropUnused(u) \/ MarkDeleted(u) \/ TellDelete(u) PROVE Smooth
    BY <2>6 DEF DropUnused, MarkDeleted, TellDelete, counts, Smooth
  <2>7. ASSUME LookAgain(u) PROVE Smooth
    BY <2>7 DEF LookAgain, counts, Smooth
  <2>8. ASSUME SaveList(u) PROVE Smooth
    BY <2>8 DEF SaveList, counts, Smooth
  <2> QED BY <1>2, <2>2, <2>3, <2>4, <2>5, <2>6, <2>7, <2>8 DEF UserNext
<1>3. ASSUME NEW w \in Hands, HandNext(w) PROVE Smooth
  <2>1. ASSUME TakeJob(w) PROVE Smooth
    BY <2>1 DEF TakeJob, Overlap, counts, Smooth
  <2>2. ASSUME NEW e \in RangeEnvs, ReadRanges(w, e) PROVE Smooth
    BY <2>2 DEF ReadRanges, counts, Smooth
  <2>3. ASSUME RemoveRows(w) \/ PutRanges(w) \/ EndJob(w) \/ CountApps(w) \/ DropList(w) PROVE Smooth
    BY <2>3 DEF RemoveRows, PutRanges, EndJob, CountApps, DropList, counts, Smooth
  <2> QED BY <1>3, <2>1, <2>2, <2>3 DEF HandNext
<1>4. ASSUME NEW a \in Actors, Fault(a) PROVE Smooth
  BY <1>1, <1>4 DEF Fault, Smooth
<1> QED BY <1>2, <1>3, <1>4 DEF RangesNext, rangeVars, Smooth

LEMMA FaultsEndIt ==
  ASSUME RangesTyped, NEW a \in Actors, Fault(a)
  PROVE  ~ Smooth'
BY AppRangesAssumption DEF Fault, Smooth, RangesTyped, RangesTypeOK

\* What the workers' messages and jobs amount to depends on them and on the lists.
LEMMA MailKept ==
  ASSUME hand' = hand, inbox' = inbox, list' = list
  PROVE  /\ \A w \in Hands : \A l \in Lists : (Waits(w, l)' <=> Waits(w, l)) /\ (Deletes(w, l)' <=> Deletes(w, l))
         /\ \A w \in Hands : Lost(w)' <=> Lost(w)
         /\ \A w \in Hands : \A e \in RangeEnvs : (Reads(w, e)' <=> Reads(w, e)) /\ (Holds(w, e)' <=> Holds(w, e))
         /\ DeletionsFirst' <=> DeletionsFirst
         /\ DeletesMarked' <=> DeletesMarked
         /\ SomeHandles' <=> SomeHandles
<1>1. \A w \in Hands : \A l \in Lists : (Waits(w, l)' <=> Waits(w, l)) /\ (Deletes(w, l)' <=> Deletes(w, l))
  BY DEF Waits, Deletes
<1>2. \A w \in Hands : Lost(w)' <=> Lost(w)
  BY <1>1 DEF Lost
<1>3. \A w \in Hands : \A e \in RangeEnvs : (Reads(w, e)' <=> Reads(w, e)) /\ (Holds(w, e)' <=> Holds(w, e))
  BY <1>2 DEF Reads, Holds
<1>4. DeletionsFirst' <=> DeletionsFirst
  BY DEF DeletionsFirst
<1>5. DeletesMarked' <=> DeletesMarked
  BY <1>1 DEF DeletesMarked
<1> QED BY <1>1, <1>2, <1>3, <1>4, <1>5 DEF SomeHandles

LEMMA RowsKept ==
  ASSUME held' = held, list' = list
  PROVE  /\ Kept' = Kept /\ Present' = Present /\ \A l \in Lists : RowsOf(l)' = RowsOf(l)
         /\ text' = text => \A e \in RangeEnvs : Target(e)' = Target(e)
<1>1. Kept' = Kept /\ Present' = Present /\ \A l \in Lists : RowsOf(l)' = RowsOf(l)
  BY DEF Kept, Present, RowsOf
<1>2. ASSUME text' = text, NEW e \in RangeEnvs PROVE Target(e)' = Target(e)
  BY <1>1, <1>2 DEF Target, Ranges
<1> QED BY <1>1, <1>2

\* A page begun, carried on or about to be committed, and a deletion begun, with
\* everyone else idle.
LEMMA PageMoves ==
  ASSUME RangesTyped, Settling, NEW u \in Users, Others(u), user[u].pc \in {"idle", "old", "write", "put"},
         user'[u].pc \in {"old", "write", "put", "commit", "mark", "drop"},
         \A v \in Users \ {u} : user'[v] = user[v],
         hand' = hand, inbox' = inbox, UNCHANGED tables, PageSound(u)', OrderSound(u)',
         \A e \in RangeEnvs : secret'[e] = secret[e] \/ (user'[u].pc = "commit" /\ user'[u].env = e)
  PROVE  Settling'
<1>1. list' = list /\ text' = text /\ held' = held
  BY DEF tables
<1>2. \A v \in Users \ {u} : user'[v].pc = "idle"
  BY DEF Others
<1>3. \A w \in Hands : hand'[w].pc = "idle"
  BY DEF Others
<1>4. Apart'
  BY <1>2, <1>3, WhoActs DEF Apart, Exclusive, Actors, Actor
<1>5. DeletionsFirst' /\ DeletesMarked' /\ SomeHandles'
  BY <1>1, MailKept DEF Settling
<1>6. MarkedAreDeleted'
  BY <1>1, MailKept DEF Settling, MarkedAreDeleted, Others
<1>7. RowsGo'
  BY <1>3 DEF RowsGo, Deletes
<1>8. \A v \in Users : PageSound(v)' /\ OrderSound(v)'
  BY <1>2 DEF PageSound, OrderSound
<1>9. ASSUME NEW e \in RangeEnvs PROVE WillBeRight(e)'
  <2>1. ~ Tells(e) /\ \A w \in Hands : ~ Holds(w, e)
    BY DEF Others, Tells, Holds
  <2>2. Target(e)' = Target(e) /\ \A w \in Hands : Reads(w, e)' <=> Reads(w, e)
    BY <1>1, RowsKept, MailKept
  <2>3. ~ \E v \in Users : user[v].pc = "commit" /\ user[v].env = e
    BY DEF Others
  <2>4. secret[e] = Target(e) \/ \E w \in Hands : Reads(w, e)
    BY <2>1, <2>3 DEF Settling, WillBeRight
  <2> QED BY <2>2, <2>4 DEF WillBeRight
<1>10. \A e \in RangeEnvs : StaysRight(e)'
  BY <1>3 DEF StaysRight, Holds
<1> QED BY <1>4, <1>5, <1>6, <1>7, <1>8, <1>9, <1>10 DEF Settling

\* With every worker idle and without messages, a list is marked only while its
\* deletion is about to be told.
LEMMA NoneMarked ==
  ASSUME Settling, NEW u \in Users, Others(u), user[u].pc # "tellDelete", \A w \in Hands : inbox[w] = <<>>,
         NEW l \in Lists
  PROVE  list[l] # "deleted"
<1>1. PICK w \in Hands : TRUE
  BY AppRangesAssumption
<1>2. ~ Waits(w, l) /\ ~ Deletes(w, l)
  BY DEF Waits, Deletes, Others
<1> QED BY <1>2 DEF Settling, MarkedAreDeleted, Others

LEMMA PageSteps ==
  ASSUME RangesTyped, Smooth, Smooth', Settling, NEW u \in Users,
         \/ \E e \in RangeEnvs, chosen \in SUBSET Lists : SavePage(u, e, chosen)
         \/ ReadOld(u) \/ WriteRows(u) \/ PutPage(u)
         \/ \E l \in Lists : DeleteList(u, l)
  PROVE  Settling'
<1>1. user[u] \in UserStates
  BY TypedMeansTypes, WhoActs
<1>2. PageSound(u) /\ OrderSound(u)
  BY DEF Settling
<1>3. ASSUME NEW e \in RangeEnvs, NEW chosen \in SUBSET Lists, SavePage(u, e, chosen) PROVE Settling'
  <2>1. PICK n : n = [pc |-> "old", env |-> e, chosen |-> chosen]
    OBVIOUS
  <2>2. Turn(u, "idle", n) /\ ~ AtWork(u) /\ chosen \subseteq Present
    BY <1>3, <2>1 DEF SavePage, Ask, Overlap, Smooth
  <2>3. user[u].pc = "idle" /\ user'[u] = n /\ hand' = hand /\ \A v \in Users \ {u} : user'[v] = user[v]
    BY <2>2, UserTurns
  <2>4. UNCHANGED tables /\ UNCHANGED secret /\ inbox' = inbox
    BY <1>3 DEF SavePage, Ask, tables
  <2>5. PageSound(u)' /\ OrderSound(u)'
    BY <2>1, <2>2, <2>3, <2>4 DEF PageSound, OrderSound, Present, tables
  <2>6. Others(u)
    BY <2>2, NobodyAtWork
  <2> QED BY <2>1, <2>3, <2>4, <2>5, <2>6, PageMoves
<1>4. ASSUME ReadOld(u) PROVE Settling'
  <2>1. PICK n : n = [pc |-> "write", env |-> user[u].env, chosen |-> user[u].chosen,
                      del |-> {pair \in held : pair[1] = user[u].env}]
    OBVIOUS
  <2>2. Turn(u, "old", n)
    BY <1>4, <2>1 DEF ReadOld
  <2>3. user[u].pc = "old" /\ user'[u] = n /\ hand' = hand /\ \A v \in Users \ {u} : user'[v] = user[v]
    BY <2>2, UserTurns
  <2>4. UNCHANGED tables /\ UNCHANGED secret /\ inbox' = inbox
    BY <1>4 DEF ReadOld
  <2>5. PageSound(u)' /\ OrderSound(u)'
    BY <1>2, <2>1, <2>3, <2>4 DEF PageSound, OrderSound, Present, tables
  <2>6. Others(u)
    BY <2>3, OthersIdle DEF Settling, Exclusive
  <2> QED BY <2>1, <2>3, <2>4, <2>5, <2>6, PageMoves
<1>5. ASSUME WriteRows(u) PROVE Settling'
  <2>1. PICK n : n = [pc |-> "put", env |-> user[u].env, del |-> user[u].del, ins |-> {user[u].env} \X user[u].chosen]
    OBVIOUS
  <2>2. Turn(u, "write", n)
    BY <1>5, <2>1 DEF WriteRows
  <2>3. user[u].pc = "write" /\ user'[u] = n /\ hand' = hand /\ \A v \in Users \ {u} : user'[v] = user[v]
    BY <2>2, UserTurns
  <2>4. UNCHANGED tables /\ UNCHANGED secret /\ inbox' = inbox
    BY <1>5 DEF WriteRows
  <2>5. PageSound(u)' /\ OrderSound(u)'
    <3>1. user[u].chosen \subseteq Present /\ user[u].del = {pair \in held : pair[1] = user[u].env}
      BY <1>2, <2>3 DEF PageSound
    <3>2. n.ins \subseteq {n.env} \X Present /\ n.pc = "put" /\ n.env = user[u].env /\ n.del = user[u].del
      BY <2>1, <3>1
    <3> QED BY <2>3, <2>4, <3>1, <3>2 DEF PageSound, OrderSound, Present, tables
  <2>6. Others(u)
    BY <2>3, OthersIdle DEF Settling, Exclusive
  <2> QED BY <2>1, <2>3, <2>4, <2>5, <2>6, PageMoves
<1>6. ASSUME PutPage(u) PROVE Settling'
  <2>1. PICK n : n = [user[u] EXCEPT !.pc = "commit"]
    OBVIOUS
  <2>2. Turn(u, "put", n)
    BY <1>6, <2>1 DEF PutPage
  <2>3. user[u].pc = "put" /\ user'[u] = n /\ hand' = hand /\ \A v \in Users \ {u} : user'[v] = user[v]
    BY <2>2, UserTurns
  <2>4. UNCHANGED tables /\ secret' = [secret EXCEPT ![user[u].env] = Ranges(Seen(u), user[u].env)] /\ inbox' = inbox
    BY <1>6 DEF PutPage
  <2>5. n.pc = "commit" /\ n.env = user[u].env /\ n.del = user[u].del /\ n.ins = user[u].ins /\ n.env \in RangeEnvs
    BY <1>1, <2>1, <2>3, UserShape DEF Pages
  <2>6. Seen(u)' = Seen(u)
    BY <1>1, <2>3, <2>4, <2>5 DEF Seen, Removed, Inserted, Actor, tables
  <2>7. Present' = Present /\ text' = text /\ held' = held
    BY <2>4 DEF tables, Present
  <2>8. secret'[n.env] = Ranges(Seen(u), n.env)' /\ \A e \in RangeEnvs \ {n.env} : secret'[e] = secret[e]
    <3>1. Ranges(Seen(u), n.env)' = Ranges(Seen(u), n.env)
      BY <2>6, <2>7 DEF Ranges
    <3>2. secret \in [RangeEnvs -> Texts]
      BY TypedMeansTypes DEF TablesTyped
    <3>3. secret'[n.env] = Ranges(Seen(u), n.env) /\ \A e \in RangeEnvs \ {n.env} : secret'[e] = secret[e]
      BY <2>4, <2>5, <3>2
    <3> QED BY <3>1, <3>3
  <2>9. PageSound(u)' /\ OrderSound(u)'
    BY <1>2, <2>3, <2>5, <2>7, <2>8 DEF PageSound, OrderSound
  <2>10. Others(u)
    BY <2>3, OthersIdle DEF Settling, Exclusive
  <2> QED BY <2>3, <2>4, <2>5, <2>8, <2>9, <2>10, PageMoves
<1>7. ASSUME NEW l \in Lists, DeleteList(u, l) PROVE Settling'
  <2>1. PICK n : n = [pc |-> IF \E e \in RangeEnvs : <<e, l>> \in held THEN "mark" ELSE "drop", list |-> l]
    OBVIOUS
  <2>2. Turn(u, "idle", n) /\ ~ AtWork(u) /\ ~ Pending /\ list[l] # "gone"
    BY <1>7, <2>1 DEF DeleteList, Ask, Overlap, Smooth
  <2>3. user[u].pc = "idle" /\ user'[u] = n /\ hand' = hand /\ \A v \in Users \ {u} : user'[v] = user[v]
    BY <2>2, UserTurns
  <2>4. UNCHANGED tables /\ UNCHANGED secret /\ inbox' = inbox
    BY <1>7 DEF DeleteList, Ask, tables
  <2>5. Others(u) /\ \A w \in Hands : inbox[w] = <<>>
    BY <2>2, NobodyAtWork DEF Pending
  <2>6. list[l] = "live"
    BY <2>2, <2>3, <2>5, NoneMarked DEF RangesTyped, RangesTypeOK
  <2>7. (\E e \in RangeEnvs : <<e, l>> \in held) <=> RowsOf(l) # {}
    <3>1. \A pair \in held : pair = <<pair[1], pair[2]>> /\ pair[1] \in RangeEnvs
      BY TypedMeansTypes DEF TablesTyped
    <3>2. \A e \in RangeEnvs : <<e, l>> \in held => <<e, l>> \in RowsOf(l)
      BY DEF RowsOf
    <3>3. \A pair \in RowsOf(l) : <<pair[1], l>> \in held /\ pair[1] \in RangeEnvs
      BY <3>1 DEF RowsOf
    <3> QED BY <3>2, <3>3
  <2>8. n.list = l /\ n.pc \in {"mark", "drop"} /\ (n.pc = "drop" <=> RowsOf(l) = {})
    BY <2>1, <2>7
  <2>9. PageSound(u)' /\ OrderSound(u)'
    BY <2>3, <2>4, <2>5, <2>6, <2>8 DEF PageSound, OrderSound, RowsOf, tables
  <2> QED BY <2>3, <2>4, <2>5, <2>8, <2>9, PageMoves
<1> QED BY <1>3, <1>4, <1>5, <1>6, <1>7

\* The rows of an environment decide its ranges, whatever lists there are beside them.
LEMMA SameTarget ==
  ASSUME RangesTyped, NEW e \in RangeEnvs, text' = text,
         \A l \in Lists : (l \in Present /\ <<e, l>> \in Kept) <=> (l \in Present' /\ <<e, l>> \in Kept')
  PROVE  Target(e)' = Target(e)
<1>1. {m \in Present : <<e, m>> \in Kept} = {m \in Present' : <<e, m>> \in Kept'}
  BY DEF Present
<1> QED BY <1>1 DEF Target, Ranges

\* With everyone else idle, and a user who is neither to tell nor to commit, an
\* environment's secret is right or a message is there to make it so.
LEMMA SettledSecret ==
  ASSUME Settling, NEW u \in Users, Others(u), user[u].pc \notin {"tellUpdate", "tellDelete"}, NEW e \in RangeEnvs,
         user[u].pc = "commit" => user[u].env # e
  PROVE  secret[e] = Target(e) \/ \E w \in Hands : inbox[w] # <<>> /\ ~ Lost(w)
<1>1. ~ Tells(e) /\ \A w \in Hands : ~ Holds(w, e)
  BY DEF Others, Tells, Holds
<1>2. ~ \E v \in Users : user[v].pc = "commit" /\ user[v].env = e
  BY DEF Others
<1>3. \A w \in Hands : Reads(w, e) => inbox[w] # <<>> /\ ~ Lost(w)
  BY DEF Others, Reads
<1> QED BY <1>1, <1>2, <1>3 DEF Settling, WillBeRight

\* What a user may be doing while other things go on.
Gentle == {"idle", "look", "save", "tellUpdate"}

\* Once nobody is in a page or a deletion, nothing is asked of the users' state.
LEMMA NoPages ==
  ASSUME \A v \in Users : user'[v].pc \in Gentle
  PROVE  Apart' /\ \A v \in Users : PageSound(v)' /\ OrderSound(v)'
BY DEF Apart, Exclusive, PageSound, OrderSound, Gentle

LEMMA CommitSettles ==
  ASSUME RangesTyped, Settling, NEW u \in Users, CommitPage(u)
  PROVE  Settling'
<1>1. /\ user[u].pc = "commit" /\ user'[u] = Idle /\ hand' = hand
      /\ \A v \in Users \ {u} : user'[v] = user[v]
  BY UserTurns DEF CommitPage
<1>2. Others(u)
  BY <1>1, OthersIdle DEF Settling, Exclusive
<1>3. list' = list /\ text' = text /\ secret' = secret /\ inbox' = inbox /\ Present' = Present
  BY DEF CommitPage, Present
<1>4. PICK e \in RangeEnvs : e = user[u].env
  BY <1>1, TypedMeansTypes, UserShape
<1>5. /\ user[u].del = {pair \in held : pair[1] = e} /\ user[u].ins \subseteq {e} \X Present
      /\ secret[e] = Ranges(Seen(u), e)
  BY <1>1, <1>4 DEF Settling, PageSound
<1>6. held' = Seen(u)
  BY <1>1, <1>5, WhoActs DEF CommitPage, Seen, Removed, Inserted
<1>7. Apart' /\ \A v \in Users : PageSound(v)' /\ OrderSound(v)'
  BY <1>1, <1>2, NoPages DEF Others, Idle, Gentle
<1>8. DeletionsFirst' /\ DeletesMarked' /\ SomeHandles'
  BY <1>1, <1>3, MailKept DEF Settling
<1>9. \A w \in Hands : hand'[w].pc = "idle"
  BY <1>1, <1>2 DEF Others
<1>10. ASSUME NEW l \in Lists, list[l] = "deleted" PROVE \A w \in Hands : Waits(w, l)
  BY <1>1, <1>2, <1>10 DEF Settling, MarkedAreDeleted, Others, Deletes
<1>11. MarkedAreDeleted'
  BY <1>1, <1>3, <1>10, MailKept DEF MarkedAreDeleted
<1>12. RowsGo' /\ \A d \in RangeEnvs : StaysRight(d)'
  BY <1>9 DEF RowsGo, Deletes, StaysRight, Holds
<1>13. ASSUME NEW w \in Hands, inbox[w] # <<>>, ~ Lost(w) PROVE \A d \in RangeEnvs : WillBeRight(d)'
  BY <1>1, <1>3, <1>13, MailKept DEF WillBeRight, Reads
<1>14. ASSUME \A w \in Hands : inbox[w] # <<>> => Lost(w), NEW d \in RangeEnvs PROVE secret'[d] = Target(d)'
  <2>1. \A l \in Lists : list[l] # "deleted"
    <3>1. PICK x \in Hands : ~ Lost(x)
      BY DEF Settling, SomeHandles
    <3> QED BY <1>10, <1>14, <3>1 DEF Waits
  <2>2. Kept' = held' /\ Kept = held
    <3>1. \A pair \in held : pair[2] \in Lists
      BY TypedMeansTypes DEF TablesTyped, Present
    <3>2. \A pair \in held' : pair[2] \in Lists
      BY <1>5, <1>6, <3>1, WhoActs, <1>1 DEF Seen, Removed, Inserted, Present
    <3> QED BY <1>3, <2>1, <3>1, <3>2 DEF Kept
  <2>3. CASE d = e
    BY <1>3, <1>5, <1>6, <2>2, <2>3 DEF Target, Ranges
  <2>4. CASE d # e
    <3>1. \A l \in Lists : <<d, l>> \in held' <=> <<d, l>> \in held
      BY <1>1, <1>5, <1>6, <2>4, WhoActs DEF Seen, Removed, Inserted
    <3>2. Target(d)' = Target(d)
      BY <1>3, <2>2, <3>1, SameTarget
    <3>3. secret[d] = Target(d)
      BY <1>1, <1>2, <1>4, <1>14, <2>4, SettledSecret
    <3> QED BY <1>3, <3>2, <3>3
  <2> QED BY <2>3, <2>4
<1>15. \A d \in RangeEnvs : WillBeRight(d)'
  BY <1>13, <1>14 DEF WillBeRight
<1> QED BY <1>7, <1>8, <1>11, <1>12, <1>15 DEF Settling

LEMMA DropSettles ==
  ASSUME RangesTyped, Settling, NEW u \in Users, DropUnused(u)
  PROVE  Settling'
<1>1. /\ user[u].pc = "drop" /\ user'[u] = Idle /\ hand' = hand
      /\ \A v \in Users \ {u} : user'[v] = user[v]
  BY UserTurns DEF DropUnused
<1>2. Others(u)
  BY <1>1, OthersIdle DEF Settling, Exclusive
<1>3. PICK l \in Lists : l = user[u].list
  BY <1>1, TypedMeansTypes, UserShape
<1>4. (\A w \in Hands : inbox[w] = <<>>) /\ list[l] = "live" /\ RowsOf(l) = {}
  BY <1>1, <1>3 DEF Settling, OrderSound
<1>5. text' = text /\ secret' = secret /\ inbox' = inbox /\ list' = [list EXCEPT ![l] = "gone"] /\ held' = held
  BY <1>3, <1>4 DEF DropUnused, Gone, RowsOf
<1>6. Apart' /\ \A v \in Users : PageSound(v)' /\ OrderSound(v)'
  BY <1>1, <1>2, NoPages DEF Others, Idle, Gentle
<1>7. \A w \in Hands : hand'[w].pc = "idle" /\ inbox'[w] = <<>>
  BY <1>1, <1>2, <1>4, <1>5 DEF Others
<1>8. \A w \in Hands : \A k \in Lists : ~ Waits(w, k)' /\ ~ Deletes(w, k)'
  BY <1>7 DEF Waits, Deletes
<1>9. DeletionsFirst' /\ DeletesMarked' /\ RowsGo' /\ \A d \in RangeEnvs : StaysRight(d)'
  BY <1>7, <1>8 DEF DeletionsFirst, DeletesMarked, RowsGo, StaysRight, Holds
<1>10. SomeHandles'
  BY <1>8, AppRangesAssumption DEF SomeHandles, Lost
<1>11. \A k \in Lists : list[k] # "deleted" /\ list'[k] # "deleted"
  BY <1>1, <1>2, <1>4, <1>5, NoneMarked, TypedMeansTypes DEF TablesTyped
<1>12. MarkedAreDeleted'
  BY <1>11 DEF MarkedAreDeleted
<1>13. ASSUME NEW d \in RangeEnvs PROVE secret'[d] = Target(d)'
  <2>1. \A pair \in held : pair = <<pair[1], pair[2]>> /\ pair[2] \in Lists
    BY TypedMeansTypes DEF TablesTyped, Present
  <2>2. Kept = held /\ Kept' = held
    BY <1>5, <1>11, <2>1 DEF Kept
  <2>3. \A k \in Lists : (k \in Present /\ <<d, k>> \in Kept) <=> (k \in Present' /\ <<d, k>> \in Kept')
    <3>1. <<d, l>> \notin held
      BY <1>4 DEF RowsOf
    <3>2. \A k \in Lists \ {l} : k \in Present' <=> k \in Present
      BY <1>5, TypedMeansTypes DEF Present, TablesTyped
    <3> QED BY <2>2, <3>1, <3>2
  <2>4. secret[d] = Target(d)
    BY <1>1, <1>2, <1>4, SettledSecret
  <2> QED BY <1>5, <2>3, <2>4, SameTarget
<1> QED BY <1>6, <1>9, <1>10, <1>12, <1>13 DEF Settling, WillBeRight

LEMMA MarkSettles ==
  ASSUME RangesTyped, Settling, NEW u \in Users, MarkDeleted(u)
  PROVE  Settling'
<1>1. /\ user[u].pc = "mark" /\ user' = [user EXCEPT ![u] = [user[u] EXCEPT !.pc = "tellDelete"]] /\ hand' = hand
      /\ user'[u] = [user[u] EXCEPT !.pc = "tellDelete"] /\ \A v \in Users \ {u} : user'[v] = user[v]
  BY UserTurns DEF MarkDeleted
<1>2. Others(u)
  BY <1>1, OthersIdle DEF Settling, Exclusive
<1>3. PICK l \in Lists : l = user[u].list
  BY <1>1, TypedMeansTypes, UserShape
<1>4. (\A w \in Hands : inbox[w] = <<>>) /\ list[l] = "live" /\ RowsOf(l) # {}
  BY <1>1, <1>3 DEF Settling, OrderSound
<1>5. text' = text /\ secret' = secret /\ inbox' = inbox /\ list' = [list EXCEPT ![l] = "deleted"] /\ held' = held
  BY <1>3 DEF MarkDeleted
<1>6. user'[u].pc = "tellDelete" /\ user'[u].list = l
  BY <1>1, <1>3, TypedMeansTypes, UserShape DEF Orders
<1>7. \A w \in Hands : hand'[w].pc = "idle" /\ inbox'[w] = <<>>
  BY <1>1, <1>2, <1>4, <1>5 DEF Others
<1>8. \A w \in Hands : \A k \in Lists : ~ Waits(w, k)' /\ ~ Deletes(w, k)'
  BY <1>7 DEF Waits, Deletes
<1>9. DeletionsFirst' /\ DeletesMarked' /\ RowsGo' /\ \A d \in RangeEnvs : StaysRight(d)'
  BY <1>7, <1>8 DEF DeletionsFirst, DeletesMarked, RowsGo, StaysRight, Holds
<1>10. SomeHandles'
  BY <1>8, AppRangesAssumption DEF SomeHandles, Lost
<1>11. MarkedAreDeleted'
  <2>1. \A k \in Lists \ {l} : list'[k] # "deleted"
    BY <1>1, <1>2, <1>4, <1>5, NoneMarked, TypedMeansTypes DEF TablesTyped
  <2> QED BY <1>6, <2>1 DEF MarkedAreDeleted
<1>12. Apart'
  BY <1>1, <1>2, <1>7, WhoActs DEF Apart, Exclusive, Actors, Actor, Others
<1>13. \A v \in Users : PageSound(v)' /\ OrderSound(v)'
  <2>1. list'[l] = "deleted" /\ RowsOf(l)' = RowsOf(l)
    BY <1>5, TypedMeansTypes DEF TablesTyped, RowsOf
  <2>2. PageSound(u)' /\ OrderSound(u)'
    BY <1>4, <1>6, <1>7, <2>1 DEF PageSound, OrderSound
  <2>3. \A v \in Users \ {u} : PageSound(v)' /\ OrderSound(v)'
    BY <1>1, <1>2 DEF PageSound, OrderSound, Others
  <2> QED BY <2>2, <2>3
<1>14. \A d \in RangeEnvs : WillBeRight(d)'
  BY <1>6 DEF WillBeRight, Tells
<1> QED BY <1>9, <1>10, <1>11, <1>12, <1>13, <1>14 DEF Settling

LEMMA TellDeleteSettles ==
  ASSUME RangesTyped, Settling, NEW u \in Users, TellDelete(u)
  PROVE  Settling'
<1>1. /\ user[u].pc = "tellDelete" /\ user'[u] = Idle /\ hand' = hand
      /\ \A v \in Users \ {u} : user'[v] = user[v]
  BY UserTurns DEF TellDelete
<1>2. Others(u)
  BY <1>1, OthersIdle DEF Settling, Exclusive
<1>3. PICK l \in Lists : l = user[u].list
  BY <1>1, TypedMeansTypes, UserShape
<1>4. (\A w \in Hands : inbox[w] = <<>>) /\ list[l] = "deleted" /\ RowsOf(l) # {}
  BY <1>1, <1>3 DEF Settling, OrderSound
<1>5. \E e \in RangeEnvs : <<e, l>> \in held
  <2>1. PICK pair \in held : pair[2] = l
    BY <1>4 DEF RowsOf
  <2>2. pair = <<pair[1], l>> /\ pair[1] \in RangeEnvs
    BY <2>1, TypedMeansTypes DEF TablesTyped
  <2> QED BY <2>2
<1>6. text' = text /\ secret' = secret /\ list' = list /\ held' = held /\ Tell("delete", l)
  BY <1>3, <1>5 DEF TellDelete, tables
<1>7. \A w \in Hands : hand'[w].pc = "idle" /\ inbox'[w] = <<Deletion(l)>>
  <2>1. \A m : Append(<<>>, m) = <<m>>
    OBVIOUS
  <2>2. \A w \in Hands : inbox'[w] = Append(<<>>, Deletion(l))
    BY <1>4, <1>6 DEF Tell, Deletion
  <2> QED BY <1>1, <1>2, <2>1, <2>2 DEF Others
<1>8. \A w \in Hands : inbox'[w] # <<>> /\ Head(inbox'[w]) = Deletion(l) /\ Len(inbox'[w]) = 1
  <2>1. \A m : <<m>> # <<>> /\ Head(<<m>>) = m /\ Len(<<m>>) = 1
    OBVIOUS
  <2> QED BY <1>7, <2>1
<1>9. \A w \in Hands : \A k \in Lists : (Waits(w, k)' <=> k = l) /\ ~ Deletes(w, k)'
  BY <1>7, <1>8 DEF Waits, Deletes, Deletion
<1>10. DeletionsFirst'
  BY <1>7, <1>8 DEF DeletionsFirst
<1>11. DeletesMarked' /\ RowsGo' /\ \A d \in RangeEnvs : StaysRight(d)'
  BY <1>4, <1>6, <1>7, <1>9 DEF DeletesMarked, RowsGo, StaysRight, Holds
<1>12. \A w \in Hands : ~ Lost(w)'
  BY <1>4, <1>6, <1>9 DEF Lost
<1>13. SomeHandles' /\ \A d \in RangeEnvs : WillBeRight(d)'
  BY <1>8, <1>12, AppRangesAssumption DEF SomeHandles, WillBeRight, Reads
<1>14. MarkedAreDeleted'
  <2>1. PICK w \in Hands : inbox[w] = <<>> /\ hand[w].pc = "idle"
    BY <1>2, <1>4, AppRangesAssumption DEF Others
  <2>2. \A k \in Lists \ {l} : list[k] # "deleted"
    BY <1>2, <1>3, <2>1 DEF Settling, MarkedAreDeleted, Waits, Deletes, Others
  <2> QED BY <1>6, <1>9, <2>2 DEF MarkedAreDeleted
<1>15. Apart' /\ \A v \in Users : PageSound(v)' /\ OrderSound(v)'
  BY <1>1, <1>2, NoPages DEF Others, Idle, Gentle
<1> QED BY <1>10, <1>11, <1>13, <1>14, <1>15 DEF Settling

\* A step of an edit that changes no table and has nothing to tell.
LEMMA QuietEdit ==
  ASSUME RangesTyped, Settling, NEW u \in Users, \A v \in Users : user[v].pc \in Gentle,
         user[u].pc # "tellUpdate", user'[u].pc \in Gentle, \A v \in Users \ {u} : user'[v] = user[v],
         UNCHANGED <<hand, list, text, held, secret, inbox>>
  PROVE  Settling'
<1>1. \A v \in Users : user'[v].pc \in Gentle
  OBVIOUS
<1>2. Apart' /\ \A v \in Users : PageSound(v)' /\ OrderSound(v)'
  BY <1>1, NoPages
<1>3. DeletionsFirst' /\ DeletesMarked' /\ SomeHandles'
  BY MailKept DEF Settling
<1>4. MarkedAreDeleted'
  BY MailKept DEF Settling, MarkedAreDeleted, Gentle
<1>5. RowsGo'
  BY MailKept, RowsKept DEF Settling, RowsGo
<1>6. Kept' = Kept /\ \A e \in RangeEnvs : Target(e)' = Target(e)
  BY RowsKept
<1>7. \A e \in RangeEnvs : Tells(e) => Tells(e)'
  BY <1>6 DEF Tells, Gentle
<1>8. ASSUME NEW e \in RangeEnvs PROVE WillBeRight(e)' /\ StaysRight(e)'
  <2>1. \A w \in Hands : (Reads(w, e)' <=> Reads(w, e)) /\ (Holds(w, e)' <=> Holds(w, e))
    BY MailKept
  <2>2. WillBeRight(e) /\ StaysRight(e) /\ ~ \E v \in Users : user[v].pc = "commit" /\ user[v].env = e
    BY DEF Settling, Gentle
  <2> QED BY <1>6, <1>7, <2>1, <2>2 DEF WillBeRight, StaysRight
<1> QED BY <1>2, <1>3, <1>4, <1>5, <1>8 DEF Settling

LEMMA EditSettles ==
  ASSUME RangesTyped, Smooth', Settling, NEW u \in Users, NEW l \in Lists, NEW v \in Versions, EditList(u, l, v)
  PROVE  Settling'
<1>1. PICK n : n = [pc |-> "look", list |-> l, mark |-> list[l], new |-> v]
  OBVIOUS
<1>2. Turn(u, "idle", n) /\ \A x \in Users \ {u} : ~ Exclusive(x)
  BY <1>1 DEF EditList, Ask, Overlap, Smooth
<1>3. user[u].pc = "idle" /\ user'[u] = n /\ hand' = hand /\ \A x \in Users \ {u} : user'[x] = user[x]
  BY <1>2, UserTurns
<1>4. UNCHANGED <<list, text, held, secret, inbox>>
  BY DEF EditList, Ask
<1>5. (\A x \in Users : user[x].pc \in Gentle) /\ user'[u].pc \in Gentle
  BY <1>1, <1>2, <1>3 DEF Exclusive, Gentle
<1> QED BY <1>3, <1>4, <1>5, QuietEdit

\* The other users tell of nothing else while one edits or tells of an edit.
LEMMA NobodyElse ==
  ASSUME RangesTyped, Settling, NEW a \in Actors, Actor(a).pc # "idle", a \in Users => user[a].pc \in Gentle
  PROVE  \A v \in Users : user[v].pc \in Gentle
BY WhoActs DEF Settling, Apart, Exclusive, Gentle

LEMMA LookSettles ==
  ASSUME RangesTyped, Settling, NEW u \in Users, LookAgain(u)
  PROVE  Settling'
<1>1. PICK n : n = IF list[user[u].list] = "gone" THEN Idle
                   ELSE [pc |-> "save", list |-> user[u].list, mark |-> user[u].mark, new |-> user[u].new,
                         old |-> text[user[u].list]]
  OBVIOUS
<1>2. Turn(u, "look", n)
  BY <1>1 DEF LookAgain
<1>3. user[u].pc = "look" /\ user'[u] = n /\ hand' = hand /\ \A v \in Users \ {u} : user'[v] = user[v]
  BY <1>2, UserTurns
<1>4. UNCHANGED <<list, text, held, secret, inbox>>
  BY DEF LookAgain, tables
<1>5. \A v \in Users : user[v].pc \in Gentle
  BY <1>3, WhoActs, NobodyElse DEF Gentle
<1>6. user'[u].pc \in Gentle
  BY <1>1, <1>3 DEF Gentle, Idle
<1> QED BY <1>3, <1>4, <1>5, <1>6, QuietEdit

\* A save puts right what it spoils, its message is still to come, or it spoils
\* nothing: what it found when it looked is still there, or the history says so.
LEMMA SaveSettles ==
  ASSUME RangesTyped, Smooth', Settling, NEW u \in Users, SaveList(u)
  PROVE  Settling'
<1> DEFINE z == user[u]
<1>1. PICK n : n = IF z.old = z.new THEN Idle ELSE [pc |-> "tellUpdate", list |-> z.list]
  OBVIOUS
<1>2. Turn(u, "save", n) /\ ~ PutsBack(z)
  BY <1>1 DEF SaveList, Smooth
<1>3. z.pc = "save" /\ user'[u] = n /\ hand' = hand /\ \A v \in Users \ {u} : user'[v] = user[v]
  BY <1>2, UserTurns
<1>4. PICK l \in Lists : l = z.list
  BY <1>3, TypedMeansTypes, UserShape
<1>5. \A v \in Users : user[v].pc \in Gentle /\ user'[v].pc \in Gentle
  <2>1. \A v \in Users : user[v].pc \in Gentle
    BY <1>3, WhoActs, NobodyElse DEF Gentle
  <2>2. n.pc \in Gentle
    BY <1>1 DEF Gentle, Idle
  <2> QED BY <1>3, <2>1, <2>2
<1>6. list' = list /\ UNCHANGED <<held, secret, inbox>>
  BY <1>2, TypedMeansTypes DEF SaveList, PutsBack, TablesTyped
<1>7. text' = [text EXCEPT ![l] = z.new]
  BY <1>4 DEF SaveList
<1>8. CASE z.old = z.new
  <2>1. text' = text
    BY <1>2, <1>4, <1>7, <1>8, TypedMeansTypes DEF PutsBack, TablesTyped
  <2> QED BY <1>3, <1>5, <1>6, <2>1, QuietEdit
<1>9. CASE z.old # z.new
  <2>1. Apart' /\ \A v \in Users : PageSound(v)' /\ OrderSound(v)'
    BY <1>5, NoPages
  <2>2. DeletionsFirst' /\ DeletesMarked' /\ SomeHandles'
    BY <1>3, <1>6, MailKept DEF Settling
  <2>3. MarkedAreDeleted'
    BY <1>3, <1>5, <1>6, MailKept DEF Settling, MarkedAreDeleted, Gentle
  <2>4. RowsGo'
    BY <1>3, <1>6, MailKept, RowsKept DEF Settling, RowsGo
  <2>5. Kept' = Kept
    BY <1>6, RowsKept
  <2>6. \A e \in RangeEnvs : Tells(e) => Tells(e)'
    BY <1>3, <1>5, <2>5 DEF Tells, Gentle
  <2>7. ASSUME NEW e \in RangeEnvs PROVE WillBeRight(e)' /\ StaysRight(e)'
    <3>1. CASE <<e, l>> \in Kept
      <4>1. Tells(e)'
        BY <1>1, <1>3, <1>4, <1>9, <2>5, <3>1 DEF Tells
      <4> QED BY <4>1 DEF WillBeRight, StaysRight
    <3>2. CASE <<e, l>> \notin Kept
      <4>1. Target(e)' = Target(e)
        <5>1. \A k \in Present : <<e, k>> \in Kept => text'[k] = text[k]
          BY <1>7, <3>2, TypedMeansTypes DEF TablesTyped, Present
        <5>2. Present' = Present
          BY <1>6 DEF Present
        <5> QED BY <2>5, <5>1, <5>2 DEF Target, Ranges
      <4>2. \A w \in Hands : (Reads(w, e)' <=> Reads(w, e)) /\ (Holds(w, e)' <=> Holds(w, e))
        BY <1>3, <1>6, MailKept
      <4>3. WillBeRight(e) /\ StaysRight(e) /\ ~ \E v \in Users : user[v].pc = "commit" /\ user[v].env = e
        BY <1>5 DEF Settling, Gentle
      <4> QED BY <1>3, <1>6, <2>6, <4>1, <4>2, <4>3 DEF WillBeRight, StaysRight
    <3> QED BY <3>1, <3>2
  <2> QED BY <2>1, <2>2, <2>3, <2>4, <2>7 DEF Settling
<1> QED BY <1>8, <1>9

LEMMA TellUpdateSettles ==
  ASSUME RangesTyped, Settling, NEW u \in Users, TellUpdate(u)
  PROVE  Settling'
<1>1. /\ user[u].pc = "tellUpdate" /\ user'[u] = Idle /\ hand' = hand
      /\ \A v \in Users \ {u} : user'[v] = user[v]
  BY UserTurns DEF TellUpdate
<1>2. PICK l \in Lists : l = user[u].list
  BY <1>1, TypedMeansTypes, UserShape
<1>3. \A v \in Users : user[v].pc \in Gentle
  BY <1>1, WhoActs, NobodyElse DEF Gentle
<1>4. \A v \in Users : user'[v].pc \in Gentle
  BY <1>1, <1>3 DEF Idle, Gentle
<1>5. list' = list /\ text' = text /\ held' = held /\ secret' = secret
  BY DEF TellUpdate, tables
<1>6. Apart' /\ \A v \in Users : PageSound(v)' /\ OrderSound(v)'
  BY <1>4, NoPages
<1>7. Kept' = Kept /\ \A e \in RangeEnvs : Target(e)' = Target(e)
  BY <1>5, RowsKept
<1>8. CASE \E e \in RangeEnvs : <<e, l>> \in held
  <2>1. PICK m \in Messages : m = [kind |-> "update", list |-> l]
    BY DEF Messages
  <2>2. \A w \in Hands : inbox'[w] = Append(inbox[w], m) /\ inbox[w] \in Seq(Messages)
    BY <1>2, <1>8, <2>1, TypedMeansTypes DEF TellUpdate, Tell
  <2>3. ASSUME NEW w \in Hands
        PROVE  /\ inbox'[w] # <<>> /\ 1 \in 1 .. Len(inbox'[w]) /\ inbox'[w][1] = Head(inbox'[w])
               /\ Head(inbox'[w]) = IF inbox[w] = <<>> THEN m ELSE Head(inbox[w])
               /\ \A i \in 1 .. Len(inbox'[w]) :
                    \/ i \in 1 .. Len(inbox[w]) /\ inbox'[w][i] = inbox[w][i]
                    \/ inbox'[w][i] = m
    <3>1. inbox'[w] = Append(inbox[w], m) /\ inbox[w] \in Seq(Messages)
      BY <2>2
    <3> QED BY <3>1, AppendProperties
  <2>4. \A w \in Hands : \A k \in Lists : (Waits(w, k)' <=> Waits(w, k)) /\ (Deletes(w, k)' <=> Deletes(w, k))
    BY <1>1, <2>1, <2>3 DEF Waits, Deletes, Deletion
  <2>5. \A w \in Hands : Lost(w)' <=> Lost(w)
    BY <1>5, <2>4 DEF Lost
  <2>6. DeletionsFirst'
    BY <1>1, <2>1, <2>3 DEF Settling, DeletionsFirst
  <2>7. MarkedAreDeleted' /\ DeletesMarked' /\ SomeHandles'
    BY <1>3, <1>5, <2>4, <2>5 DEF Settling, MarkedAreDeleted, DeletesMarked, SomeHandles, Gentle
  <2>8. RowsGo'
    BY <1>1, <1>5, <2>4, RowsKept DEF Settling, RowsGo
  <2>9. \A e \in RangeEnvs : WillBeRight(e)'
    BY <2>3, <2>7 DEF SomeHandles, WillBeRight, Reads
  <2>10. ASSUME NEW e \in RangeEnvs, NEW w \in Hands, Holds(w, e)' PROVE Reads(w, e)'
    <3>1. hand'[w].pc = "put"
      BY <2>10 DEF Holds
    <3>2. ~ \E k \in Lists : Waits(w, k)'
      <4> SUFFICES ASSUME NEW k \in Lists, Waits(w, k)' PROVE FALSE
        OBVIOUS
      <4>1. inbox'[w][1] = Deletion(k)
        BY <2>3 DEF Waits, Deletion
      <4>2. inbox'[w][1].kind = "delete"
        BY <4>1 DEF Deletion
      <4> QED BY <2>3, <2>6, <3>1, <4>2 DEF DeletionsFirst
    <3> QED BY <2>3, <3>2 DEF Lost, Reads
  <2> QED BY <1>6, <2>6, <2>7, <2>8, <2>9, <2>10 DEF Settling, StaysRight
<1>9. CASE ~ \E e \in RangeEnvs : <<e, l>> \in held
  <2>1. inbox' = inbox
    BY <1>2, <1>9 DEF TellUpdate
  <2>2. DeletionsFirst' /\ DeletesMarked' /\ SomeHandles'
    BY <1>1, <1>5, <2>1, MailKept DEF Settling
  <2>3. MarkedAreDeleted'
    BY <1>1, <1>3, <1>5, <2>1, MailKept DEF Settling, MarkedAreDeleted
  <2>4. RowsGo'
    BY <1>1, <1>5, <2>1, MailKept, RowsKept DEF Settling, RowsGo
  <2>5. \A e \in RangeEnvs : Tells(e) => Tells(e)'
    BY <1>1, <1>2, <1>3, <1>7, <1>9 DEF Tells, Kept
  <2>6. ASSUME NEW e \in RangeEnvs PROVE WillBeRight(e)' /\ StaysRight(e)'
    <3>1. \A w \in Hands : (Reads(w, e)' <=> Reads(w, e)) /\ (Holds(w, e)' <=> Holds(w, e))
      BY <1>1, <1>5, <2>1, MailKept
    <3>2. WillBeRight(e) /\ StaysRight(e) /\ ~ \E v \in Users : user[v].pc = "commit" /\ user[v].env = e
      BY <1>3 DEF Settling, Gentle
    <3> QED BY <1>1, <1>5, <1>7, <2>5, <3>1, <3>2 DEF WillBeRight, StaysRight
  <2> QED BY <1>6, <2>2, <2>3, <2>4, <2>6 DEF Settling
<1> QED BY <1>8, <1>9

LEMMA UserStepsSettle ==
  ASSUME RangesTyped, Smooth, Smooth', Settling, NEW u \in Users, UserNext(u)
  PROVE  Settling'
BY PageSteps, CommitSettles, DropSettles, MarkSettles, TellDeleteSettles, EditSettles, LookSettles, SaveSettles,
   TellUpdateSettles DEF UserNext

\* A worker whose next message is a deletion is not in a job.
LEMMA WaitersIdle ==
  ASSUME RangesTyped, DeletionsFirst, NEW w \in Hands, NEW l \in Lists, Waits(w, l)
  PROVE  hand[w].pc = "idle"
<1>1. PICK s \in Seq(Messages) : s = inbox[w]
  BY TypedMeansTypes
<1>2. s[1] = Deletion(l) /\ 1 \in 1 .. Len(s)
  BY <1>1, HeadTailProperties DEF Waits
<1> QED BY <1>1, <1>2 DEF DeletionsFirst, Deletion

\* What holds of a step of a worker in a job: the rows it removes are those of a
\* marked list, it goes on with its deletion or has removed the list, and an
\* environment it no longer looks after has, or is about to get, the right secret.
HandMoves(w) ==
  /\ user' = user /\ inbox' = inbox /\ text' = text /\ \A v \in Hands \ {w} : hand'[v] = hand[v]
  /\ held' \subseteq held /\ Kept' = Kept
  /\ \A l \in Lists : list'[l] = list[l] \/ (list'[l] = "gone" /\ Deletes(w, l))
  /\ \A l \in Lists : (Deletes(w, l)' => Deletes(w, l)) /\ (Deletes(w, l) => Deletes(w, l)' \/ list'[l] = "gone")
  /\ \A l \in Lists : Deletes(w, l)' =>
       /\ hand'[w].pc \in {"read", "put"} => RowsOf(l)' \subseteq hand'[w].del /\ \A pair \in hand'[w].del : pair[2] = l
       /\ hand'[w].pc \in {"count", "drop"} => RowsOf(l)' = {}

LEMMA HandMovesKeep ==
  ASSUME RangesTyped, RangesTyped', Settling, NEW w \in Hands, hand[w].pc # "idle", HandMoves(w)
  PROVE  /\ Apart' /\ DeletionsFirst' /\ MarkedAreDeleted' /\ DeletesMarked' /\ RowsGo' /\ SomeHandles'
         /\ \A v \in Users : PageSound(v)' /\ OrderSound(v)'
         /\ \A v \in Users : user[v].pc \in Gentle
         /\ \A e \in RangeEnvs : Target(e)' = Target(e) /\ (Tells(e)' <=> Tells(e))
         /\ \A v \in Hands : ~ Lost(v) => ~ Lost(v)'
<1>1. \A v \in Users : user[v].pc \in Gentle /\ user'[v] = user[v]
  BY WhoActs, NobodyElse DEF HandMoves
<1>2. Apart' /\ \A v \in Users : PageSound(v)' /\ OrderSound(v)'
  BY <1>1, NoPages
<1>3. \A v \in Hands, l \in Lists : Waits(v, l)' <=> Waits(v, l)
  BY DEF HandMoves, Waits
<1>4. \A v \in Hands, l \in Lists : Deletes(v, l)' => Deletes(v, l)
  BY DEF HandMoves, Deletes
<1>5. \A v \in Hands : ~ Lost(v) => ~ Lost(v)'
  BY <1>3, <1>4 DEF HandMoves, Lost
<1>6. DeletionsFirst'
  BY DEF Settling, DeletionsFirst, HandMoves
<1>7. MarkedAreDeleted'
  <2> SUFFICES ASSUME NEW l \in Lists, list'[l] = "deleted", NEW v \in Hands PROVE Waits(v, l)' \/ Deletes(v, l)'
    BY DEF MarkedAreDeleted
  <2>1. list[l] = "deleted"
    BY DEF HandMoves
  <2>2. Waits(v, l) \/ Deletes(v, l)
    BY <1>1, <2>1 DEF Settling, MarkedAreDeleted, Gentle
  <2>3. Deletes(v, l) => Deletes(v, l)'
    BY DEF HandMoves, Deletes
  <2> QED BY <1>3, <2>2, <2>3
<1>8. DeletesMarked'
  BY <1>3, <1>4 DEF Settling, DeletesMarked, HandMoves
<1>9. RowsGo'
  <2> SUFFICES ASSUME NEW v \in Hands, NEW l \in Lists, Deletes(v, l)'
               PROVE  /\ hand'[v].pc \in {"read", "put"} => RowsOf(l)' \subseteq hand'[v].del /\ \A pair \in hand'[v].del : pair[2] = l
                      /\ hand'[v].pc \in {"count", "drop"} => RowsOf(l)' = {}
    BY DEF RowsGo
  <2>1. CASE v = w
    BY <2>1 DEF HandMoves
  <2>2. CASE v # w
    <3>1. Deletes(v, l) /\ hand'[v] = hand[v] /\ RowsOf(l)' \subseteq RowsOf(l)
      BY <1>4, <2>2 DEF HandMoves, RowsOf
    <3> QED BY <3>1 DEF Settling, RowsGo
  <2> QED BY <2>1, <2>2
<1>10. SomeHandles'
  BY <1>5 DEF Settling, SomeHandles
<1>11. ASSUME NEW e \in RangeEnvs PROVE Target(e)' = Target(e)
  <2>1. \A l \in Lists : <<e, l>> \in Kept => l \in Present /\ l \in Present'
    BY TypedMeansTypes DEF RangesTyped, RangesTypeOK, Kept, HandMoves
  <2> QED BY <2>1, SameTarget DEF HandMoves
<1>12. \A e \in RangeEnvs : Tells(e)' <=> Tells(e)
  BY DEF Tells, HandMoves
<1> QED BY <1>1, <1>2, <1>5, <1>6, <1>7, <1>8, <1>9, <1>10, <1>11, <1>12

LEMMA HandMovesSettle ==
  ASSUME RangesTyped, RangesTyped', Settling, NEW w \in Hands, hand[w].pc # "idle", HandMoves(w),
         \A e \in RangeEnvs : Reads(w, e) \/ (Holds(w, e) /\ hand[w].got[2] = Target(e)) =>
           \/ Reads(w, e)' \/ (Holds(w, e)' /\ hand'[w].got[2] = Target(e)) \/ secret'[e] = Target(e),
         \A e \in RangeEnvs : secret[e] = Target(e) => secret'[e] = Target(e) \/ Reads(w, e)' \/ Tells(e),
         \A e \in RangeEnvs : Holds(w, e)' => hand'[w].got[2] = Target(e) \/ Reads(w, e)' \/ Tells(e)
  PROVE  Settling'
<1>1. /\ \A v \in Users : user[v].pc \in Gentle
      /\ \A e \in RangeEnvs : Target(e)' = Target(e) /\ (Tells(e)' <=> Tells(e))
      /\ \A v \in Hands : ~ Lost(v) => ~ Lost(v)'
  BY HandMovesKeep
<1>2. \A v \in Hands \ {w} : \A e \in RangeEnvs : /\ Reads(v, e) => Reads(v, e)'
                                                  /\ Holds(v, e)' <=> Holds(v, e)
                                                  /\ hand'[v] = hand[v]
  BY <1>1 DEF HandMoves, Reads, Holds
<1>3. ASSUME NEW e \in RangeEnvs PROVE WillBeRight(e)'
  <2>1. ~ \E v \in Users : user[v].pc = "commit" /\ user[v].env = e
    BY <1>1 DEF Gentle
  <2>2. CASE secret[e] = Target(e)
    BY <1>1, <2>2 DEF WillBeRight
  <2>3. CASE Tells(e)
    BY <1>1, <2>3 DEF WillBeRight
  <2>4. ASSUME NEW v \in Hands, Reads(v, e) \/ (Holds(v, e) /\ hand[v].got[2] = Target(e)) PROVE WillBeRight(e)'
    BY <1>1, <1>2, <2>4 DEF WillBeRight
  <2> QED BY <2>1, <2>2, <2>3, <2>4 DEF Settling, WillBeRight
<1>4. ASSUME NEW e \in RangeEnvs PROVE StaysRight(e)'
  BY <1>1, <1>2 DEF Settling, StaysRight
<1> QED BY <1>3, <1>4, HandMovesKeep DEF Settling

\* A worker in a job reads what the environments keep: every marked list is the one
\* that it deletes, and it has removed that list's rows.
LEMMA JobSeesKept ==
  ASSUME RangesTyped, Settling, NEW w \in Hands, hand[w].pc = "read"
  PROVE  Seen(w) = Kept
<1>1. /\ hand[w] \in HandStates /\ hand[w].ins = {} /\ hand[w].msg \in Messages /\ HandFits(w)
      /\ \A pair \in held : pair[2] \in Lists /\ list[pair[2]] # "gone"
  BY TypedMeansTypes, HandShape DEF TablesTyped, Present
<1>2. \A l \in Lists : list[l] = "deleted" => hand[w].msg = Deletion(l)
  BY WhoActs, NobodyElse, WaitersIdle DEF Settling, MarkedAreDeleted, Deletes, Gentle
<1>3. Seen(w) = held \ hand[w].del
  BY <1>1, WhoActs DEF Seen, Removed, Inserted
<1>4. CASE hand[w].msg.kind = "update"
  <2>1. \A l \in Lists : Deletion(l).kind = "delete"
    BY DEF Deletion
  <2>2. \A l \in Lists : list[l] # "deleted"
    BY <1>2, <1>4, <2>1
  <2>3. hand[w].del = {}
    BY <1>1, <1>4 DEF HandFits
  <2> QED BY <1>1, <1>3, <2>2, <2>3 DEF Kept
<1>5. CASE hand[w].msg.kind = "delete"
  <2>1. PICK l \in Lists : hand[w].msg = Deletion(l)
    BY <1>1, <1>5 DEF Messages, Deletion
  <2>2. Deletes(w, l) /\ list[l] # "live" /\ RowsOf(l) \subseteq hand[w].del /\ \A pair \in hand[w].del : pair[2] = l
    BY <2>1 DEF Deletes, Settling, DeletesMarked, RowsGo
  <2>3. list[l] \in {"deleted", "gone"} /\ \A k \in Lists \ {l} : list[k] # "deleted"
    <3>1. \A k \in Lists : Deletion(k) = Deletion(l) => k = l
      BY DEF Deletion
    <3> QED BY <1>2, <2>1, <2>2, <3>1, TypedMeansTypes DEF TablesTyped
  <2>4. \A pair \in held : pair \in hand[w].del <=> pair[2] = l
    BY <2>2 DEF RowsOf
  <2> QED BY <1>1, <1>3, <2>3, <2>4 DEF Kept
<1> QED BY <1>1, <1>4, <1>5 DEF Messages

LEMMA JobOrDeletion ==
  ASSUME NEW w \in Hands, NEW l \in Lists, hand[w].pc \in {"remove", "read", "put"}
  PROVE  Deletes(w, l) <=> hand[w].msg = Deletion(l)
BY DEF Deletes

LEMMA JobOrDeletionNext ==
  ASSUME NEW w \in Hands, NEW l \in Lists, hand'[w].pc \in {"remove", "read", "put"}
  PROVE  Deletes(w, l)' <=> hand'[w].msg = Deletion(l)
BY DEF Deletes, Deletion

LEMMA RemoveSettles ==
  ASSUME RangesTyped, RangesTyped', Settling, NEW w \in Hands, RemoveRows(w)
  PROVE  Settling'
<1>1. PICK rows : rows = {pair \in held : pair[2] = hand[w].msg.list}
  OBVIOUS
<1>2. PICK n : n = [hand[w] EXCEPT !.pc = "read", !.del = rows]
  OBVIOUS
<1>3. Turn(w, "remove", n)
  BY <1>1, <1>2 DEF RemoveRows
<1>4. hand[w].pc = "remove" /\ hand'[w] = n /\ user' = user /\ \A v \in Hands \ {w} : hand'[v] = hand[v]
  BY <1>3, HandTurns
<1>5. UNCHANGED tables /\ list' = list /\ text' = text /\ held' = held /\ secret' = secret /\ inbox' = inbox
  BY DEF RemoveRows, tables
<1>6. hand[w] \in HandStates
  BY TypedMeansTypes
<1>7. n.pc = "read" /\ n.msg = hand[w].msg /\ n.todo = hand[w].todo /\ n.del = rows
  BY <1>2, <1>4, <1>6, HandShape DEF Jobs
<1>8. \A l \in Lists : Deletes(w, l)' <=> Deletes(w, l)
  BY <1>4, <1>7, JobOrDeletion, JobOrDeletionNext
<1>9. ASSUME NEW l \in Lists, Deletes(w, l)'
      PROVE  RowsOf(l)' \subseteq hand'[w].del /\ \A pair \in hand'[w].del : pair[2] = l
  <2>1. hand[w].msg.list = l
    <3>1. n.msg = Deletion(l)
      BY <1>4, <1>7, <1>9, JobOrDeletionNext
    <3>2. Deletion(l).list = l
      BY DEF Deletion
    <3> QED BY <1>7, <3>1, <3>2
  <2> QED BY <1>1, <1>4, <1>5, <1>7, <2>1 DEF RowsOf
<1>10. HandMoves(w)
  BY <1>4, <1>5, <1>7, <1>8, <1>9, RowsKept DEF HandMoves
<1>11. \A e \in RangeEnvs : ~ Holds(w, e) /\ ~ Holds(w, e)'
  BY <1>4, <1>7 DEF Holds
<1>12. \A e \in RangeEnvs : Reads(w, e) => Reads(w, e)'
  BY <1>4, <1>5, <1>7, <1>10, HandMovesKeep DEF Reads
<1> QED BY <1>4, <1>5, <1>10, <1>11, <1>12, HandMovesSettle

LEMMA ReadSettles ==
  ASSUME RangesTyped, RangesTyped', Settling, NEW w \in Hands, NEW e \in RangeEnvs, ReadRanges(w, e)
  PROVE  Settling'
<1>1. PICK t : t = Ranges(Seen(w), e)
  OBVIOUS
<1>2. PICK n : n = [hand[w] EXCEPT !.pc = "put", !.todo = @ \ {e}, !.got = <<e, t>>]
  OBVIOUS
<1>3. Turn(w, "read", n)
  BY <1>1, <1>2 DEF ReadRanges
<1>4. hand[w].pc = "read" /\ hand'[w] = n /\ user' = user /\ \A v \in Hands \ {w} : hand'[v] = hand[v]
  BY <1>3, HandTurns
<1>5. list' = list /\ text' = text /\ held' = held /\ secret' = secret /\ inbox' = inbox
  BY DEF ReadRanges, tables
<1>6. hand[w] \in HandStates
  BY TypedMeansTypes
<1>7. n.pc = "put" /\ n.msg = hand[w].msg /\ n.todo = hand[w].todo \ {e} /\ n.del = hand[w].del /\ n.got = <<e, t>>
  BY <1>2, <1>4, <1>6, HandShape DEF Jobs
<1>8. \A l \in Lists : Deletes(w, l)' <=> Deletes(w, l)
  BY <1>4, <1>7, JobOrDeletion, JobOrDeletionNext
<1>9. ASSUME NEW l \in Lists, Deletes(w, l)'
      PROVE  RowsOf(l)' \subseteq hand'[w].del /\ \A pair \in hand'[w].del : pair[2] = l
  BY <1>4, <1>5, <1>7, <1>8, <1>9 DEF Settling, RowsGo, RowsOf
<1>10. HandMoves(w)
  BY <1>4, <1>5, <1>7, <1>8, <1>9, RowsKept DEF HandMoves
<1>11. t = Target(e)
  BY <1>1, <1>4, JobSeesKept DEF Target
<1>12. \A d \in RangeEnvs : ~ Holds(w, d) /\ (Holds(w, d)' => d = e)
  BY <1>4, <1>7 DEF Holds
<1>13. Holds(w, e)' /\ hand'[w].got[2] = Target(e)
  BY <1>4, <1>7, <1>11 DEF Holds
<1>14. \A d \in RangeEnvs \ {e} : Reads(w, d) => Reads(w, d)'
  BY <1>4, <1>5, <1>7, <1>10, HandMovesKeep DEF Reads
<1> QED BY <1>4, <1>5, <1>10, <1>12, <1>13, <1>14, HandMovesSettle

LEMMA PutSettles ==
  ASSUME RangesTyped, RangesTyped', Settling, NEW w \in Hands, PutRanges(w)
  PROVE  Settling'
<1>1. PICK n : n = [hand[w] EXCEPT !.pc = "read", !.got = {}]
  OBVIOUS
<1>2. Turn(w, "put", n)
  BY <1>1 DEF PutRanges
<1>3. hand[w].pc = "put" /\ hand'[w] = n /\ user' = user /\ \A v \in Hands \ {w} : hand'[v] = hand[v]
  BY <1>2, HandTurns
<1>4. list' = list /\ text' = text /\ held' = held /\ inbox' = inbox
  BY DEF PutRanges, tables
<1>5. hand[w] \in HandStates
  BY TypedMeansTypes
<1>6. n.pc = "read" /\ n.msg = hand[w].msg /\ n.todo = hand[w].todo /\ n.del = hand[w].del
  BY <1>1, <1>3, <1>5, HandShape DEF Jobs
<1>7. PICK e \in RangeEnvs, t \in Texts : hand[w].got = <<e, t>>
  BY <1>3, <1>5, HandShape
<1>8. secret'[e] = t /\ \A d \in RangeEnvs \ {e} : secret'[d] = secret[d]
  BY <1>7, TypedMeansTypes DEF PutRanges, TablesTyped
<1>9. \A l \in Lists : Deletes(w, l)' <=> Deletes(w, l)
  BY <1>3, <1>6, JobOrDeletion, JobOrDeletionNext
<1>10. ASSUME NEW l \in Lists, Deletes(w, l)'
       PROVE  RowsOf(l)' \subseteq hand'[w].del /\ \A pair \in hand'[w].del : pair[2] = l
  BY <1>3, <1>4, <1>6, <1>9, <1>10 DEF Settling, RowsGo, RowsOf
<1>11. HandMoves(w)
  BY <1>3, <1>4, <1>6, <1>9, <1>10, RowsKept DEF HandMoves
<1>12. \A d \in RangeEnvs : ~ Holds(w, d)' /\ (Holds(w, d) => d = e)
  BY <1>3, <1>6, <1>7 DEF Holds
<1>13. \A d \in RangeEnvs : Reads(w, d) => Reads(w, d)'
  BY <1>3, <1>4, <1>6, <1>11, HandMovesKeep DEF Reads
<1>14. t = Target(e) \/ Reads(w, e) \/ Tells(e)
  BY <1>3, <1>7 DEF Settling, StaysRight, Holds
<1> QED BY <1>3, <1>7, <1>8, <1>11, <1>12, <1>13, <1>14, HandMovesSettle

LEMMA EndSettles ==
  ASSUME RangesTyped, RangesTyped', Settling, NEW w \in Hands, EndJob(w)
  PROVE  Settling'
<1>1. PICK n : n = IF hand[w].msg.kind = "delete" THEN [pc |-> "count", list |-> hand[w].msg.list] ELSE Idle
  OBVIOUS
<1>2. Turn(w, "read", n) /\ hand[w].todo = {} /\ held' = held \ hand[w].del
  BY <1>1 DEF EndJob
<1>3. hand[w].pc = "read" /\ hand'[w] = n /\ user' = user /\ \A v \in Hands \ {w} : hand'[v] = hand[v]
  BY <1>2, HandTurns
<1>4. list' = list /\ text' = text /\ secret' = secret /\ inbox' = inbox
  BY DEF EndJob
<1>5. hand[w].msg \in Messages /\ HandFits(w)
  BY <1>3, TypedMeansTypes, HandShape
<1>6. n.pc \in {"count", "idle"} /\ (n.pc = "count" <=> hand[w].msg.kind = "delete") /\ (n.pc = "count" => n.list = hand[w].msg.list)
  BY <1>1 DEF Idle
<1>7. \A l \in Lists : Deletes(w, l)' <=> Deletes(w, l)
  <2>1. \A l \in Lists : Deletes(w, l) <=> hand[w].msg = Deletion(l)
    BY <1>3, JobOrDeletion
  <2>2. \A l \in Lists : Deletes(w, l)' <=> (n.pc = "count" /\ n.list = l)
    BY <1>3, <1>6 DEF Deletes
  <2>3. \A l \in Lists : hand[w].msg = Deletion(l) <=> (hand[w].msg.kind = "delete" /\ hand[w].msg.list = l)
    BY <1>5 DEF Messages, Deletion
  <2> QED BY <1>6, <2>1, <2>2, <2>3
<1>8. ASSUME NEW l \in Lists, Deletes(w, l) PROVE RowsOf(l)' = {} /\ list[l] # "live" /\ \A pair \in hand[w].del : pair[2] = l
  BY <1>2, <1>3, <1>8 DEF Settling, RowsGo, DeletesMarked, RowsOf
<1>9. Kept' = Kept
  <2>1. \A pair \in held : list[pair[2]] # "gone" /\ pair[2] \in Lists /\ list[pair[2]] \in {"live", "deleted", "gone"}
    BY TypedMeansTypes DEF TablesTyped, Present
  <2>2. \A pair \in hand[w].del \cap held : list[pair[2]] = "deleted"
    <3>1. CASE hand[w].msg.kind = "update"
      BY <1>3, <1>5, <3>1 DEF HandFits
    <3>2. CASE hand[w].msg.kind = "delete"
      <4>1. PICK l \in Lists : hand[w].msg = Deletion(l)
        BY <1>5, <3>2 DEF Messages, Deletion
      <4> QED BY <1>3, <1>8, <2>1, <4>1, JobOrDeletion
    <3> QED BY <1>5, <3>1, <3>2 DEF Messages
  <2> QED BY <1>2, <1>4, <2>2 DEF Kept
<1>10. HandMoves(w)
  BY <1>2, <1>3, <1>4, <1>6, <1>7, <1>8, <1>9 DEF HandMoves
<1>11. \A e \in RangeEnvs : ~ Holds(w, e)' /\ ~ Holds(w, e)
  BY <1>3, <1>6 DEF Holds
<1>12. \A e \in RangeEnvs : Reads(w, e) => Reads(w, e)'
  BY <1>2, <1>3, <1>4, <1>10, HandMovesKeep DEF Reads
<1> QED BY <1>3, <1>4, <1>10, <1>11, <1>12, HandMovesSettle

LEMMA CountSettles ==
  ASSUME RangesTyped, RangesTyped', Settling, NEW w \in Hands, CountApps(w)
  PROVE  Settling'
<1>1. PICK n : n = IF \E e \in RangeEnvs : <<e, hand[w].list>> \in held THEN Idle ELSE [hand[w] EXCEPT !.pc = "drop"]
  OBVIOUS
<1>2. Turn(w, "count", n)
  BY <1>1 DEF CountApps
<1>3. hand[w].pc = "count" /\ hand'[w] = n /\ user' = user /\ \A v \in Hands \ {w} : hand'[v] = hand[v]
  BY <1>2, HandTurns
<1>4. list' = list /\ text' = text /\ held' = held /\ secret' = secret /\ inbox' = inbox
  BY DEF CountApps, tables
<1>5. hand[w] \in Endings
  BY <1>3, TypedMeansTypes, HandShape
<1>6. PICK l \in Lists : l = hand[w].list
  BY <1>5 DEF Endings
<1>7. Deletes(w, l) /\ RowsOf(l) = {}
  BY <1>3, <1>6 DEF Deletes, Settling, RowsGo
<1>8. n = [hand[w] EXCEPT !.pc = "drop"]
  <2>1. \A e \in RangeEnvs : <<e, l>> \notin held
    BY <1>7 DEF RowsOf
  <2> QED BY <1>1, <1>6, <2>1
<1>9. n.pc = "drop" /\ n.list = l
  BY <1>5, <1>6, <1>8 DEF Endings
<1>10. \A k \in Lists : (Deletes(w, k)' <=> k = l) /\ (Deletes(w, k) <=> k = l)
  BY <1>3, <1>6, <1>9 DEF Deletes
<1>11. HandMoves(w)
  BY <1>3, <1>4, <1>7, <1>9, <1>10, RowsKept DEF HandMoves
<1>12. \A e \in RangeEnvs : ~ Holds(w, e)' /\ ~ Holds(w, e)
  BY <1>3, <1>9 DEF Holds
<1>13. \A e \in RangeEnvs : Reads(w, e) => Reads(w, e)'
  BY <1>3, <1>4, <1>11, HandMovesKeep DEF Reads
<1> QED BY <1>3, <1>4, <1>11, <1>12, <1>13, HandMovesSettle

LEMMA DropListSettles ==
  ASSUME RangesTyped, RangesTyped', Settling, NEW w \in Hands, DropList(w)
  PROVE  Settling'
<1>1. hand[w].pc = "drop" /\ hand'[w] = Idle /\ user' = user /\ \A v \in Hands \ {w} : hand'[v] = hand[v]
  BY HandTurns DEF DropList
<1>2. PICK l \in Lists : l = hand[w].list
  BY <1>1, TypedMeansTypes, HandShape
<1>3. Deletes(w, l) /\ RowsOf(l) = {} /\ list[l] # "live"
  BY <1>1, <1>2 DEF Deletes, Settling, RowsGo, DeletesMarked
<1>4. list' = [list EXCEPT ![l] = "gone"] /\ held' = held /\ text' = text /\ secret' = secret /\ inbox' = inbox
  BY <1>2, <1>3 DEF DropList, Gone, RowsOf
<1>5. \A k \in Lists : ~ Deletes(w, k)' /\ (Deletes(w, k) <=> k = l)
  BY <1>1, <1>2 DEF Deletes, Idle
<1>6. list'[l] = "gone" /\ \A k \in Lists \ {l} : list'[k] = list[k]
  BY <1>4, TypedMeansTypes DEF TablesTyped
<1>7. Kept' = Kept
  <2>1. \A pair \in held : pair[2] \in Lists \ {l}
    BY <1>3, TypedMeansTypes DEF TablesTyped, Present, RowsOf
  <2> QED BY <1>4, <1>6, <2>1 DEF Kept
<1>8. HandMoves(w)
  BY <1>1, <1>3, <1>4, <1>5, <1>6, <1>7 DEF HandMoves
<1>9. \A e \in RangeEnvs : ~ Holds(w, e)' /\ ~ Holds(w, e)
  BY <1>1 DEF Holds, Idle
<1>10. \A e \in RangeEnvs : Reads(w, e) => Reads(w, e)'
  BY <1>1, <1>4, <1>8, HandMovesKeep DEF Reads
<1> QED BY <1>1, <1>4, <1>8, <1>9, <1>10, HandMovesSettle

\* The first worker to take a deletion makes the others lose theirs, and looks
\* after every environment itself.
LEMMA TakeSettles ==
  ASSUME RangesTyped, RangesTyped', Smooth', Settling, NEW w \in Hands, TakeJob(w)
  PROVE  Settling'
<1>1. PICK s \in Seq(Messages) : s = inbox[w]
  BY TypedMeansTypes
<1>2. s # <<>> /\ Head(s) \in Messages /\ s[1] = Head(s) /\ Tail(s) \in Seq(Messages)
      /\ Len(s) \in Nat /\ Len(Tail(s)) = Len(s) - 1 /\ \A i \in 1 .. Len(Tail(s)) : Tail(s)[i] = s[i + 1]
  BY <1>1, HeadTailProperties, LenProperties DEF TakeJob
<1>3. PICK m \in Messages : m = Head(s)
  BY <1>2
<1>4. PICK gone \in BOOLEAN : gone = (m.kind = "delete" /\ list[m.list] = "gone")
  OBVIOUS
<1>5. PICK n : n = IF gone THEN Idle
                   ELSE [pc |-> IF m.kind = "delete" THEN "remove" ELSE "read",
                         msg |-> m, todo |-> RangeEnvs, got |-> {}, del |-> {}, ins |-> {}]
  OBVIOUS
<1>6. Turn(w, "idle", n) /\ inbox' = [inbox EXCEPT ![w] = IF gone THEN <<>> ELSE Tail(@)] /\ \A u \in Users : ~ Exclusive(u)
  <2>1. gone = (Head(inbox[w]).kind = "delete" /\ list[Head(inbox[w]).list] = "gone") /\ m = Head(inbox[w])
    BY <1>1, <1>3, <1>4
  <2>2. \A u \in Users : u # w
    BY WhoActs
  <2> QED BY <1>5, <2>1, <2>2 DEF TakeJob, Overlap, Smooth
<1>7. hand[w].pc = "idle" /\ hand'[w] = n /\ user' = user /\ \A v \in Hands \ {w} : hand'[v] = hand[v]
  BY <1>6, HandTurns
<1>8. list' = list /\ text' = text /\ held' = held /\ secret' = secret
  BY DEF TakeJob, tables
<1>9. \A u \in Users : user[u].pc \in Gentle
  BY <1>6 DEF Exclusive, Gentle
<1>10. Apart' /\ \A u \in Users : PageSound(u)' /\ OrderSound(u)'
  BY <1>7, <1>9, NoPages
<1>11. Kept' = Kept /\ \A e \in RangeEnvs : Target(e)' = Target(e) /\ (Tells(e)' <=> Tells(e))
  BY <1>7, <1>8, RowsKept DEF Tells
<1>12. \A v \in Hands \ {w} : inbox'[v] = inbox[v]
  BY <1>6, TypedMeansTypes
<1>13. inbox'[w] = IF gone THEN <<>> ELSE Tail(s)
  BY <1>1, <1>6, TypedMeansTypes
<1>14. \A i \in 1 .. Len(inbox'[w]) : inbox'[w][i].kind # "delete"
  <2>1. CASE gone
    BY <1>13, <2>1
  <2>2. CASE ~ gone
    <3> SUFFICES ASSUME NEW i \in 1 .. Len(Tail(s)) PROVE Tail(s)[i].kind # "delete"
      BY <1>13, <2>2
    <3>1. i + 1 \in 1 .. Len(s) /\ i + 1 # 1 /\ Tail(s)[i] = s[i + 1]
      BY <1>2
    <3> QED BY <1>1, <3>1 DEF Settling, DeletionsFirst
  <2> QED BY <2>1, <2>2
<1>15. DeletionsFirst'
  BY <1>7, <1>12, <1>14 DEF Settling, DeletionsFirst
<1>16. \A l \in Lists : ~ Waits(w, l)'
  <2> SUFFICES ASSUME NEW l \in Lists, Waits(w, l)' PROVE FALSE
    OBVIOUS
  <2>1. inbox'[w] # <<>> /\ Head(inbox'[w]) = Deletion(l) /\ inbox'[w] \in Seq(Messages)
    BY TypedMeansTypes, <1>2, <1>13 DEF Waits, Deletion
  <2>2. inbox'[w][1] = Deletion(l) /\ 1 \in 1 .. Len(inbox'[w])
    BY <2>1, HeadTailProperties
  <2>3. inbox'[w][1].kind = "delete"
    BY <2>2 DEF Deletion
  <2> QED BY <1>14, <2>2, <2>3
<1>17. \A v \in Hands \ {w} : \A l \in Lists : (Waits(v, l)' <=> Waits(v, l)) /\ (Deletes(v, l)' <=> Deletes(v, l))
  BY <1>7, <1>12 DEF Waits, Deletes
<1>18. \A l \in Lists : (Waits(w, l) <=> m = Deletion(l)) /\ ~ Deletes(w, l)
  BY <1>1, <1>2, <1>3, <1>7 DEF Waits, Deletes
<1>19. \A l \in Lists : Deletes(w, l)' <=> (~ gone /\ m = Deletion(l))
  <2>1. CASE gone
    BY <1>5, <1>7, <2>1 DEF Deletes, Idle
  <2>2. CASE ~ gone
    <3>1. hand'[w].pc \in {"remove", "read", "put"} /\ hand'[w].msg = m
      BY <1>5, <1>7, <2>2
    <3> QED BY <2>2, <3>1, JobOrDeletionNext
  <2> QED BY <2>1, <2>2
<1>20. \A l \in Lists : gone /\ m = Deletion(l) => list[l] = "gone"
  <2>1. \A l \in Lists : Deletion(l).list = l
    BY DEF Deletion
  <2> QED BY <1>4, <2>1
<1>21. MarkedAreDeleted'
  <2> SUFFICES ASSUME NEW l \in Lists, list[l] = "deleted", NEW v \in Hands PROVE Waits(v, l)' \/ Deletes(v, l)'
    BY <1>8 DEF MarkedAreDeleted
  <2>1. \A x \in Hands : Waits(x, l) \/ Deletes(x, l)
    BY <1>9 DEF Settling, MarkedAreDeleted, Gentle
  <2>2. CASE v = w
    BY <1>18, <1>19, <1>20, <2>1, <2>2
  <2>3. CASE v # w
    BY <1>17, <2>1, <2>3
  <2> QED BY <2>2, <2>3
<1>22. DeletesMarked'
  BY <1>8, <1>16, <1>17, <1>18, <1>19 DEF Settling, DeletesMarked
<1>23. RowsGo'
  <2> SUFFICES ASSUME NEW v \in Hands, NEW l \in Lists, Deletes(v, l)'
               PROVE  /\ hand'[v].pc \in {"read", "put"} => RowsOf(l)' \subseteq hand'[v].del /\ \A pair \in hand'[v].del : pair[2] = l
                      /\ hand'[v].pc \in {"count", "drop"} => RowsOf(l)' = {}
    BY DEF RowsGo
  <2>1. CASE v = w
    <3>1. ~ gone /\ m = Deletion(l)
      BY <1>19, <2>1
    <3>2. m.kind = "delete"
      BY <3>1 DEF Deletion
    <3>3. hand'[w].pc = "remove"
      BY <1>5, <1>7, <3>1, <3>2
    <3> QED BY <2>1, <3>3
  <2>2. CASE v # w
    BY <1>7, <1>8, <1>17, <2>2, RowsKept DEF Settling, RowsGo
  <2> QED BY <2>1, <2>2
<1>24. SomeHandles'
  BY <1>16 DEF SomeHandles, Lost
<1>25. \A v \in Hands : (\A l \in Lists : ~ Waits(v, l)') => ~ Lost(v)'
  BY DEF Lost
<1>26. ASSUME NEW e \in RangeEnvs, NEW v \in Hands, Holds(v, e)' PROVE Reads(v, e) => Reads(v, e)'
  <2>1. v # w /\ hand'[v].pc = "put"
    BY <1>5, <1>7, <1>26 DEF Holds, Idle
  <2>2. ~ Lost(v)'
    <3>1. \A l \in Lists : ~ Waits(v, l)
      BY <1>7, <2>1, WaitersIdle DEF Settling
    <3> QED BY <1>17, <1>25, <2>1, <3>1
  <2> QED BY <1>7, <1>12, <2>1, <2>2 DEF Reads
<1>27. \A e \in RangeEnvs : StaysRight(e)'
  <2>1. ASSUME NEW e \in RangeEnvs, NEW v \in Hands, Holds(v, e)' PROVE v # w /\ hand'[v] = hand[v] /\ Holds(v, e)
    BY <1>5, <1>7, <2>1 DEF Holds, Idle
  <2> QED BY <1>11, <1>26, <2>1 DEF Settling, StaysRight
<1>28. ASSUME NEW e \in RangeEnvs PROVE WillBeRight(e)'
  <2>1. CASE ~ gone
    <3>1. hand'[w].pc \in {"remove", "read", "put"} /\ hand'[w].todo = RangeEnvs
      BY <1>5, <1>7, <2>1
    <3> QED BY <3>1 DEF WillBeRight, Reads
  <2>2. CASE gone
    <3>1. \A v \in Hands \ {w} : ~ Lost(v) => ~ Lost(v)'
      BY <1>8, <1>17, <1>19, <2>2 DEF Lost
    <3>2. \A v \in Hands \ {w} : (Reads(v, e) => Reads(v, e)') /\ (Holds(v, e) => Holds(v, e)')
      BY <1>7, <1>12, <3>1 DEF Reads, Holds
    <3>3. ~ Reads(w, e) /\ ~ Holds(w, e)
      <4>1. PICK l \in Lists : m = Deletion(l)
        BY <1>4, <2>2 DEF Messages, Deletion
      <4>2. Lost(w)
        BY <1>18, <1>20, <2>2, <4>1 DEF Lost
      <4> QED BY <1>7, <4>2 DEF Reads, Holds
    <3>4. WillBeRight(e) /\ ~ \E u \in Users : user[u].pc = "commit" /\ user[u].env = e
      BY <1>9 DEF Settling, Gentle
    <3> QED BY <1>7, <1>8, <1>11, <3>2, <3>3, <3>4 DEF WillBeRight
  <2> QED BY <2>1, <2>2
<1> QED BY <1>10, <1>15, <1>21, <1>22, <1>23, <1>24, <1>27, <1>28 DEF Settling

LEMMA HandStepsSettle ==
  ASSUME RangesTyped, RangesTyped', Smooth', Settling, NEW w \in Hands, HandNext(w)
  PROVE  Settling'
BY TakeSettles, RemoveSettles, ReadSettles, PutSettles, EndSettles, CountSettles, DropListSettles DEF HandNext

LEMMA RangesStay ==
  ASSUME RangesTyped, Settling, UNCHANGED rangeVars
  PROVE  Settling'
<1>1. list' = list /\ text' = text /\ held' = held /\ secret' = secret /\ user' = user /\ hand' = hand /\ inbox' = inbox
  BY DEF rangeVars
<1>2. DeletionsFirst' /\ DeletesMarked' /\ SomeHandles'
  BY <1>1, MailKept DEF Settling
<1>3. MarkedAreDeleted' /\ RowsGo'
  BY <1>1, MailKept, RowsKept DEF Settling, MarkedAreDeleted, RowsGo
<1>4. Apart'
  BY <1>1 DEF Settling, Apart, Exclusive, Actor, Actors
<1>5. \A u \in Users : PageSound(u)' /\ OrderSound(u)'
  <2>1. \A u \in Users, e \in RangeEnvs : Ranges(Seen(u), e)' = Ranges(Seen(u), e)
    BY <1>1 DEF Ranges, Seen, Removed, Inserted, Actor, Present
  <2>2. \A u \in Users : user[u].pc = "commit" => user[u].env \in RangeEnvs
    BY TypedMeansTypes, UserShape
  <2> QED BY <1>1, <2>1, <2>2 DEF Settling, PageSound, OrderSound, Present, RowsOf
<1>6. ASSUME NEW e \in RangeEnvs PROVE WillBeRight(e)' /\ StaysRight(e)'
  <2>1. Kept' = Kept /\ Target(e)' = Target(e) /\ (Tells(e)' <=> Tells(e))
    BY <1>1, RowsKept DEF Tells
  <2>2. \A w \in Hands : (Reads(w, e)' <=> Reads(w, e)) /\ (Holds(w, e)' <=> Holds(w, e))
    BY <1>1, MailKept
  <2> QED BY <1>1, <2>1, <2>2 DEF Settling, WillBeRight, StaysRight
<1> QED BY <1>2, <1>3, <1>4, <1>5, <1>6 DEF Settling

LEMMA RangesStart == ASSUME RangesInit PROVE RangesInv
<1>1. RangesTyped
  BY RangesStartTyped
<1>2. \A w \in Hands : hand[w].pc = "idle" /\ inbox[w] = <<>>
  BY DEF RangesInit, Idle
<1>3. \A u \in Users : user[u].pc = "idle"
  BY DEF RangesInit, Idle
<1>4. \A w \in Hands, l \in Lists : ~ Waits(w, l) /\ ~ Deletes(w, l)
  BY <1>2 DEF Waits, Deletes
<1>5. DeletionsFirst /\ DeletesMarked /\ RowsGo /\ \A e \in RangeEnvs : StaysRight(e)
  BY <1>2, <1>4 DEF DeletionsFirst, DeletesMarked, RowsGo, StaysRight, Holds
<1>6. SomeHandles
  BY <1>4, AppRangesAssumption DEF SomeHandles, Lost
<1>7. MarkedAreDeleted
  BY DEF MarkedAreDeleted, RangesInit
<1>8. Apart /\ \A u \in Users : PageSound(u) /\ OrderSound(u)
  BY <1>3 DEF Apart, Exclusive, PageSound, OrderSound
<1>9. \A e \in RangeEnvs : secret[e] = Target(e)
  BY DEF RangesInit, Target, Ranges, Kept
<1> QED BY <1>1, <1>5, <1>6, <1>7, <1>8, <1>9 DEF RangesInv, Settling, WillBeRight

LEMMA RangesStep == ASSUME RangesInv, [RangesNext]_rangeVars PROVE RangesInv'
<1>1. RangesTyped /\ RangesTyped'
  BY RangesStepTyped DEF RangesInv
<1>2. ASSUME Smooth' PROVE Settling'
  <2>1. Smooth /\ Settling
    BY <1>1, <1>2, StartedSmooth DEF RangesInv
  <2>2. ASSUME NEW u \in Users, UserNext(u) PROVE Settling'
    BY <1>1, <1>2, <2>1, <2>2, UserStepsSettle
  <2>3. ASSUME NEW w \in Hands, HandNext(w) PROVE Settling'
    BY <1>1, <1>2, <2>1, <2>3, HandStepsSettle
  <2>4. ASSUME NEW a \in Actors, Fault(a) PROVE FALSE
    BY <1>1, <1>2, <2>4, FaultsEndIt
  <2>5. ASSUME UNCHANGED rangeVars PROVE Settling'
    BY <1>1, <2>1, <2>5, RangesStay
  <2> QED BY <2>2, <2>3, <2>4, <2>5 DEF RangesNext
<1> QED BY <1>1, <1>2 DEF RangesInv

LEMMA SettledWhenQuiet == ASSUME RangesInv PROVE SecretsSettle
<1> SUFFICES ASSUME AllQuiet, Smooth
             PROVE  /\ \A e \in RangeEnvs : secret[e] = Ranges(held, e)
                    /\ \A l \in Lists : list[l] # "deleted"
  BY DEF SecretsSettle, Smooth
<1>1. RangesTyped /\ Settling
  BY DEF RangesInv
<1>2. \A w \in Hands : hand[w].pc = "idle" /\ inbox[w] = <<>>
  BY WhoActs DEF AllQuiet
<1>3. \A u \in Users : user[u].pc = "idle"
  BY WhoActs DEF AllQuiet
<1>4. ASSUME NEW l \in Lists PROVE list[l] # "deleted"
  <2>1. PICK w \in Hands : ~ Waits(w, l) /\ ~ Deletes(w, l)
    BY <1>2, AppRangesAssumption DEF Waits, Deletes
  <2> QED BY <1>1, <1>3, <2>1 DEF Settling, MarkedAreDeleted
<1>5. Kept = held
  <2>1. \A pair \in held : pair[2] \in Lists
    BY <1>1, TypedMeansTypes DEF TablesTyped, Present
  <2> QED BY <1>4, <2>1 DEF Kept
<1>6. ASSUME NEW e \in RangeEnvs PROVE secret[e] = Target(e)
  BY <1>1, <1>2, <1>3 DEF Settling, WillBeRight, Tells, Reads, Holds
<1> QED BY <1>4, <1>5, <1>6 DEF Target

\* What the pages and the workers keep: while nothing has clashed or failed, each
\* secret is right or somebody is still to write it, and who has read a secret's
\* ranges has read the right ones or a later reading will follow.
THEOREM RangesInvariant == RangesSpec => []RangesInv
<1>1. RangesInit => RangesInv
  BY RangesStart
<1>2. RangesInv /\ [RangesNext]_rangeVars => RangesInv'
  BY RangesStep
<1> QED BY <1>1, <1>2, PTL DEF RangesSpec

\* The lists, rows, secrets, requests, jobs and messages keep their types.
THEOREM RangesAreTyped == RangesSpec => []RangesTypeOK
<1>1. RangesInv => RangesTypeOK
  BY DEF RangesInv, RangesTyped
<1> QED BY <1>1, RangesInvariant, PTL

\* Once everything is quiet, with nothing clashed and nothing failed, every secret
\* holds the ranges of the lists that its environment has, and no list is left
\* marked, for any number of workers, lists and environments (consumers.py
\* app_ip_ranges_update, app_ip_ranges_delete).
THEOREM Settled == RangesSpec => []SecretsSettle
<1>1. RangesInv => SecretsSettle
  BY SettledWhenQuiet
<1> QED BY <1>1, RangesInvariant, PTL

-----------------------------------------------------------------------------
(***************************************************************************)
(* Apps: the three together.                                               *)
(***************************************************************************)

LEMMA AppsStepsPart ==
  ASSUME [Next]_<<authVars, rangeVars, registerVars, page>>
  PROVE  [AuthNext]_authVars /\ [RangesNext]_rangeVars /\ [RegistrationNext]_registerVars
BY DEF Next

\* Each kind of page behaves as its own specification says.
THEOREM AppsParts == Spec => AuthSpec /\ RangesSpec /\ RegistrationSpec
<1>1. Init => AuthInit /\ RangesInit /\ RegistrationInit
  BY DEF Init
<1> QED BY <1>1, AppsStepsPart, PTL DEF Spec, AuthSpec, RangesSpec, RegistrationSpec

\* Every variable of the parts keeps its type.
THEOREM AppsTyped == Spec => []AppsTypeOK
<1>1. AuthTypeOK /\ RangesTypeOK /\ RegistrationTypeOK => AppsTypeOK
  BY DEF AppsTypeOK
<1> QED BY <1>1, AppsParts, AuthTyped, RangesAreTyped, RegistrationTyped, PTL

\* What the runs of Apps check holds of it, whatever the sizes of its parts.
THEOREM AppsKeeps ==
  Spec => [](RegisteredIsWhole /\ AloneAgrees /\ SecretsSettle) /\ OthersSettingsKept
BY AppsParts, Registered, AloneLeavesAgreement, OthersSettings, Settled, PTL
=============================================================================
