---------------------------- MODULE PeopleProofs ----------------------------
(***************************************************************************)
(* Proofs about the people of the control panel, for any number of          *)
(* dashboards, addresses and requests at once: the access to dashboards     *)
(* (Sharing), and the account of a user (UserAccount).                      *)
(***************************************************************************)
EXTENDS People, TLAPS

-----------------------------------------------------------------------------
(***************************************************************************)
(* Sharing                                                                 *)
(***************************************************************************)

\* What a request or the task may be at.
Registering ==
  [pc : {"next", "role", "insert", "look"}, op : {"register"}, d : Boards, u : Admins,
   todo : SUBSET Emails, email : Emails \cup {""}, domains : SUBSET Domains,
   fresh : SUBSET Emails, got : SUBSET Emails]
Sharings ==
  [pc : {"next", "role", "insert", "look", "grant"}, op : {"share"}, d : Boards,
   u : Admins \cup Superusers, email : Emails \cup {""}, todo : SUBSET Emails]
Adding == [pc : {"appoint"}, op : {"add"}, d : Boards, u : Admins \cup Superusers, who : Admins]
Deposing == [pc : {"remove"}, op : {"depose"}, d : Boards, who : Admins]
Pruning ==
  [pc : {"pick", "unrole", "erase"}, op : {"prune"}, email : Emails \cup {""}, todo : SUBSET Emails]
Work == Registering \cup Sharings \cup Adding \cup Deposing \cup Pruning

\* A dashboard is registered once, and the viewers a registration has inserted
\* are nobody else's; the task erases each viewer it found once.
Fine(r) ==
  /\ r \in Registering \cup Sharings /\ r.pc # "next" => r.email \in Emails
  /\ r \in Pruning /\ r.pc # "pick" => r.email \in viewers \ r.todo
  /\ r \in Registering => r.d \notin boards \cup removed /\ r.fresh \cap viewers = {}
  /\ r \in Sharings \cup Adding \cup Deposing => r.d \in boards \cup removed
  /\ r \in Pruning => r.todo \subseteq viewers
  /\ r.pc = "grant" => <<r.d, r.email>> \in doubled \/ view[<<r.d, r.email>>] = 0
  /\ r.pc = "appoint" => <<r.d, r.who>> \in doubled \/ admin[<<r.d, r.who>>] = 0
  /\ r.pc = "remove" => \/ r.d \in doubled \/ r.d \notin boards
                        \/ \E a \in Admins \ {r.who} : admin[<<r.d, a>>] > 0
Apart(r, q) ==
  /\ r \in Registering /\ q \in Registering => r.d # q.d /\ r.fresh \cap q.fresh = {}
  /\ ~ (r \in Pruning /\ q \in Pruning)

\* Who has the role, or whose lack of it has been noted.
Looks(e) == e \in role \cup torn \/ \E j \in Jobs : At(j, "erase") /\ job[j].email = e
Given(r) ==
  /\ r \in Registering => \A e \in r.fresh : Looks(e)
  /\ r.pc = "insert" => Looks(r.email)

SharingInv ==
  /\ SharingTypeOK /\ job \in [Jobs -> {Over} \cup Work] /\ AccessStaysSound
  /\ \A e \in viewers : Looks(e)
  /\ \A j \in Jobs : Fine(job[j]) /\ Given(job[j]) /\ \A i \in Jobs \ {j} : Apart(job[j], job[i])

\* What tells the requests apart.
LEMMA Kinds ==
  ASSUME NEW r \in {Over} \cup Work
  PROVE  /\ r.pc = "new" <=> r = Over
         /\ r.pc \in {"next", "role", "insert", "look"} => r \in Registering \cup Sharings
         /\ r.pc = "grant" => r \in Sharings
         /\ r.pc = "appoint" => r \in Adding
         /\ r.pc = "remove" => r \in Deposing
         /\ r.pc \in {"pick", "unrole", "erase"} => r \in Pruning
         /\ r \in Registering <=> r.pc # "new" /\ r.op = "register"
         /\ r \in Pruning <=> r.pc # "new" /\ r.op = "prune"
         /\ r \in Sharings <=> r.pc # "new" /\ r.op = "share"
<1>1. /\ \A q \in Registering : q.op = "register" /\ q.pc \in {"next", "role", "insert", "look"}
      /\ \A q \in Sharings : q.op = "share" /\ q.pc \in {"next", "role", "insert", "look", "grant"}
      /\ \A q \in Adding : q.op = "add" /\ q.pc = "appoint"
      /\ \A q \in Deposing : q.op = "depose" /\ q.pc = "remove"
      /\ \A q \in Pruning : q.op = "prune" /\ q.pc \in {"pick", "unrole", "erase"}
  BY DEF Registering, Sharings, Adding, Deposing, Pruning
<1>2. Over.pc = "new"
  BY DEF Over
<1>3. r = Over \/ r \in Registering \/ r \in Sharings \/ r \in Adding \/ r \in Deposing \/ r \in Pruning
  BY DEF Work
<1> HIDE DEF Over, Registering, Sharings, Adding, Deposing, Pruning, Work
<1>4. r.pc = "new" <=> r = Over
  BY <1>1, <1>2, <1>3
<1> QED BY <1>1, <1>2, <1>3, <1>4

LEMMA AtJob ==
  ASSUME SharingInv, NEW j \in Jobs
  PROVE  /\ job[j] \in {Over} \cup Work /\ Fine(job[j]) /\ Given(job[j])
         /\ \A i \in Jobs \ {j} : Apart(job[j], job[i]) /\ Apart(job[i], job[j])
         /\ job[j] \in Registering \cup Sharings => job[j].d \in Boards
         /\ job[j] \in Registering \cup Sharings /\ job[j].pc # "next" => job[j].email \in Emails
<1>1. job[j] \in {Over} \cup Work /\ Fine(job[j]) /\ Given(job[j])
  BY DEF SharingInv
<1>2. \A i \in Jobs \ {j} : Apart(job[j], job[i]) /\ Apart(job[i], job[j])
  BY DEF SharingInv
<1>3. job[j] \in Registering \cup Sharings => job[j].d \in Boards
  BY DEF Registering, Sharings
<1> QED BY <1>1, <1>2, <1>3 DEF Fine

LEMMA OverIsFine ==
  /\ Fine(Over) /\ Given(Over) /\ (Fine(Over))' /\ (Given(Over))'
  /\ \A q : Apart(Over, q) /\ Apart(q, Over)
<1>1. Over \notin Work /\ Over \notin Registering \cup Sharings \cup Adding \cup Deposing \cup Pruning /\ Over.pc = "new"
  BY DEF Over, Work, Registering, Sharings, Adding, Deposing, Pruning
<1> QED BY <1>1 DEF Fine, Given, Apart

LEMMA OneMoves ==
  ASSUME SharingInv, NEW j \in Jobs, NEW r \in {Over} \cup Work,
         job' = [job EXCEPT ![j] = r], SharingTypeOK', AccessStaysSound',
         (Fine(r))', (Given(r))', \A e \in viewers' : (Looks(e))',
         \A i \in Jobs \ {j} : (Fine(job[i]))' /\ (Given(job[i]))',
         \A i \in Jobs \ {j} : Apart(r, job[i])
  PROVE  SharingInv'
<1>1. /\ job' \in [Jobs -> {Over} \cup Work] /\ job'[j] = r
      /\ \A i \in Jobs \ {j} : job'[i] = job[i]
  BY DEF SharingInv
<1>2. \A i \in Jobs \ {j} : Apart(job[i], r)
  BY DEF Apart
<1>3. \A i \in Jobs : (Fine(job[i]))' /\ (Given(job[i]))'
  <2>1. (Fine(job[j]))' /\ (Given(job[j]))'
    BY <1>1 DEF Fine, Given, Looks, At
  <2> QED BY <2>1
<1>4. \A i \in Jobs : \A k \in Jobs \ {i} : Apart(job'[i], job'[k])
  BY <1>1, <1>2 DEF SharingInv
<1> QED BY <1>1, <1>3, <1>4 DEF SharingInv

\* A look at a role is not lost to a job that is not erasing.
LEMMA LooksStays ==
  ASSUME SharingInv, NEW j \in Jobs, NEW r \in {Over} \cup Work, job' = [job EXCEPT ![j] = r],
         ~ At(j, "erase"), role \subseteq role', torn \subseteq torn'
  PROVE  \A e : Looks(e) => (Looks(e))'
<1>1. \A i \in Jobs : At(i, "erase") => job'[i] = job[i]
  BY DEF SharingInv, At
<1> QED BY <1>1 DEF Looks, At

\* The types of what the requests leave alone.
LEMMA MovesOn ==
  ASSUME SharingInv, NEW j \in Jobs, NEW r \in {Over} \cup Work, job' = [job EXCEPT ![j] = r],
         UNCHANGED <<boards, removed, gone, access, viewers, role, ghosts>>,
         begun' \in 0 .. MaxBegun, mishaps' \in 0 .. MaxMishaps,
         ~ At(j, "erase"), Fine(r), Given(r), \A i \in Jobs \ {j} : Apart(r, job[i])
  PROVE  SharingInv'
<1>1. \A e : Looks(e) => (Looks(e))'
  BY LooksStays DEF ghosts
<1>2. SharingTypeOK' /\ AccessStaysSound'
  BY DEF SharingInv, SharingTypeOK, AccessStaysSound, access, ghosts, Count
<1>3. \A i \in Jobs \ {j} : job'[i] = job[i]
  BY DEF SharingInv
<1>4. \A q : Fine(q) => (Fine(q))'
  BY DEF Fine, access, ghosts
<1>5. \A q : Given(q) => (Given(q))'
  BY <1>1 DEF Given
<1>6. \A i \in Jobs \ {j} : (Fine(job[i]))' /\ (Given(job[i]))'
  BY <1>1, <1>3, <1>4 DEF SharingInv, Fine, access, ghosts, Given
<1>7. \A e \in viewers' : (Looks(e))'
  BY <1>1 DEF SharingInv
<1> QED BY <1>2, <1>4, <1>5, <1>6, <1>7, OneMoves

-----------------------------------------------------------------------------
(* Requests begin *)

LEMMA AccessRequestsKeep ==
  ASSUME SharingInv, NEW j \in Jobs, begun' \in 0 .. MaxBegun,
         NEW d \in Boards, NEW u \in Admins \cup Superusers, NEW emails \in SUBSET Emails,
         \/ Share(j, d, u, emails)
         \/ u \in Admins /\ \E domains \in SUBSET Domains : Register(j, d, u, emails, domains)
  PROVE  SharingInv'
<1>1. /\ At(j, "new") /\ ~ At(j, "erase") /\ mishaps' \in 0 .. MaxMishaps
      /\ UNCHANGED <<boards, removed, gone, access, viewers, role, ghosts>>
  BY DEF SharingInv, SharingTypeOK, Share, Register, Go, At
<1>2. \A i \in Jobs : job[i] \in Registering => ~ Resting(i) /\ job[i].op = "register"
  BY AtJob, Kinds DEF Resting
<1>3. CASE Share(j, d, u, emails)
  <2>1. PICK r : r = [pc |-> "next", op |-> "share", d |-> d, u |-> u, email |-> "",
                      todo |-> NewTo(d, emails)]
    OBVIOUS
  <2>2. r \in Sharings /\ d \in boards /\ job' = [job EXCEPT ![j] = r] /\ r.pc = "next" /\ r.d = d
    BY <1>3, <2>1 DEF Share, Manages, Sharings, Go, NewTo
  <2>3. r \in {Over} \cup Work /\ r \notin Registering /\ r \notin Pruning
    BY <2>2, Kinds DEF Work
  <2>4. Fine(r) /\ Given(r) /\ \A i \in Jobs \ {j} : Apart(r, job[i])
    BY <2>2, <2>3 DEF Fine, Given, Apart
  <2> QED BY <1>1, <2>2, <2>3, <2>4, MovesOn
<1>4. ASSUME NEW domains \in SUBSET Domains, u \in Admins, Register(j, d, u, emails, domains)
      PROVE  SharingInv'
  <2>1. PICK r : r = [pc |-> "next", op |-> "register", d |-> d, u |-> u, todo |-> emails,
                      email |-> "", domains |-> domains, fresh |-> {}, got |-> {}]
    OBVIOUS
  <2>2. /\ r \in Registering /\ d \notin boards \cup removed /\ job' = [job EXCEPT ![j] = r]
        /\ r.pc = "next" /\ r.d = d /\ r.fresh = {}
        /\ \A i \in Jobs : ~ Resting(i) => ~ (job[i].op = "register" /\ job[i].d = d)
    BY <1>4, <2>1 DEF Register, Registrable, Registering, Go
  <2>3. r \in {Over} \cup Work /\ r \notin Sharings /\ r \notin Pruning /\ r \notin Adding \cup Deposing
    BY <2>2 DEF Work, Registering, Sharings, Pruning, Adding, Deposing
  <2>4. Fine(r) /\ Given(r) /\ \A i \in Jobs \ {j} : Apart(r, job[i])
    BY <1>2, <2>2, <2>3 DEF Fine, Given, Apart
  <2> QED BY <1>1, <2>2, <2>3, <2>4, MovesOn
<1> QED BY <1>3, <1>4

LEMMA AdminRequestsKeep ==
  ASSUME SharingInv, NEW j \in Jobs, begun' \in 0 .. MaxBegun,
         NEW d \in Boards, NEW u \in Admins \cup Superusers, NEW who \in Admins,
         AddAdmin(j, d, u, who) \/ Depose(j, d, u, who)
  PROVE  SharingInv'
<1>1. /\ At(j, "new") /\ ~ At(j, "erase") /\ mishaps' \in 0 .. MaxMishaps /\ d \in boards
      /\ UNCHANGED <<boards, removed, gone, access, viewers, role, ghosts>>
  BY DEF SharingInv, SharingTypeOK, AddAdmin, Depose, Manages, Go, At
<1>2. PICK r \in Adding \cup Deposing :
        /\ r.d = d /\ r.who = who /\ job' = [job EXCEPT ![j] = r]
        /\ r.pc = "appoint" => admin[<<d, who>>] = 0
        /\ r.pc = "remove" => \E a \in Admins \ {who} : admin[<<d, a>>] > 0
  <2>1. CASE AddAdmin(j, d, u, who)
    <3>1. PICK r : r = [pc |-> "appoint", op |-> "add", d |-> d, u |-> u, who |-> who]
      OBVIOUS
    <3>2. r \in Adding /\ r.d = d /\ r.who = who /\ r.pc = "appoint"
      BY <3>1 DEF Adding
    <3>3. job' = [job EXCEPT ![j] = r] /\ admin[<<d, who>>] = 0
      BY <2>1, <3>1 DEF AddAdmin, Go, Appointable
    <3> QED BY <3>2, <3>3
  <2>2. CASE Depose(j, d, u, who)
    <3>1. [pc |-> "remove", op |-> "depose", d |-> d, who |-> who] \in Deposing
      BY DEF Deposing
    <3> QED BY <2>2, <3>1 DEF Depose, Go
  <2> QED BY <2>1, <2>2
<1>3. /\ r \in {Over} \cup Work /\ r \notin Registering /\ r \notin Pruning /\ r \notin Sharings
      /\ r.pc \in {"appoint", "remove"}
  BY DEF Work, Adding, Deposing, Registering, Sharings, Pruning
<1>4. Fine(r) /\ Given(r) /\ \A i \in Jobs \ {j} : Apart(r, job[i])
  BY <1>1, <1>2, <1>3 DEF Fine, Given, Apart
<1> QED BY <1>1, <1>2, <1>3, <1>4, MovesOn

LEMMA StartPruneKeeps ==
  ASSUME SharingInv, NEW j \in Jobs, begun' \in 0 .. MaxBegun, StartPrune(j)
  PROVE  SharingInv'
<1>1. /\ At(j, "new") /\ ~ At(j, "erase") /\ mishaps' \in 0 .. MaxMishaps
      /\ UNCHANGED <<boards, removed, gone, access, viewers, role, ghosts>>
  BY DEF SharingInv, SharingTypeOK, StartPrune, Go, At
<1>2. \A i \in Jobs : job[i] \notin Pruning
  BY AtJob, Kinds DEF StartPrune, Resting
<1>3. PICK r : r = [pc |-> "pick", op |-> "prune", email |-> "",
                    todo |-> {e \in Unshared : DomainOf[e] \notin InUse}]
  OBVIOUS
<1>4. /\ r.pc = "pick" /\ r.todo \subseteq viewers /\ job' = [job EXCEPT ![j] = r]
      /\ r \in Pruning
  BY <1>3 DEF StartPrune, Go, Pruning, Unshared, SharingInv, SharingTypeOK
<1>5. r \in {Over} \cup Work /\ r \notin Registering /\ r \notin Sharings \cup Adding \cup Deposing
  BY <1>4 DEF Work, Adding, Deposing, Registering, Sharings, Pruning
<1>6. Fine(r) /\ Given(r) /\ \A i \in Jobs \ {j} : Apart(r, job[i])
  BY <1>2, <1>4, <1>5 DEF Fine, Given, Apart
<1> QED BY <1>1, <1>4, <1>5, <1>6, MovesOn

-----------------------------------------------------------------------------
(* The viewers of a registration or of a share, one by one *)

LEMMA NextEmailKeeps ==
  ASSUME SharingInv, NEW j \in Jobs, NEW e \in Emails, NextEmail(j, e), begun' = begun
  PROVE  SharingInv'
<1> DEFINE c == IF Known(j, e) THEN "look" ELSE "role"
<1>1. /\ At(j, "next") /\ ~ At(j, "erase") /\ mishaps' \in 0 .. MaxMishaps /\ begun' \in 0 .. MaxBegun
      /\ UNCHANGED <<boards, removed, gone, access, viewers, role, ghosts>>
      /\ job' = [job EXCEPT ![j] = [job[j] EXCEPT !.pc = c, !.email = e, !.todo = @ \ {e}]]
  BY DEF SharingInv, SharingTypeOK, NextEmail, Go, At
<1>2. /\ job[j] \in Registering \cup Sharings /\ Fine(job[j]) /\ Given(job[j])
      /\ \A i \in Jobs \ {j} : Apart(job[j], job[i])
  BY <1>1, AtJob, Kinds DEF At
<1>3. job[j].todo \ {e} \in SUBSET Emails /\ c \in {"look", "role"}
  BY <1>2 DEF Registering, Sharings
<1>4. PICK r : r = [job[j] EXCEPT !.pc = c, !.email = e, !.todo = @ \ {e}]
  OBVIOUS
<1> HIDE DEF c
<1>5. /\ r.pc = c /\ r.email = e /\ r.d = job[j].d /\ job' = [job EXCEPT ![j] = r]
      /\ job[j] \in Registering => r \in Registering /\ r.fresh = job[j].fresh
      /\ job[j] \in Sharings => r \in Sharings
  <2>1. PICK q \in Registering \cup Sharings : q = job[j]
    BY <1>2
  <2>2. PICK T \in SUBSET Emails : T = q.todo \ {e}
    BY <1>3, <2>1
  <2>3. r = [q EXCEPT !.pc = c, !.email = e, !.todo = T]
    BY <1>4, <2>1, <2>2
  <2>4. /\ q \in Registering => r \in Registering /\ r.fresh = q.fresh
        /\ q \in Sharings => r \in Sharings
        /\ r.pc = c /\ r.d = q.d /\ r.email = e
    BY <1>3, <2>2, <2>3 DEF Registering, Sharings
  <2> QED BY <1>1, <1>4, <2>1, <2>4
<1>6. /\ r \in {Over} \cup Work /\ r \notin Pruning /\ (r \in Registering <=> job[j] \in Registering)
      /\ r.pc \notin {"grant", "appoint", "remove", "insert", "pick", "unrole", "erase"}
      /\ r \notin Adding \cup Deposing /\ (r \in Sharings <=> job[j] \in Sharings)
  BY <1>2, <1>3, <1>5 DEF Work, Adding, Deposing, Registering, Sharings, Pruning
<1>7. Fine(r) /\ Given(r) /\ \A i \in Jobs \ {j} : Apart(r, job[i])
  BY <1>2, <1>5, <1>6 DEF Fine, Given, Apart
<1> QED BY <1>1, <1>5, <1>6, <1>7, MovesOn

LEMMA GiveRoleKeeps ==
  ASSUME SharingInv, NEW j \in Jobs, GiveRole(j), begun' = begun
  PROVE  SharingInv'
<1>1. /\ At(j, "role") /\ ~ At(j, "erase")
      /\ UNCHANGED <<boards, removed, gone, access, viewers, mishaps, ghosts>>
      /\ role' = role \cup {job[j].email}
      /\ job' = [job EXCEPT ![j] = [job[j] EXCEPT !.pc = "insert"]]
  BY DEF GiveRole, To, Go, At
<1>2. /\ job[j] \in Registering \cup Sharings /\ Fine(job[j]) /\ Given(job[j]) /\ job[j].email \in Emails
      /\ \A i \in Jobs \ {j} : Apart(job[j], job[i])
  BY <1>1, AtJob, Kinds DEF At
<1>3. PICK r : r = [job[j] EXCEPT !.pc = "insert"]
  OBVIOUS
<1>4. /\ r.pc = "insert" /\ r.email = job[j].email /\ r.d = job[j].d /\ job' = [job EXCEPT ![j] = r]
      /\ job[j] \in Registering => r \in Registering /\ r.fresh = job[j].fresh
      /\ job[j] \in Sharings => r \in Sharings
  <2>1. PICK q \in Registering \cup Sharings : q = job[j]
    BY <1>2
  <2>2. /\ q \in Registering => r \in Registering /\ r.fresh = q.fresh
        /\ q \in Sharings => r \in Sharings
        /\ r.pc = "insert" /\ r.d = q.d /\ r.email = q.email
    BY <1>3, <2>1 DEF Registering, Sharings
  <2> QED BY <1>1, <1>3, <2>1, <2>2
<1>5. /\ r \in {Over} \cup Work /\ r \notin Pruning /\ (r \in Registering <=> job[j] \in Registering)
      /\ r \notin Adding \cup Deposing /\ (r \in Sharings <=> job[j] \in Sharings)
  BY <1>2, <1>4 DEF Work, Adding, Deposing, Registering, Sharings, Pruning
<1>6. \A e : Looks(e) => (Looks(e))'
  BY <1>1, <1>4, <1>5, LooksStays DEF ghosts
<1>7. (Looks(r.email))'
  BY <1>1, <1>4 DEF Looks
<1>8. (Fine(r))' /\ (Given(r))' /\ \A i \in Jobs \ {j} : Apart(r, job[i])
  BY <1>1, <1>2, <1>4, <1>5, <1>6, <1>7 DEF Fine, Given, Apart, access, ghosts
<1>9. \A i \in Jobs \ {j} : job'[i] = job[i]
  BY <1>1 DEF SharingInv
<1>10. \A i \in Jobs \ {j} : (Fine(job[i]))' /\ (Given(job[i]))'
  BY <1>1, <1>6, <1>9 DEF SharingInv, Fine, Given, access, ghosts
<1>11. SharingTypeOK' /\ AccessStaysSound' /\ \A e \in viewers' : (Looks(e))'
  BY <1>1, <1>2, <1>6 DEF SharingInv, SharingTypeOK, AccessStaysSound, access, ghosts, Count
<1> QED BY <1>4, <1>5, <1>8, <1>10, <1>11, OneMoves

\* A row of a viewer, committed or in a registration's transaction.
LEMMA InsertViewerKeeps ==
  ASSUME SharingInv, NEW j \in Jobs, InsertViewer(j), begun' = begun
  PROVE  SharingInv'
<1>1. /\ At(j, "insert") /\ ~ At(j, "erase") /\ mishaps' \in 0 .. MaxMishaps /\ begun' \in 0 .. MaxBegun
      /\ UNCHANGED <<boards, removed, gone, access, role, mishaps, ghosts>>
      /\ ~ Pending(job[j].email) \/ Known(j, job[j].email)
  BY DEF SharingInv, SharingTypeOK, InsertViewer, At
<1>2. PICK q \in Registering \cup Sharings : q = job[j]
  BY <1>1, AtJob, Kinds DEF At
<1>3. /\ Fine(q) /\ Given(q) /\ q.email \in Emails /\ q.pc = "insert" /\ Looks(q.email)
      /\ \A i \in Jobs \ {j} : Apart(q, job[i]) /\ Apart(job[i], q)
  BY <1>1, <1>2, AtJob DEF At, Given
<1>4. /\ q \in Registering <=> q.op = "register"
      /\ \A i \in Jobs : job[i] \in Registering <=> ~ Resting(i) /\ job[i].op = "register"
  BY <1>2, AtJob, Kinds DEF Resting, Work
\* nobody else has inserted the address, unless it is there
<1>5. \A i \in Jobs \ {j} : job[i] \in Registering /\ q.email \in job[i].fresh => q.email \in viewers
  <2> SUFFICES ASSUME NEW i \in Jobs \ {j}, job[i] \in Registering, q.email \in job[i].fresh, q.email \notin viewers
               PROVE  FALSE
    OBVIOUS
  <2>1. Pending(q.email)
    BY <1>4 DEF Pending
  <2>2. q \in Registering /\ q.email \in q.fresh
    BY <1>1, <1>2, <1>4, <2>1 DEF Known
  <2> QED BY <1>3, <2>2 DEF Apart
<1>6. CASE q.op = "register" /\ q.email \notin viewers
  <2>1. PICK r : r = [q EXCEPT !.pc = "look", !.fresh = @ \cup {q.email}]
    OBVIOUS
  <2>2. job' = [job EXCEPT ![j] = r] /\ UNCHANGED viewers
    BY <1>2, <1>6, <2>1 DEF InsertViewer, Go
  <2>3. q \in Registering
    BY <1>4, <1>6
  <2>4. /\ r \in Registering /\ r.pc = "look" /\ r.d = q.d /\ r.email = q.email
        /\ r.fresh = q.fresh \cup {q.email}
    BY <1>3, <2>1, <2>3 DEF Registering
  <2>5. r \in {Over} \cup Work /\ r \notin Sharings \cup Adding \cup Deposing \cup Pruning
    BY <2>4 DEF Work, Registering, Sharings, Adding, Deposing, Pruning
  <2>6. Fine(r) /\ Given(r) /\ \A i \in Jobs \ {j} : Apart(r, job[i])
    BY <1>3, <1>5, <1>6, <2>3, <2>4, <2>5 DEF Fine, Given, Apart
  <2> QED BY <1>1, <2>2, <2>5, <2>6, MovesOn
<1>7. CASE ~ (q.op = "register" /\ q.email \notin viewers)
  <2>1. PICK r : r = [q EXCEPT !.pc = "look"]
    OBVIOUS
  <2>2. job' = [job EXCEPT ![j] = r] /\ viewers' = viewers \cup {q.email}
    BY <1>2, <1>7, <2>1 DEF InsertViewer, To, Go
  <2>3. /\ q \in Registering => r \in Registering /\ r.fresh = q.fresh /\ q.email \in viewers
        /\ q \in Sharings => r \in Sharings
        /\ r.pc = "look" /\ r.d = q.d /\ r.email = q.email
    BY <1>4, <1>7, <2>1 DEF Registering, Sharings
  <2>4. /\ r \in {Over} \cup Work /\ r \notin Pruning /\ (r \in Registering <=> q \in Registering)
        /\ r \notin Adding \cup Deposing /\ (r \in Sharings <=> q \in Sharings)
    BY <1>2, <2>3 DEF Work, Adding, Deposing, Registering, Sharings, Pruning
  <2>5. \A e : Looks(e) => (Looks(e))'
    BY <1>1, <2>2, <2>4, LooksStays DEF ghosts
  <2>6. \A i \in Jobs \ {j} : job'[i] = job[i]
    BY <2>2 DEF SharingInv
  <2>7. (Fine(r))' /\ (Given(r))' /\ \A i \in Jobs \ {j} : Apart(r, job[i])
    BY <1>1, <1>3, <2>2, <2>3, <2>4, <2>5 DEF Fine, Given, Apart, access, ghosts
  <2>8. \A i \in Jobs \ {j} : (Fine(job[i]))' /\ (Given(job[i]))'
    <3> SUFFICES ASSUME NEW i \in Jobs \ {j} PROVE (Fine(job[i]))' /\ (Given(job[i]))'
      OBVIOUS
    <3>0. PICK k : k = job[i]
      OBVIOUS
    <3>1. k \in Registering => k.fresh \cap viewers' = {}
      <4>1. /\ k \in Registering => k.fresh \cap viewers = {}
            /\ k \in Registering /\ q.email \in k.fresh => q.email \in viewers
        BY <1>5, <3>0, AtJob DEF Fine
      <4> QED BY <4>1, <2>2
    <3>2. (Fine(k))' /\ (Given(k))'
      BY <1>1, <2>2, <2>5, <3>0, <3>1, AtJob DEF Fine, Given, access, ghosts
    <3> QED BY <2>6, <3>0, <3>2
  <2>9. SharingTypeOK' /\ AccessStaysSound' /\ \A e \in viewers' : (Looks(e))'
    BY <1>1, <1>3, <2>2, <2>5 DEF SharingInv, SharingTypeOK, AccessStaysSound, access, ghosts, Count
  <2> QED BY <2>2, <2>4, <2>7, <2>8, <2>9, OneMoves
<1> QED BY <1>6, <1>7

LEMMA LookForAccessKeeps ==
  ASSUME SharingInv, NEW j \in Jobs, LookForAccess(j), begun' = begun
  PROVE  SharingInv'
<1>1. /\ At(j, "look") /\ ~ At(j, "erase") /\ mishaps' \in 0 .. MaxMishaps /\ begun' \in 0 .. MaxBegun
      /\ UNCHANGED <<boards, removed, gone, access, viewers, role, ghosts>>
  BY DEF SharingInv, SharingTypeOK, LookForAccess, At
<1>2. PICK q \in Registering \cup Sharings : q = job[j]
  BY <1>1, AtJob, Kinds DEF At
<1>3. /\ Fine(q) /\ Given(q) /\ q.email \in Emails /\ q.pc = "look" /\ q.d \in Boards
      /\ \A i \in Jobs \ {j} : Apart(q, job[i])
  BY <1>1, <1>2, AtJob DEF At
<1>4. /\ q \in Registering <=> q.op = "register"
      /\ q \in Sharings <=> q.op = "share"
  BY <1>2, <1>3, Kinds DEF Work
<1>5. CASE q.op = "register"
  <2>1. PICK r : r = [q EXCEPT !.pc = "next", !.got = @ \cup {q.email}]
    OBVIOUS
  <2>2. job' = [job EXCEPT ![j] = r]
    BY <1>2, <1>5, <2>1 DEF LookForAccess, Go
  <2>3. q \in Registering
    BY <1>4, <1>5
  <2>4. r \in Registering /\ r.pc = "next" /\ r.d = q.d /\ r.fresh = q.fresh
    BY <1>3, <2>1, <2>3 DEF Registering
  <2>5. r \in {Over} \cup Work /\ r \notin Sharings \cup Adding \cup Deposing \cup Pruning
    BY <2>4 DEF Work, Registering, Sharings, Adding, Deposing, Pruning
  <2>6. Fine(r) /\ Given(r) /\ \A i \in Jobs \ {j} : Apart(r, job[i])
    BY <1>3, <2>3, <2>4, <2>5 DEF Fine, Given, Apart
  <2> QED BY <1>1, <2>2, <2>5, <2>6, MovesOn
<1>6. CASE q.op = "share"
  <2>1. PICK c : c = IF view[<<q.d, q.email>>] > 0 THEN "next" ELSE "grant"
    OBVIOUS
  <2>2. PICK r : r = [q EXCEPT !.pc = c]
    OBVIOUS
  <2>3. job' = [job EXCEPT ![j] = r]
    BY <1>2, <1>4, <1>6, <2>1, <2>2 DEF LookForAccess, To, Go
  <2>4. q \in Sharings
    BY <1>4, <1>6
  <2>5. r \in Sharings /\ r.pc = c /\ r.d = q.d /\ r.email = q.email /\ c \in {"next", "grant"}
    BY <1>3, <2>1, <2>2, <2>4 DEF Sharings
  <2>6. r \in {Over} \cup Work /\ r \notin Registering \cup Adding \cup Deposing \cup Pruning
    BY <2>5 DEF Work, Registering, Sharings, Adding, Deposing, Pruning
  <2>7. c = "grant" => view[<<q.d, q.email>>] = 0
    <3>1. <<q.d, q.email>> \in Boards \X Emails
      BY <1>3
    <3>2. view[<<q.d, q.email>>] \in 0 .. MaxRows
      BY <3>1 DEF SharingInv, SharingTypeOK, Count
    <3> QED BY <2>1, <3>2, SharingAssumption
  <2>8. Fine(r) /\ Given(r) /\ \A i \in Jobs \ {j} : Apart(r, job[i])
    BY <1>3, <2>4, <2>5, <2>6, <2>7 DEF Fine, Given, Apart
  <2> QED BY <1>1, <2>3, <2>6, <2>8, MovesOn
<1> QED BY <1>2, <1>5, <1>6 DEF LookForAccess

-----------------------------------------------------------------------------
(* Steps that end a request *)

LEMMA OverKeeps ==
  ASSUME SharingInv, NEW j \in Jobs, job' = [job EXCEPT ![j] = Over],
         ~ At(j, "erase"), role' = role, torn' = torn,
         SharingTypeOK', AccessStaysSound',
         \A e \in viewers' \ viewers : Looks(e),
         \A k \in Work : Fine(k) /\ (\E i \in Jobs \ {j} : k = job[i]) => (Fine(k))'
  PROVE  SharingInv'
<1>1. Over \in {Over} \cup Work
  OBVIOUS
<1>2. \A e : Looks(e) => (Looks(e))'
  BY <1>1, LooksStays
<1>3. ASSUME NEW i \in Jobs \ {j} PROVE (Fine(job[i]))' /\ (Given(job[i]))'
  <2>1. PICK k \in {Over} \cup Work : k = job[i]
    BY AtJob
  <2>2. job'[i] = k
    BY <2>1 DEF SharingInv
  <2>3. (Fine(k))' /\ (Given(k))'
    <3>1. CASE k = Over
      BY <3>1, OverIsFine
    <3>2. CASE k \in Work
      <4>1. Fine(k) /\ Given(k)
        BY <2>1, AtJob
      <4> QED BY <1>2, <2>1, <3>2, <4>1 DEF Given
    <3> QED BY <3>1, <3>2
  <2> QED BY <2>2, <2>3
<1>4. \A e \in viewers' : (Looks(e))'
  BY <1>2 DEF SharingInv
<1> QED BY <1>1, <1>3, <1>4, OverIsFine, OneMoves

\* A request that stops with nothing done.
LEMMA StopsKeeps ==
  ASSUME SharingInv, NEW j \in Jobs, job' = [job EXCEPT ![j] = Over], ~ At(j, "erase"),
         UNCHANGED <<boards, removed, gone, access, viewers, role, ghosts>>,
         begun' \in 0 .. MaxBegun, mishaps' \in 0 .. MaxMishaps
  PROVE  SharingInv'
<1>1. Over \in {Over} \cup Work /\ Fine(Over) /\ Given(Over) /\ \A i \in Jobs \ {j} : Apart(Over, job[i])
  BY OverIsFine
<1> QED BY <1>1, MovesOn

LEMMA ShareDoneKeeps ==
  ASSUME SharingInv, NEW j \in Jobs, ShareDone(j), begun' = begun
  PROVE  SharingInv'
<1>1. begun' \in 0 .. MaxBegun /\ mishaps' \in 0 .. MaxMishaps
  BY DEF ShareDone, SharingInv, SharingTypeOK
<1> QED BY <1>1, StopsKeeps DEF ShareDone, Go, At

LEMMA MishapKeeps ==
  ASSUME SharingInv, NEW j \in Jobs, Mishap(j), begun' = begun
  PROVE  SharingInv'
<1>1. /\ begun' \in 0 .. MaxBegun /\ mishaps' \in 0 .. MaxMishaps
      /\ job' = [job EXCEPT ![j] = Over]
      /\ UNCHANGED <<boards, removed, gone, access, viewers, role, doubled, bereft>>
  BY SharingAssumption DEF Mishap, SharingInv, SharingTypeOK
<1>2. CASE ~ At(j, "erase")
  <2>1. UNCHANGED ghosts
    BY <1>2 DEF Mishap, ghosts
  <2> QED BY <1>1, <1>2, <2>1, StopsKeeps
<1>3. CASE At(j, "erase")
  <2>1. torn' = torn \cup {job[j].email}
    BY <1>3 DEF Mishap
  <2>2. job[j] \in Pruning
    BY <1>3, AtJob, Kinds DEF At
  <2>3. job[j].email \in Emails
    BY <1>3, <2>2, AtJob DEF Fine, At, SharingInv, SharingTypeOK
  <2>4. \A i \in Jobs \ {j} : job'[i] = job[i]
    BY <1>1 DEF SharingInv
  <2>5. \A e : Looks(e) => (Looks(e))'
    BY <1>1, <2>1, <2>4 DEF Looks, At
  <2>6. SharingTypeOK' /\ AccessStaysSound'
    BY <1>1, <2>1, <2>3 DEF SharingInv, SharingTypeOK, AccessStaysSound, access, Count
  <2>7. \A q : Fine(q) => (Fine(q))'
    BY <1>1 DEF Fine, access
  <2>8. \A q : Given(q) => (Given(q))'
    BY <2>5 DEF Given
  <2>9. \A i \in Jobs \ {j} : (Fine(job[i]))' /\ (Given(job[i]))'
    <3> SUFFICES ASSUME NEW i \in Jobs \ {j} PROVE (Fine(job[i]))' /\ (Given(job[i]))'
      OBVIOUS
    <3>1. PICK k : k = job[i]
      OBVIOUS
    <3>2. (Fine(k))' /\ (Given(k))'
      BY <2>7, <2>8, <3>1, AtJob
    <3> QED BY <2>4, <3>1, <3>2
  <2>10. \A e \in viewers' : (Looks(e))'
    BY <1>1, <2>5 DEF SharingInv
  <2> QED BY <1>1, <2>6, <2>9, <2>10, OverIsFine, OneMoves
<1> QED BY <1>2, <1>3

-----------------------------------------------------------------------------
(* Access rows *)

LEMMA GrantAccessKeeps ==
  ASSUME SharingInv, NEW j \in Jobs, GrantAccess(j), begun' = begun
  PROVE  SharingInv'
<1>1. /\ At(j, "grant") /\ ~ At(j, "erase") /\ mishaps' \in 0 .. MaxMishaps /\ begun' \in 0 .. MaxBegun
      /\ UNCHANGED <<boards, removed, gone, admin, wide, viewers, role, torn, bereft>>
  BY DEF SharingInv, SharingTypeOK, GrantAccess, At
<1>2. PICK q \in Sharings : q = job[j]
  BY <1>1, AtJob, Kinds DEF At
<1>3. /\ Fine(q) /\ Given(q) /\ q.email \in Emails /\ q.pc = "grant" /\ q.d \in Boards
      /\ \A i \in Jobs \ {j} : Apart(q, job[i])
  BY <1>1, <1>2, AtJob DEF At
<1>4. PICK p \in Boards \X Emails : p = <<q.d, q.email>>
  BY <1>3
<1>5. CASE ~ (q.email \in viewers /\ q.d \in boards /\ q.u \notin gone)
  <2>1. job' = [job EXCEPT ![j] = Over] /\ UNCHANGED <<access, ghosts>>
    BY <1>1, <1>2, <1>5 DEF GrantAccess, access, ghosts
  <2> QED BY <1>1, <2>1, StopsKeeps
<1>6. CASE q.email \in viewers /\ q.d \in boards /\ q.u \notin gone
  <2>1. PICK r : r = [q EXCEPT !.pc = "next"]
    OBVIOUS
  <2>2. /\ job' = [job EXCEPT ![j] = r] /\ view[p] < MaxRows
        /\ view' = [view EXCEPT ![p] = @ + 1] /\ doubled \subseteq doubled'
        /\ Granting(q.d, q.email) # {j} => p \in doubled'
    BY <1>2, <1>4, <1>6, <2>1 DEF GrantAccess, To, Go, Give
  <2>3. r \in Sharings /\ r.pc = "next" /\ r.d = q.d /\ r.email = q.email
    BY <1>3, <2>1 DEF Sharings
  <2>4. r \in {Over} \cup Work /\ r \notin Registering \cup Adding \cup Deposing \cup Pruning
    BY <2>3 DEF Work, Registering, Sharings, Adding, Deposing, Pruning
  <2>5. \A e : Looks(e) => (Looks(e))'
    BY <1>1, <2>2, <2>4, LooksStays
  <2>6. \A i \in Jobs \ {j} : job'[i] = job[i]
    BY <2>2 DEF SharingInv
  <2>7. /\ view \in [Boards \X Emails -> 0 .. MaxRows]
        /\ view' \in [Boards \X Emails -> 0 .. MaxRows]
        /\ view'[p] = view[p] + 1
        /\ \A c \in Boards \X Emails : c # p => view'[c] = view[c]
    <3>1. view \in [Boards \X Emails -> 0 .. MaxRows]
      BY DEF SharingInv, SharingTypeOK, Count
    <3>2. view[p] \in 0 .. MaxRows /\ view[p] + 1 \in 0 .. MaxRows
      BY <2>2, <3>1, SharingAssumption
    <3> QED BY <2>2, <3>1, <3>2
  <2>8. SharingTypeOK'
    <3>1. \A d \in Boards, e \in Emails : view'[<<d, e>>] > 0 => d \in boards /\ e \in viewers
      <4> SUFFICES ASSUME NEW d \in Boards, NEW e \in Emails, view'[<<d, e>>] > 0
                   PROVE  d \in boards /\ e \in viewers
        OBVIOUS
      <4>1. PICK c \in Boards \X Emails : c = <<d, e>>
        OBVIOUS
      <4>2. CASE c = p
        BY <1>4, <1>6, <4>1, <4>2
      <4>3. CASE c # p
        <5>1. view[<<d, e>>] > 0
          BY <2>7, <4>1, <4>3
        <5> QED BY <5>1 DEF SharingInv, SharingTypeOK
      <4> QED BY <4>2, <4>3
    <3> QED BY <1>1, <2>7, <3>1 DEF SharingInv, SharingTypeOK, Count
  <2>9. AccessStaysSound'
    <3>1. \A c \in Boards \X Emails : c \notin doubled' => view'[c] <= 1
      <4> SUFFICES ASSUME NEW c \in Boards \X Emails, c \notin doubled' PROVE view'[c] <= 1
        OBVIOUS
      <4>1. c \notin doubled /\ view[c] <= 1
        BY <2>2, <2>7 DEF SharingInv, AccessStaysSound
      <4>2. c = p => view[p] = 0
        BY <1>3, <1>4, <4>1 DEF Fine
      <4> QED BY <2>7, <4>1, <4>2
    <3> QED BY <1>1, <2>2, <2>7, <3>1 DEF SharingInv, AccessStaysSound
  <2>10. (Fine(r))' /\ (Given(r))' /\ \A i \in Jobs \ {j} : Apart(r, job[i])
    BY <1>1, <1>3, <2>2, <2>3, <2>4, <2>5 DEF Fine, Given, Apart
  <2>11. ASSUME NEW i \in Jobs \ {j} PROVE (Fine(job[i]))' /\ (Given(job[i]))'
    <3>1. PICK k : k = job[i]
      OBVIOUS
    <3>2. k.pc = "grant" => <<k.d, k.email>> \in doubled' \/ view'[<<k.d, k.email>>] = 0
      <4> SUFFICES ASSUME k.pc = "grant", <<k.d, k.email>> \notin doubled'
                   PROVE  view'[<<k.d, k.email>>] = 0
        OBVIOUS
      <4>1. k \in Sharings
        BY <3>1, AtJob, Kinds
      <4>2. PICK c \in Boards \X Emails : c = <<k.d, k.email>>
        BY <3>1, <4>1, AtJob
      <4>3. view[c] = 0
        BY <2>2, <3>1, <4>2, AtJob DEF Fine
      <4>4. c # p
        <5> SUFFICES ASSUME c = p PROVE FALSE
          OBVIOUS
        <5>1. k.d = q.d /\ k.email = q.email
          BY <1>4, <4>2
        <5>2. i \in Granting(q.d, q.email)
          BY <3>1, <5>1 DEF Granting, At
        <5> QED BY <2>2, <4>2, <5>2
      <4> QED BY <2>7, <4>2, <4>3, <4>4
    <3>3. (Fine(k))' /\ (Given(k))'
      <4>1. Fine(k) /\ Given(k)
        BY <3>1, AtJob
      <4> QED BY <1>1, <2>2, <2>5, <3>2, <4>1 DEF Fine, Given
    <3> QED BY <2>6, <3>1, <3>3
  <2>12. \A e \in viewers' : (Looks(e))'
    BY <1>1, <2>5 DEF SharingInv
  <2> QED BY <2>2, <2>4, <2>8, <2>9, <2>10, <2>11, <2>12, OneMoves
<1> QED BY <1>5, <1>6

LEMMA CommitRegisterKeeps ==
  ASSUME SharingInv, NEW j \in Jobs, CommitRegister(j), begun' = begun
  PROVE  SharingInv'
<1>1. /\ At(j, "next") /\ ~ At(j, "erase") /\ mishaps' \in 0 .. MaxMishaps /\ begun' \in 0 .. MaxBegun
      /\ job' = [job EXCEPT ![j] = Over] /\ job[j].op = "register"
      /\ UNCHANGED <<removed, gone, role, ghosts>> /\ torn' = torn
  BY DEF SharingInv, SharingTypeOK, CommitRegister, Go, At, ghosts
<1>2. PICK q \in Registering : q = job[j]
  BY <1>1, AtJob, Kinds DEF At
<1>3. /\ Fine(q) /\ Given(q) /\ q.d \in Boards /\ q.u \in Admins
      /\ q.fresh \subseteq Emails /\ q.got \subseteq Emails /\ q.domains \subseteq Domains
      /\ \A i \in Jobs \ {j} : Apart(q, job[i])
  BY <1>2, AtJob DEF Registering
<1>4. CASE ~ (q.got \subseteq viewers \cup q.fresh /\ q.u \notin gone)
  <2>1. UNCHANGED <<boards, viewers, access>>
    BY <1>2, <1>4 DEF CommitRegister
  <2> QED BY <1>1, <2>1, StopsKeeps
<1>5. CASE q.got \subseteq viewers \cup q.fresh /\ q.u \notin gone
  <2>1. /\ boards' = boards \cup {q.d} /\ viewers' = viewers \cup q.fresh
        /\ admin' = [admin EXCEPT ![<<q.d, q.u>>] = 1]
        /\ view' = [p \in DOMAIN view |-> IF p \in {q.d} \X q.got THEN 1 ELSE view[p]]
        /\ wide' = [p \in DOMAIN wide |-> IF p \in {q.d} \X q.domains THEN 1 ELSE wide[p]]
    BY <1>2, <1>5 DEF CommitRegister
  <2>2. /\ admin \in [Boards \X Admins -> 0 .. MaxRows] /\ view \in [Boards \X Emails -> 0 .. MaxRows]
        /\ wide \in [Boards \X Domains -> 0 .. MaxRows] /\ 1 \in 0 .. MaxRows
    BY SharingAssumption DEF SharingInv, SharingTypeOK, Count
  <2>3. /\ admin' \in [Boards \X Admins -> 0 .. MaxRows] /\ view' \in [Boards \X Emails -> 0 .. MaxRows]
        /\ wide' \in [Boards \X Domains -> 0 .. MaxRows]
    BY <2>1, <2>2
  <2>4. \A d \in Boards, u \in Admins :
          /\ d # q.d => admin'[<<d, u>>] = admin[<<d, u>>]
          /\ admin'[<<d, u>>] = admin[<<d, u>>] \/ admin'[<<d, u>>] = 1
          /\ d = q.d /\ u = q.u => admin'[<<d, u>>] = 1
    BY <1>3, <2>1, <2>2
  <2>5. \A d \in Boards, e \in Emails :
          /\ d # q.d => view'[<<d, e>>] = view[<<d, e>>]
          /\ \/ view'[<<d, e>>] = view[<<d, e>>]
             \/ view'[<<d, e>>] = 1 /\ d = q.d /\ e \in q.got
    <3> SUFFICES ASSUME NEW d \in Boards, NEW e \in Emails
                 PROVE  /\ d # q.d => view'[<<d, e>>] = view[<<d, e>>]
                        /\ \/ view'[<<d, e>>] = view[<<d, e>>]
                           \/ view'[<<d, e>>] = 1 /\ d = q.d /\ e \in q.got
      OBVIOUS
    <3>1. view'[<<d, e>>] = IF <<d, e>> \in {q.d} \X q.got THEN 1 ELSE view[<<d, e>>]
      BY <2>1, <2>2
    <3>2. <<d, e>> \in {q.d} \X q.got <=> d = q.d /\ e \in q.got
      OBVIOUS
    <3> QED BY <3>1, <3>2
  <2>6. SharingTypeOK'
    <3>1. boards' \subseteq Boards \ removed' /\ removed' \subseteq Boards /\ viewers' \subseteq Emails
      BY <1>1, <1>2, <1>3, <2>1 DEF SharingInv, SharingTypeOK, Fine
    <3>2. \A d \in Boards, e \in Emails : view'[<<d, e>>] > 0 => d \in boards' /\ e \in viewers'
      BY <1>5, <2>1, <2>5 DEF SharingInv, SharingTypeOK
    <3>3. \A d \in Boards, u \in Admins : admin'[<<d, u>>] > 0 => d \in boards' /\ u \notin gone'
      <4> SUFFICES ASSUME NEW d \in Boards, NEW u \in Admins, admin'[<<d, u>>] > 0
                   PROVE  d \in boards' /\ u \notin gone'
        OBVIOUS
      <4>1. CASE d = q.d /\ u = q.u
        BY <1>1, <1>5, <2>1, <4>1
      <4>2. CASE ~ (d = q.d /\ u = q.u)
        <5>1. admin'[<<d, u>>] = admin[<<d, u>>]
          BY <1>3, <2>1, <2>2, <4>2
        <5> QED BY <1>1, <2>1, <5>1 DEF SharingInv, SharingTypeOK
      <4> QED BY <4>1, <4>2
    <3> QED BY <1>1, <2>3, <3>1, <3>2, <3>3 DEF SharingTypeOK, Count, SharingInv, ghosts
  <2>7. AccessStaysSound'
    <3>1. \A d \in boards' \ (doubled' \cup bereft') : \E u \in Admins : admin'[<<d, u>>] > 0
      <4> SUFFICES ASSUME NEW d \in boards' \ (doubled' \cup bereft') PROVE \E u \in Admins : admin'[<<d, u>>] > 0
        OBVIOUS
      <4>1. CASE d = q.d
        <5>1. admin'[<<d, q.u>>] = 1
          BY <1>3, <2>4, <4>1
        <5> QED BY <1>3, <5>1
      <4>2. CASE d # q.d
        <5>1. d \in boards \ (doubled \cup bereft) /\ d \in Boards
          BY <1>1, <2>1, <4>2 DEF SharingInv, SharingTypeOK, ghosts
        <5>2. PICK u \in Admins : admin[<<d, u>>] > 0
          BY <5>1 DEF SharingInv, AccessStaysSound
        <5>3. admin'[<<d, u>>] > 0
          BY <2>4, <4>2, <5>1, <5>2
        <5> QED BY <5>3
      <4> QED BY <4>1, <4>2
    <3>2. \A p \in DOMAIN view' \ doubled' : view'[p] <= 1
      BY <1>1, <2>1, <2>2 DEF SharingInv, AccessStaysSound, ghosts
    <3>3. \A p \in DOMAIN admin' \ doubled' : admin'[p] <= 1
      BY <1>1, <2>1, <2>2 DEF SharingInv, AccessStaysSound, ghosts
    <3> QED BY <3>1, <3>2, <3>3 DEF AccessStaysSound
  <2>8. \A e \in viewers' \ viewers : Looks(e)
    BY <1>2, <1>3, <2>1 DEF Given
  <2>9. ASSUME NEW k \in Work, Fine(k), \E i \in Jobs \ {j} : k = job[i] PROVE (Fine(k))'
    <3>1. Apart(q, k)
      BY <1>3, <2>9
    <3>2. k \in Registering => k.d \notin boards' \cup removed' /\ k.fresh \cap viewers' = {}
      BY <1>1, <2>1, <2>9, <3>1 DEF Fine, Apart
    <3>3. q.d \notin boards \cup removed
      BY <1>2, <1>3 DEF Fine
    <3>4. k.pc = "grant" => <<k.d, k.email>> \in doubled' \/ view'[<<k.d, k.email>>] = 0
      <4> SUFFICES ASSUME k.pc = "grant"
                   PROVE  <<k.d, k.email>> \in doubled' \/ view'[<<k.d, k.email>>] = 0
        OBVIOUS
      <4>1. k \in Sharings
        BY Kinds
      <4>2. k.d \in Boards /\ k.email \in Emails /\ k.d \in boards \cup removed
        BY <2>9, <4>1 DEF Fine, Sharings
      <4>3. <<k.d, k.email>> \in doubled \/ view[<<k.d, k.email>>] = 0
        BY <2>9 DEF Fine
      <4>4. view'[<<k.d, k.email>>] = view[<<k.d, k.email>>]
        BY <2>5, <3>3, <4>2
      <4> QED BY <1>1, <4>3, <4>4 DEF ghosts
    <3>5. k.pc = "appoint" => <<k.d, k.who>> \in doubled' \/ admin'[<<k.d, k.who>>] = 0
      <4> SUFFICES ASSUME k.pc = "appoint"
                   PROVE  <<k.d, k.who>> \in doubled' \/ admin'[<<k.d, k.who>>] = 0
        OBVIOUS
      <4>1. k \in Adding
        BY Kinds
      <4>2. k.d \in Boards /\ k.who \in Admins /\ k.d \in boards \cup removed
        BY <2>9, <4>1 DEF Fine, Adding
      <4>3. <<k.d, k.who>> \in doubled \/ admin[<<k.d, k.who>>] = 0
        BY <2>9 DEF Fine
      <4>4. admin'[<<k.d, k.who>>] = admin[<<k.d, k.who>>]
        BY <2>4, <3>3, <4>2
      <4> QED BY <1>1, <4>3, <4>4 DEF ghosts
    <3>6. k.pc = "remove" => \/ k.d \in doubled' \/ k.d \notin boards'
                             \/ \E a \in Admins \ {k.who} : admin'[<<k.d, a>>] > 0
      <4> SUFFICES ASSUME k.pc = "remove", k.d \notin doubled', k.d \in boards'
                   PROVE  \E a \in Admins \ {k.who} : admin'[<<k.d, a>>] > 0
        OBVIOUS
      <4>1. k \in Deposing
        BY Kinds
      <4>2. k.d \in Boards /\ k.d \in boards \cup removed /\ k.d # q.d
        BY <2>9, <3>3, <4>1 DEF Fine, Deposing
      <4>3. PICK a \in Admins \ {k.who} : admin[<<k.d, a>>] > 0
        BY <1>1, <2>1, <2>9, <4>2 DEF Fine, ghosts
      <4>4. admin'[<<k.d, a>>] > 0
        BY <2>4, <4>2, <4>3
      <4> QED BY <4>4
    <3> QED BY <1>1, <2>1, <2>9, <3>2, <3>4, <3>5, <3>6 DEF Fine
  <2> QED BY <1>1, <2>6, <2>7, <2>8, <2>9, OverKeeps
<1> QED BY <1>4, <1>5

\* Rows of domains are read by nobody else here.
LEMMA DomainKeeps ==
  ASSUME SharingInv, NEW j \in Jobs, begun' \in 0 .. MaxBegun,
         NEW d \in Boards, NEW u \in Admins \cup Superusers, NEW m \in Domains,
         GrantDomain(j, d, u, m) \/ RevokeDomain(j, d, u, m)
  PROVE  SharingInv'
<1>1. /\ ~ At(j, "erase") /\ mishaps' \in 0 .. MaxMishaps /\ job' = [job EXCEPT ![j] = Over]
      /\ UNCHANGED <<boards, removed, gone, admin, view, viewers, role, torn, doubled, bereft>>
      /\ wide' = [wide EXCEPT ![<<d, m>>] = 1] \/ wide' = [wide EXCEPT ![<<d, m>>] = 0]
  BY DEF SharingInv, SharingTypeOK, GrantDomain, RevokeDomain, Go, At, ghosts
<1>2. wide \in [Boards \X Domains -> 0 .. MaxRows] /\ 1 \in 0 .. MaxRows /\ 0 \in 0 .. MaxRows
  BY SharingAssumption DEF SharingInv, SharingTypeOK, Count
<1>3. wide' \in [Boards \X Domains -> 0 .. MaxRows]
  BY <1>1, <1>2
<1>4. SharingTypeOK' /\ AccessStaysSound'
  BY <1>1, <1>3 DEF SharingInv, SharingTypeOK, AccessStaysSound, Count
<1>5. \A k : Fine(k) => (Fine(k))'
  BY <1>1 DEF Fine
<1> QED BY <1>1, <1>4, <1>5, OverKeeps

LEMMA RevokeViewerKeeps ==
  ASSUME SharingInv, NEW j \in Jobs, begun' \in 0 .. MaxBegun,
         NEW d \in Boards, NEW u \in Admins \cup Superusers, NEW e \in Emails, RevokeViewer(j, d, u, e)
  PROVE  SharingInv'
<1>1. /\ ~ At(j, "erase") /\ mishaps' \in 0 .. MaxMishaps /\ job' = [job EXCEPT ![j] = Over]
      /\ UNCHANGED <<boards, removed, gone, admin, wide, viewers, role, torn, doubled, bereft>>
      /\ view' = Without(view, {d} \X {e})
  BY DEF SharingInv, SharingTypeOK, RevokeViewer, DeleteViewers, Go, At, ghosts
<1>2. view \in [Boards \X Emails -> 0 .. MaxRows] /\ 0 \in 0 .. MaxRows
  BY SharingAssumption DEF SharingInv, SharingTypeOK, Count
<1>3. /\ view' \in [Boards \X Emails -> 0 .. MaxRows]
      /\ \A p \in Boards \X Emails : view'[p] = view[p] \/ view'[p] = 0
  BY <1>1, <1>2 DEF Without
<1>4. SharingTypeOK'
  <2>1. \A b \in Boards, x \in Emails : view'[<<b, x>>] > 0 => b \in boards /\ x \in viewers
    <3> SUFFICES ASSUME NEW b \in Boards, NEW x \in Emails, view'[<<b, x>>] > 0
                 PROVE  b \in boards /\ x \in viewers
      OBVIOUS
    <3>1. view[<<b, x>>] > 0
      BY <1>3
    <3> QED BY <3>1 DEF SharingInv, SharingTypeOK
  <2> QED BY <1>1, <1>3, <2>1 DEF SharingInv, SharingTypeOK, Count
<1>5. AccessStaysSound'
  <2>1. \A p \in DOMAIN view' \ doubled' : view'[p] <= 1
    <3> SUFFICES ASSUME NEW p \in Boards \X Emails, p \notin doubled' PROVE view'[p] <= 1
      BY <1>3
    <3>1. view[p] <= 1
      BY <1>1, <1>2 DEF SharingInv, AccessStaysSound
    <3> QED BY <1>3, <3>1
  <2> QED BY <1>1, <2>1 DEF SharingInv, AccessStaysSound
<1>6. ASSUME NEW k \in Work, Fine(k) PROVE (Fine(k))'
  <2>1. k.pc = "grant" => <<k.d, k.email>> \in doubled' \/ view'[<<k.d, k.email>>] = 0
    <3> SUFFICES ASSUME k.pc = "grant"
                 PROVE  <<k.d, k.email>> \in doubled' \/ view'[<<k.d, k.email>>] = 0
      OBVIOUS
    <3>1. k.d \in Boards /\ k.email \in Emails
      BY <1>6, Kinds DEF Fine, Sharings
    <3> QED BY <1>1, <1>3, <1>6, <3>1 DEF Fine
  <2> QED BY <1>1, <1>6, <2>1 DEF Fine
<1> QED BY <1>1, <1>4, <1>5, <1>6, OverKeeps

LEMMA DeleteBoardKeeps ==
  ASSUME SharingInv, NEW j \in Jobs, begun' \in 0 .. MaxBegun,
         NEW d \in Boards, NEW u \in Admins \cup Superusers, DeleteBoard(j, d, u)
  PROVE  SharingInv'
<1>1. /\ ~ At(j, "erase") /\ mishaps' \in 0 .. MaxMishaps /\ job' = [job EXCEPT ![j] = Over]
      /\ UNCHANGED <<gone, viewers, role, torn, doubled, bereft>> /\ d \in boards
      /\ boards' = boards \ {d} /\ removed' = removed \cup {d}
      /\ admin' = [p \in DOMAIN admin |-> IF p \in {c \in DOMAIN admin : c[1] = d} THEN 0 ELSE admin[p]]
      /\ view' = [p \in DOMAIN view |-> IF p \in {c \in DOMAIN view : c[1] = d} THEN 0 ELSE view[p]]
      /\ wide' = [p \in DOMAIN wide |-> IF p \in {c \in DOMAIN wide : c[1] = d} THEN 0 ELSE wide[p]]
  BY DEF SharingInv, SharingTypeOK, DeleteBoard, Manages, Without, Go, At, ghosts
<1>2. /\ admin \in [Boards \X Admins -> 0 .. MaxRows] /\ view \in [Boards \X Emails -> 0 .. MaxRows]
      /\ wide \in [Boards \X Domains -> 0 .. MaxRows] /\ 0 \in 0 .. MaxRows
  BY SharingAssumption DEF SharingInv, SharingTypeOK, Count
<1>3. /\ admin' \in [Boards \X Admins -> 0 .. MaxRows] /\ view' \in [Boards \X Emails -> 0 .. MaxRows]
      /\ wide' \in [Boards \X Domains -> 0 .. MaxRows]
      /\ \A p \in Boards \X Emails : view'[p] = view[p] \/ view'[p] = 0
      /\ \A p \in Boards \X Admins : admin'[p] = admin[p] \/ admin'[p] = 0
  BY <1>1, <1>2
<1>4. /\ \A b \in Boards, e \in Emails : view'[<<b, e>>] = IF b = d THEN 0 ELSE view[<<b, e>>]
      /\ \A b \in Boards, a \in Admins : admin'[<<b, a>>] = IF b = d THEN 0 ELSE admin[<<b, a>>]
  BY <1>1, <1>2
<1>5. SharingTypeOK'
  <2>1. \A b \in Boards, x \in Emails : view'[<<b, x>>] > 0 => b \in boards' /\ x \in viewers'
    <3> SUFFICES ASSUME NEW b \in Boards, NEW x \in Emails, view'[<<b, x>>] > 0
                 PROVE  b \in boards' /\ x \in viewers'
      OBVIOUS
    <3>1. b # d /\ view[<<b, x>>] > 0
      BY <1>4
    <3>2. b \in boards /\ x \in viewers
      BY <3>1 DEF SharingInv, SharingTypeOK
    <3> QED BY <1>1, <3>1, <3>2
  <2>2. \A b \in Boards, a \in Admins : admin'[<<b, a>>] > 0 => b \in boards' /\ a \notin gone'
    <3> SUFFICES ASSUME NEW b \in Boards, NEW a \in Admins, admin'[<<b, a>>] > 0
                 PROVE  b \in boards' /\ a \notin gone'
      OBVIOUS
    <3>1. b # d /\ admin[<<b, a>>] > 0
      BY <1>4
    <3>2. b \in boards /\ a \notin gone
      BY <3>1 DEF SharingInv, SharingTypeOK
    <3> QED BY <1>1, <3>1, <3>2
  <2> QED BY <1>1, <1>3, <2>1, <2>2 DEF SharingInv, SharingTypeOK, Count
<1>6. AccessStaysSound'
  <2>1. \A p \in DOMAIN view' \ doubled' : view'[p] <= 1
    BY <1>1, <1>2, <1>3 DEF SharingInv, AccessStaysSound
  <2>2. \A p \in DOMAIN admin' \ doubled' : admin'[p] <= 1
    BY <1>1, <1>2, <1>3 DEF SharingInv, AccessStaysSound
  <2>3. \A b \in boards' \ (doubled' \cup bereft') : \E a \in Admins : admin'[<<b, a>>] > 0
    <3> SUFFICES ASSUME NEW b \in boards' \ (doubled' \cup bereft') PROVE \E a \in Admins : admin'[<<b, a>>] > 0
      OBVIOUS
    <3>1. b \in boards \ (doubled \cup bereft) /\ b \in Boards /\ b # d
      BY <1>1 DEF SharingInv, SharingTypeOK
    <3>2. PICK a \in Admins : admin[<<b, a>>] > 0
      BY <3>1 DEF SharingInv, AccessStaysSound
    <3>3. admin'[<<b, a>>] > 0
      BY <1>4, <3>1, <3>2
    <3> QED BY <3>3
  <2> QED BY <2>1, <2>2, <2>3 DEF AccessStaysSound
<1>7. ASSUME NEW k \in Work, Fine(k) PROVE (Fine(k))'
  <2>1. k.pc = "grant" => <<k.d, k.email>> \in doubled' \/ view'[<<k.d, k.email>>] = 0
    <3> SUFFICES ASSUME k.pc = "grant"
                 PROVE  <<k.d, k.email>> \in doubled' \/ view'[<<k.d, k.email>>] = 0
      OBVIOUS
    <3>1. k.d \in Boards /\ k.email \in Emails
      BY <1>7, Kinds DEF Fine, Sharings
    <3> QED BY <1>1, <1>3, <1>7, <3>1 DEF Fine
  <2>2. k.pc = "appoint" => <<k.d, k.who>> \in doubled' \/ admin'[<<k.d, k.who>>] = 0
    <3> SUFFICES ASSUME k.pc = "appoint"
                 PROVE  <<k.d, k.who>> \in doubled' \/ admin'[<<k.d, k.who>>] = 0
      OBVIOUS
    <3>1. k.d \in Boards /\ k.who \in Admins
      BY Kinds DEF Adding
    <3> QED BY <1>1, <1>3, <1>7, <3>1 DEF Fine
  <2>3. k.pc = "remove" => \/ k.d \in doubled' \/ k.d \notin boards'
                           \/ \E a \in Admins \ {k.who} : admin'[<<k.d, a>>] > 0
    <3> SUFFICES ASSUME k.pc = "remove", k.d \notin doubled', k.d \in boards'
                 PROVE  \E a \in Admins \ {k.who} : admin'[<<k.d, a>>] > 0
      OBVIOUS
    <3>1. k.d \in Boards /\ k.d # d /\ k.d \in boards
      BY <1>1, Kinds DEF Deposing
    <3>2. PICK a \in Admins \ {k.who} : admin[<<k.d, a>>] > 0
      BY <1>1, <1>7, <3>1 DEF Fine
    <3>3. admin'[<<k.d, a>>] > 0
      BY <1>4, <3>1, <3>2
    <3> QED BY <3>3
  <2>4. /\ k \in Registering => k.d \notin boards' \cup removed'
        /\ k \in Sharings \cup Adding \cup Deposing => k.d \in boards' \cup removed'
    BY <1>1, <1>7 DEF Fine
  <2> QED BY <1>1, <1>7, <2>1, <2>2, <2>3, <2>4 DEF Fine
<1> QED BY <1>1, <1>5, <1>6, <1>7, OverKeeps

-----------------------------------------------------------------------------
(* Admins *)

LEMMA AppointKeeps ==
  ASSUME SharingInv, NEW j \in Jobs, Appoint(j), begun' = begun
  PROVE  SharingInv'
<1>1. /\ At(j, "appoint") /\ ~ At(j, "erase") /\ mishaps' \in 0 .. MaxMishaps /\ begun' \in 0 .. MaxBegun
      /\ job' = [job EXCEPT ![j] = Over]
      /\ UNCHANGED <<boards, removed, gone, view, wide, viewers, role, torn>>
  BY DEF SharingInv, SharingTypeOK, Appoint, At
<1>2. PICK q \in Adding : q = job[j]
  BY <1>1, AtJob, Kinds DEF At
<1>3. Fine(q) /\ q.d \in Boards /\ q.who \in Admins /\ q.pc = "appoint"
  BY <1>2, AtJob DEF Adding
<1>4. PICK p \in Boards \X Admins : p = <<q.d, q.who>>
  BY <1>3
<1>5. /\ doubled \subseteq doubled'
      /\ (\E i \in Changing(q.d, "appoint") : i # j /\ job[i].who = q.who) => p \in doubled'
      /\ bereft' = IF q.d \in boards /\ {q.u, q.who} \cap gone = {} THEN bereft \ {q.d} ELSE bereft
      /\ IF q.d \in boards /\ {q.u, q.who} \cap gone = {} THEN Give(admin, p) ELSE UNCHANGED admin
  BY <1>2, <1>4 DEF Appoint
<1>6. /\ admin \in [Boards \X Admins -> 0 .. MaxRows]
      /\ admin' \in [Boards \X Admins -> 0 .. MaxRows]
      /\ admin' = admin \/ (q.d \in boards /\ q.who \notin gone /\ admin'[p] = admin[p] + 1)
      /\ bereft' # bereft => admin'[p] = admin[p] + 1
      /\ admin'[p] \in {admin[p], admin[p] + 1}
      /\ \A c \in Boards \X Admins : c # p => admin'[c] = admin[c]
  <2>1. admin \in [Boards \X Admins -> 0 .. MaxRows]
    BY DEF SharingInv, SharingTypeOK, Count
  <2>2. CASE q.d \in boards /\ {q.u, q.who} \cap gone = {}
    <3>1. admin[p] < MaxRows /\ admin' = [admin EXCEPT ![p] = @ + 1]
      BY <1>5, <2>2 DEF Give
    <3>2. admin[p] \in 0 .. MaxRows /\ admin[p] + 1 \in 0 .. MaxRows
      BY <2>1, <3>1, SharingAssumption
    <3> QED BY <2>1, <2>2, <3>1, <3>2
  <2>3. CASE ~ (q.d \in boards /\ {q.u, q.who} \cap gone = {})
    BY <1>5, <2>1, <2>3
  <2> QED BY <2>2, <2>3
<1>7. \A c \in Boards \X Admins : admin[c] > 0 => admin'[c] > 0
  <2> SUFFICES ASSUME NEW c \in Boards \X Admins, admin[c] > 0 PROVE admin'[c] > 0
    OBVIOUS
  <2>1. admin[c] \in 0 .. MaxRows /\ (c = p \/ admin'[c] = admin[c])
    BY <1>6
  <2>2. c = p => admin'[c] = admin[c] \/ admin'[c] = admin[c] + 1
    BY <1>6
  <2> QED BY <2>1, <2>2, SharingAssumption
<1>8. SharingTypeOK'
  <2>1. \A b \in Boards, a \in Admins : admin'[<<b, a>>] > 0 => b \in boards' /\ a \notin gone'
    <3> SUFFICES ASSUME NEW b \in Boards, NEW a \in Admins, admin'[<<b, a>>] > 0
                 PROVE  b \in boards /\ a \notin gone
      BY <1>1
    <3>1. PICK c \in Boards \X Admins : c = <<b, a>>
      OBVIOUS
    <3>2. CASE admin' = admin \/ c # p
      <4>1. admin[<<b, a>>] > 0
        BY <1>6, <3>1, <3>2
      <4> QED BY <4>1 DEF SharingInv, SharingTypeOK
    <3>3. CASE admin' # admin /\ c = p
      BY <1>4, <1>6, <3>1, <3>3
    <3> QED BY <3>2, <3>3
  <2> QED BY <1>1, <1>6, <2>1 DEF SharingInv, SharingTypeOK, Count
<1>9. AccessStaysSound'
  <2>1. \A c \in Boards \X Admins : c \notin doubled' => admin'[c] <= 1
    <3> SUFFICES ASSUME NEW c \in Boards \X Admins, c \notin doubled' PROVE admin'[c] <= 1
      OBVIOUS
    <3>1. c \notin doubled /\ admin[c] <= 1
      BY <1>5, <1>6 DEF SharingInv, AccessStaysSound
    <3>2. c = p => admin[p] = 0
      BY <1>3, <1>4, <3>1 DEF Fine
    <3>3. c = p => admin'[c] = 0 \/ admin'[c] = 1
      BY <1>6, <3>2
    <3>4. c # p => admin'[c] = admin[c]
      BY <1>6
    <3> QED BY <3>1, <3>3, <3>4
  <2>2. \A b \in boards' \ (doubled' \cup bereft') : \E a \in Admins : admin'[<<b, a>>] > 0
    <3> SUFFICES ASSUME NEW b \in boards' \ (doubled' \cup bereft') PROVE \E a \in Admins : admin'[<<b, a>>] > 0
      OBVIOUS
    <3>1. b \in boards \ doubled /\ b \in Boards
      BY <1>1, <1>5 DEF SharingInv, SharingTypeOK
    <3>2. CASE b \notin bereft
      <4>1. PICK a \in Admins : admin[<<b, a>>] > 0
        BY <3>1, <3>2 DEF SharingInv, AccessStaysSound
      <4>2. admin'[<<b, a>>] > 0
        BY <1>7, <3>1, <4>1
      <4> QED BY <4>2
    <3>3. CASE b \in bereft
      <4>1. b = q.d /\ bereft' # bereft
        BY <1>5, <3>3
      <4>2. admin[p] \in 0 .. MaxRows /\ admin'[p] = admin[p] + 1
        BY <1>6, <4>1
      <4> QED BY <1>3, <1>4, <4>1, <4>2, SharingAssumption
    <3> QED BY <3>2, <3>3
  <2> QED BY <1>1, <1>5, <1>6, <2>1, <2>2 DEF SharingInv, AccessStaysSound
<1>10. ASSUME NEW k \in Work, Fine(k), \E i \in Jobs \ {j} : k = job[i] PROVE (Fine(k))'
  <2>1. k.pc = "appoint" => <<k.d, k.who>> \in doubled' \/ admin'[<<k.d, k.who>>] = 0
    <3> SUFFICES ASSUME k.pc = "appoint", <<k.d, k.who>> \notin doubled'
                 PROVE  admin'[<<k.d, k.who>>] = 0
      OBVIOUS
    <3>1. k \in Adding
      BY Kinds
    <3>2. k.d \in Boards /\ k.who \in Admins
      BY <3>1 DEF Adding
    <3>3. PICK c \in Boards \X Admins : c = <<k.d, k.who>>
      BY <3>2
    <3>4. admin[c] = 0
      BY <1>5, <1>10, <3>3 DEF Fine
    <3>5. c # p
      <4> SUFFICES ASSUME c = p PROVE FALSE
        OBVIOUS
      <4>1. PICK i \in Jobs \ {j} : k = job[i]
        BY <1>10
      <4>2. i \in Changing(q.d, "appoint") /\ i # j /\ job[i].who = q.who
        BY <1>4, <3>3, <4>1 DEF Changing, At
      <4> QED BY <1>5, <3>3, <4>2
    <3> QED BY <1>6, <3>3, <3>4, <3>5
  <2>2. k.pc = "remove" => \/ k.d \in doubled' \/ k.d \notin boards'
                           \/ \E a \in Admins \ {k.who} : admin'[<<k.d, a>>] > 0
    <3> SUFFICES ASSUME k.pc = "remove", k.d \notin doubled', k.d \in boards'
                 PROVE  \E a \in Admins \ {k.who} : admin'[<<k.d, a>>] > 0
      OBVIOUS
    <3>1. k.d \in Boards /\ k.d \notin doubled /\ k.d \in boards
      BY <1>1, <1>5, Kinds DEF Deposing
    <3>2. PICK a \in Admins \ {k.who} : admin[<<k.d, a>>] > 0
      BY <1>10, <3>1 DEF Fine
    <3>3. admin'[<<k.d, a>>] > 0
      BY <1>7, <3>1, <3>2
    <3> QED BY <3>3
  <2> QED BY <1>1, <1>5, <1>10, <2>1, <2>2 DEF Fine
<1> QED BY <1>1, <1>8, <1>9, <1>10, OverKeeps

LEMMA RemoveAdminKeeps ==
  ASSUME SharingInv, NEW j \in Jobs, RemoveAdmin(j), begun' = begun
  PROVE  SharingInv'
<1>1. /\ At(j, "remove") /\ ~ At(j, "erase") /\ mishaps' \in 0 .. MaxMishaps /\ begun' \in 0 .. MaxBegun
      /\ job' = [job EXCEPT ![j] = Over]
      /\ UNCHANGED <<boards, removed, gone, view, wide, viewers, role, torn, bereft>>
  BY DEF SharingInv, SharingTypeOK, RemoveAdmin, Go, At
<1>2. PICK q \in Deposing : q = job[j]
  BY <1>1, AtJob, Kinds DEF At
<1>3. Fine(q) /\ q.d \in Boards /\ q.who \in Admins /\ q.pc = "remove"
  BY <1>2, AtJob DEF Deposing
<1>4. PICK p \in Boards \X Admins : p = <<q.d, q.who>>
  BY <1>3
<1>5. /\ doubled \subseteq doubled'
      /\ Changing(q.d, "remove") # {j} => q.d \in doubled'
      /\ admin' = IF admin[p] = 1 THEN [admin EXCEPT ![p] = 0] ELSE admin
  BY <1>2, <1>4 DEF RemoveAdmin
<1>6. /\ admin \in [Boards \X Admins -> 0 .. MaxRows]
      /\ admin' \in [Boards \X Admins -> 0 .. MaxRows]
      /\ \A c \in Boards \X Admins : admin'[c] = admin[c] \/ admin'[c] = 0
      /\ \A c \in Boards \X Admins : c # p => admin'[c] = admin[c]
  BY <1>5, SharingAssumption DEF SharingInv, SharingTypeOK, Count
<1>7. SharingTypeOK'
  <2>1. \A b \in Boards, a \in Admins : admin'[<<b, a>>] > 0 => b \in boards' /\ a \notin gone'
    <3> SUFFICES ASSUME NEW b \in Boards, NEW a \in Admins, admin'[<<b, a>>] > 0
                 PROVE  b \in boards /\ a \notin gone
      BY <1>1
    <3>1. admin[<<b, a>>] > 0
      BY <1>6
    <3> QED BY <3>1 DEF SharingInv, SharingTypeOK
  <2> QED BY <1>1, <1>6, <2>1 DEF SharingInv, SharingTypeOK, Count
<1>8. AccessStaysSound'
  <2>1. \A c \in Boards \X Admins : c \notin doubled' => admin'[c] <= 1
    <3> SUFFICES ASSUME NEW c \in Boards \X Admins, c \notin doubled' PROVE admin'[c] <= 1
      OBVIOUS
    <3>1. admin[c] <= 1
      BY <1>5, <1>6 DEF SharingInv, AccessStaysSound
    <3>2. admin'[c] = admin[c] \/ admin'[c] = 0
      BY <1>6
    <3> QED BY <3>1, <3>2
  <2>2. \A b \in boards' \ (doubled' \cup bereft') : \E a \in Admins : admin'[<<b, a>>] > 0
    <3> SUFFICES ASSUME NEW b \in boards' \ (doubled' \cup bereft') PROVE \E a \in Admins : admin'[<<b, a>>] > 0
      OBVIOUS
    <3>1. b \in boards \ (doubled \cup bereft) /\ b \in Boards
      BY <1>1, <1>5 DEF SharingInv, SharingTypeOK
    <3>2. PICK a \in Admins : admin[<<b, a>>] > 0 /\ (b = q.d => a # q.who)
      <4>1. CASE b = q.d
        BY <1>3, <3>1, <4>1 DEF Fine
      <4>2. CASE b # q.d
        BY <3>1, <4>2 DEF SharingInv, AccessStaysSound
      <4> QED BY <4>1, <4>2
    <3>3. PICK c \in Boards \X Admins : c = <<b, a>>
      BY <3>1
    <3>4. c # p
      BY <1>4, <3>2, <3>3
    <3> QED BY <1>6, <3>2, <3>3, <3>4
  <2> QED BY <1>1, <1>5, <1>6, <2>1, <2>2 DEF SharingInv, AccessStaysSound
<1>9. ASSUME NEW k \in Work, Fine(k), \E i \in Jobs \ {j} : k = job[i] PROVE (Fine(k))'
  <2>1. k.pc = "appoint" => <<k.d, k.who>> \in doubled' \/ admin'[<<k.d, k.who>>] = 0
    <3> SUFFICES ASSUME k.pc = "appoint" PROVE <<k.d, k.who>> \in doubled' \/ admin'[<<k.d, k.who>>] = 0
      OBVIOUS
    <3>1. k.d \in Boards /\ k.who \in Admins
      BY Kinds DEF Adding
    <3>2. PICK c \in Boards \X Admins : c = <<k.d, k.who>>
      BY <3>1
    <3>3. c \in doubled \/ admin[c] = 0
      BY <1>9, <3>2 DEF Fine
    <3>4. admin'[c] = admin[c] \/ admin'[c] = 0
      BY <1>6
    <3> QED BY <1>5, <3>2, <3>3, <3>4
  <2>2. k.pc = "remove" => \/ k.d \in doubled' \/ k.d \notin boards'
                           \/ \E a \in Admins \ {k.who} : admin'[<<k.d, a>>] > 0
    <3> SUFFICES ASSUME k.pc = "remove", k.d \notin doubled', k.d \in boards'
                 PROVE  \E a \in Admins \ {k.who} : admin'[<<k.d, a>>] > 0
      OBVIOUS
    <3>1. k.d \in Boards /\ k.d \notin doubled /\ k.d \in boards
      BY <1>1, <1>5, Kinds DEF Deposing
    <3>2. k.d # q.d
      <4> SUFFICES ASSUME k.d = q.d PROVE FALSE
        OBVIOUS
      <4>1. PICK i \in Jobs \ {j} : k = job[i]
        BY <1>9
      <4>2. i \in Changing(q.d, "remove")
        BY <4>1 DEF Changing, At
      <4> QED BY <1>5, <4>2
    <3>3. PICK a \in Admins \ {k.who} : admin[<<k.d, a>>] > 0
      BY <1>9, <3>1 DEF Fine
    <3>4. PICK c \in Boards \X Admins : c = <<k.d, a>>
      BY <3>1
    <3>5. c # p
      BY <1>4, <3>2, <3>4
    <3> QED BY <1>6, <3>3, <3>4, <3>5
  <2> QED BY <1>1, <1>5, <1>9, <2>1, <2>2 DEF Fine
<1> QED BY <1>1, <1>7, <1>8, <1>9, OverKeeps

LEMMA RemoveUserKeeps ==
  ASSUME SharingInv, NEW j \in Jobs, begun' \in 0 .. MaxBegun, NEW u \in Admins, RemoveUser(j, u)
  PROVE  SharingInv'
<1> DEFINE managed == {d \in Boards : admin[<<d, u>>] > 0}
<1>1. /\ ~ At(j, "erase") /\ mishaps' \in 0 .. MaxMishaps /\ job' = [job EXCEPT ![j] = Over]
      /\ UNCHANGED <<boards, removed, view, wide, viewers, role, torn>>
      /\ gone' = gone \cup {u} /\ admin' = Without(admin, Boards \X {u})
      /\ bereft' = bereft \cup {d \in managed : \A a \in Admins : admin'[<<d, a>>] = 0}
      /\ doubled' = doubled \cup {d \in managed : Changing(d, "remove") # {}}
  BY DEF SharingInv, SharingTypeOK, RemoveUser, Go, At
<1>2. /\ admin \in [Boards \X Admins -> 0 .. MaxRows]
      /\ admin' \in [Boards \X Admins -> 0 .. MaxRows]
      /\ \A d \in Boards, a \in Admins : admin'[<<d, a>>] = IF a = u THEN 0 ELSE admin[<<d, a>>]
      /\ \A p \in Boards \X Admins : admin'[p] = admin[p] \/ admin'[p] = 0
  BY <1>1, SharingAssumption DEF SharingInv, SharingTypeOK, Count, Without
<1> HIDE DEF managed
<1>3. SharingTypeOK'
  <2>1. \A b \in Boards, a \in Admins : admin'[<<b, a>>] > 0 => b \in boards' /\ a \notin gone'
    <3> SUFFICES ASSUME NEW b \in Boards, NEW a \in Admins, admin'[<<b, a>>] > 0
                 PROVE  b \in boards /\ a \notin gone'
      BY <1>1
    <3>1. a # u /\ admin[<<b, a>>] > 0
      BY <1>2
    <3>2. b \in boards /\ a \notin gone
      BY <3>1 DEF SharingInv, SharingTypeOK
    <3> QED BY <1>1, <3>1, <3>2
  <2>2. gone' \subseteq Admins
    BY <1>1 DEF SharingInv, SharingTypeOK
  <2> QED BY <1>1, <1>2, <2>1, <2>2 DEF SharingInv, SharingTypeOK, Count
<1>4. AccessStaysSound'
  <2>1. \A p \in DOMAIN admin' \ doubled' : admin'[p] <= 1
    <3> SUFFICES ASSUME NEW p \in Boards \X Admins, p \notin doubled' PROVE admin'[p] <= 1
      BY <1>2
    <3>1. admin[p] <= 1
      BY <1>1, <1>2 DEF SharingInv, AccessStaysSound
    <3> QED BY <1>2, <3>1
  <2>2. \A b \in boards' \ (doubled' \cup bereft') : \E a \in Admins : admin'[<<b, a>>] > 0
    <3> SUFFICES ASSUME NEW b \in boards' \ (doubled' \cup bereft')
                 PROVE  \E a \in Admins : admin'[<<b, a>>] > 0
      OBVIOUS
    <3>1. b \in boards \ (doubled \cup bereft) /\ b \in Boards
      BY <1>1 DEF SharingInv, SharingTypeOK
    <3>2. PICK a \in Admins : admin[<<b, a>>] > 0
      BY <3>1 DEF SharingInv, AccessStaysSound
    <3>3. CASE a # u
      BY <1>2, <3>1, <3>2, <3>3
    <3>4. CASE a = u
      <4>1. b \in managed
        BY <3>1, <3>2, <3>4 DEF managed
      <4>2. PICK c \in Admins : admin'[<<b, c>>] # 0
        BY <1>1, <4>1
      <4>3. admin'[<<b, c>>] \in 0 .. MaxRows
        BY <1>2, <3>1
      <4> QED BY <4>2, <4>3, SharingAssumption
    <3> QED BY <3>3, <3>4
  <2> QED BY <1>1, <2>1, <2>2 DEF SharingInv, AccessStaysSound
<1>5. ASSUME NEW k \in Work, Fine(k), \E i \in Jobs \ {j} : k = job[i] PROVE (Fine(k))'
  <2>1. k.pc = "appoint" => <<k.d, k.who>> \in doubled' \/ admin'[<<k.d, k.who>>] = 0
    <3> SUFFICES ASSUME k.pc = "appoint"
                 PROVE  <<k.d, k.who>> \in doubled' \/ admin'[<<k.d, k.who>>] = 0
      OBVIOUS
    <3>1. k.d \in Boards /\ k.who \in Admins
      BY Kinds DEF Adding
    <3> QED BY <1>1, <1>2, <1>5, <3>1 DEF Fine
  <2>2. k.pc = "remove" => \/ k.d \in doubled' \/ k.d \notin boards'
                           \/ \E a \in Admins \ {k.who} : admin'[<<k.d, a>>] > 0
    <3> SUFFICES ASSUME k.pc = "remove", k.d \notin doubled', k.d \in boards'
                 PROVE  \E a \in Admins \ {k.who} : admin'[<<k.d, a>>] > 0
      OBVIOUS
    <3>1. k.d \in Boards
      BY Kinds DEF Deposing
    <3>2. PICK a \in Admins \ {k.who} : admin[<<k.d, a>>] > 0
      BY <1>1, <1>5 DEF Fine
    <3>3. Changing(k.d, "remove") # {}
      BY <1>5 DEF Changing, At
    <3>4. k.d \notin managed
      BY <1>1, <3>3
    <3>5. a # u
      BY <3>1, <3>2, <3>4 DEF managed
    <3> QED BY <1>2, <3>1, <3>2, <3>5
  <2>3. k.pc = "grant" => <<k.d, k.email>> \in doubled' \/ view'[<<k.d, k.email>>] = 0
    BY <1>1, <1>5 DEF Fine
  <2> QED BY <1>1, <1>5, <2>1, <2>2, <2>3 DEF Fine
<1> QED BY <1>1, <1>3, <1>4, <1>5, OverKeeps

-----------------------------------------------------------------------------
(* The task *)

LEMMA PruneNextKeeps ==
  ASSUME SharingInv, NEW j \in Jobs, PruneNext(j), begun' = begun
  PROVE  SharingInv'
<1>1. /\ At(j, "pick") /\ ~ At(j, "erase") /\ mishaps' \in 0 .. MaxMishaps /\ begun' \in 0 .. MaxBegun
      /\ UNCHANGED <<boards, removed, gone, access, viewers, role, ghosts>>
  BY DEF SharingInv, SharingTypeOK, PruneNext, At
<1>2. PICK q \in Pruning : q = job[j]
  BY <1>1, AtJob, Kinds DEF At
<1>3. /\ Fine(q) /\ Given(q) /\ q.todo \subseteq viewers /\ viewers \subseteq Emails
      /\ \A i \in Jobs \ {j} : Apart(q, job[i])
  BY <1>2, AtJob DEF Fine, SharingInv, SharingTypeOK
<1>4. CASE job' = [job EXCEPT ![j] = Over]
  BY <1>1, <1>4, StopsKeeps
<1>5. ASSUME NEW e \in q.todo, job' = [job EXCEPT ![j] = [q EXCEPT !.pc = "unrole", !.email = e, !.todo = @ \ {e}]]
      PROVE  SharingInv'
  <2>1. PICK T : T = q.todo \ {e}
    OBVIOUS
  <2>2. PICK r : r = [q EXCEPT !.pc = "unrole", !.email = e, !.todo = T]
    OBVIOUS
  <2>3. T \subseteq viewers /\ e \in viewers \ T /\ T \subseteq Emails /\ e \in Emails
    BY <1>3, <1>5, <2>1
  <2>4. r \in Pruning /\ r.pc = "unrole" /\ r.email = e /\ r.todo = T
    BY <2>2, <2>3 DEF Pruning
  <2>5. r \in {Over} \cup Work /\ r \notin Registering \cup Sharings \cup Adding \cup Deposing
    BY <2>4 DEF Work, Registering, Sharings, Adding, Deposing, Pruning
  <2>6. Fine(r) /\ Given(r) /\ \A i \in Jobs \ {j} : Apart(r, job[i])
    BY <1>3, <2>3, <2>4, <2>5 DEF Fine, Given, Apart
  <2>7. job' = [job EXCEPT ![j] = r]
    BY <1>5, <2>1, <2>2
  <2> QED BY <1>1, <2>5, <2>6, <2>7, MovesOn
<1> QED BY <1>2, <1>4, <1>5 DEF PruneNext, Go

LEMMA RemoveRoleKeeps ==
  ASSUME SharingInv, NEW j \in Jobs, RemoveRole(j), begun' = begun
  PROVE  SharingInv'
<1>1. /\ At(j, "unrole") /\ mishaps' \in 0 .. MaxMishaps /\ begun' \in 0 .. MaxBegun
      /\ UNCHANGED <<boards, removed, gone, access, viewers, ghosts, torn>>
      /\ role' = role \ {job[j].email}
      /\ job' = [job EXCEPT ![j] = [job[j] EXCEPT !.pc = "erase"]]
  BY DEF SharingInv, SharingTypeOK, RemoveRole, To, Go, At, ghosts
<1>2. PICK q \in Pruning : q = job[j]
  BY <1>1, AtJob, Kinds DEF At
<1>3. /\ Fine(q) /\ Given(q) /\ q.pc = "unrole"
      /\ \A i \in Jobs \ {j} : Apart(q, job[i])
  BY <1>1, <1>2, AtJob DEF At
<1>4. PICK r : r = [q EXCEPT !.pc = "erase"]
  OBVIOUS
<1>5. /\ r \in Pruning /\ r.pc = "erase" /\ r.email = q.email /\ r.todo = q.todo
      /\ job' = [job EXCEPT ![j] = r]
  BY <1>1, <1>2, <1>4 DEF Pruning
<1>6. r \in {Over} \cup Work /\ r \notin Registering \cup Sharings \cup Adding \cup Deposing
  BY <1>5 DEF Work, Registering, Sharings, Adding, Deposing, Pruning
<1>7. job'[j] = r /\ \A i \in Jobs \ {j} : job'[i] = job[i]
  BY <1>5 DEF SharingInv
<1>8. \A e : Looks(e) => (Looks(e))'
  <2> SUFFICES ASSUME NEW e, Looks(e) PROVE (Looks(e))'
    OBVIOUS
  <2>1. CASE e = q.email
    BY <1>5, <1>7, <2>1 DEF Looks, At
  <2>2. CASE e # q.email
    <3>1. e \in role \cup torn => e \in role' \cup torn'
      BY <1>1, <1>2, <2>2
    <3>2. \A i \in Jobs : At(i, "erase") /\ job[i].email = e => i # j /\ (At(i, "erase"))' /\ job'[i].email = e
      BY <1>2, <1>3, <1>7 DEF At
    <3> QED BY <3>1, <3>2 DEF Looks
  <2> QED BY <2>1, <2>2
<1>9. \A k : Fine(k) => (Fine(k))'
  <2>1. UNCHANGED <<boards, removed, gone, admin, view, viewers, doubled, bereft>>
    BY <1>1 DEF access, ghosts
  <2> QED BY <2>1 DEF Fine
<1>10. \A k : Given(k) => (Given(k))'
  BY <1>8 DEF Given
<1>11. Fine(r) /\ Given(r) /\ \A i \in Jobs \ {j} : Apart(r, job[i])
  BY <1>3, <1>5, <1>6 DEF Fine, Given, Apart
<1>12. ASSUME NEW i \in Jobs \ {j} PROVE (Fine(job[i]))' /\ (Given(job[i]))'
  <2>1. PICK k : k = job[i]
    OBVIOUS
  <2>2. (Fine(k))' /\ (Given(k))'
    BY <1>9, <1>10, <2>1, AtJob
  <2> QED BY <1>7, <2>1, <2>2
<1>13. SharingTypeOK' /\ AccessStaysSound' /\ \A e \in viewers' : (Looks(e))'
  BY <1>1, <1>8 DEF SharingInv, SharingTypeOK, AccessStaysSound, access, ghosts, Count
<1> QED BY <1>5, <1>6, <1>9, <1>10, <1>11, <1>12, <1>13, OneMoves

\* A viewer's row is erased: whoever is about to insert it again is noted.
LEMMA EraseViewerKeeps ==
  ASSUME SharingInv, NEW j \in Jobs, EraseViewer(j), begun' = begun
  PROVE  SharingInv'
<1>1. /\ At(j, "erase") /\ mishaps' \in 0 .. MaxMishaps /\ begun' \in 0 .. MaxBegun
      /\ UNCHANGED <<boards, removed, gone, admin, wide, role, doubled, bereft>>
      /\ job' = [job EXCEPT ![j] = [job[j] EXCEPT !.pc = "pick"]]
  BY DEF SharingInv, SharingTypeOK, EraseViewer, To, Go, At
<1>2. PICK q \in Pruning : q = job[j]
  BY <1>1, AtJob, Kinds DEF At
<1>3. /\ Fine(q) /\ Given(q) /\ q.pc = "erase" /\ q.email \in viewers \ q.todo /\ q.todo \subseteq viewers
      /\ viewers \subseteq Emails /\ \A i \in Jobs \ {j} : Apart(q, job[i])
  BY <1>1, <1>2, AtJob DEF At, Fine, SharingInv, SharingTypeOK
<1>4. /\ viewers' = viewers \ {q.email} /\ view' = Without(view, Boards \X {q.email})
      /\ torn \ {q.email} \subseteq torn' /\ torn' \subseteq torn \cup {q.email}
      /\ (\E i \in Jobs : At(i, "insert") /\ job[i].email = q.email) => q.email \in torn'
  BY <1>2 DEF EraseViewer
<1>5. PICK r : r = [q EXCEPT !.pc = "pick"]
  OBVIOUS
<1>6. /\ r \in Pruning /\ r.pc = "pick" /\ r.email = q.email /\ r.todo = q.todo
      /\ job' = [job EXCEPT ![j] = r]
  BY <1>1, <1>2, <1>5 DEF Pruning
<1>7. r \in {Over} \cup Work /\ r \notin Registering \cup Sharings \cup Adding \cup Deposing
  BY <1>6 DEF Work, Registering, Sharings, Adding, Deposing, Pruning
<1>8. job'[j] = r /\ \A i \in Jobs \ {j} : job'[i] = job[i]
  BY <1>6 DEF SharingInv
<1>9. /\ view \in [Boards \X Emails -> 0 .. MaxRows]
      /\ view' \in [Boards \X Emails -> 0 .. MaxRows]
      /\ \A d \in Boards, e \in Emails : view'[<<d, e>>] = IF e = q.email THEN 0 ELSE view[<<d, e>>]
      /\ \A p \in Boards \X Emails : view'[p] = view[p] \/ view'[p] = 0
  BY <1>4, SharingAssumption DEF SharingInv, SharingTypeOK, Count, Without
<1>10. \A e : e # q.email /\ Looks(e) => (Looks(e))'
  <2> SUFFICES ASSUME NEW e, e # q.email, Looks(e) PROVE (Looks(e))'
    OBVIOUS
  <2>1. e \in role \cup torn => e \in role' \cup torn'
    BY <1>1, <1>4
  <2>2. \A i \in Jobs : At(i, "erase") /\ job[i].email = e => i # j /\ (At(i, "erase"))' /\ job'[i].email = e
    BY <1>2, <1>8 DEF At
  <2> QED BY <2>1, <2>2 DEF Looks
<1>11. SharingTypeOK'
  <2>1. \A d \in Boards, e \in Emails : view'[<<d, e>>] > 0 => d \in boards' /\ e \in viewers'
    <3> SUFFICES ASSUME NEW d \in Boards, NEW e \in Emails, view'[<<d, e>>] > 0
                 PROVE  d \in boards' /\ e \in viewers'
      OBVIOUS
    <3>1. e # q.email /\ view[<<d, e>>] > 0
      BY <1>9
    <3>2. d \in boards /\ e \in viewers
      BY <3>1 DEF SharingInv, SharingTypeOK
    <3> QED BY <1>1, <1>4, <3>1, <3>2
  <2>2. torn' \subseteq Emails /\ viewers' \subseteq Emails
    BY <1>3, <1>4 DEF SharingInv, SharingTypeOK
  <2> QED BY <1>1, <1>9, <2>1, <2>2 DEF SharingInv, SharingTypeOK, Count
<1>12. AccessStaysSound'
  <2>1. \A p \in DOMAIN view' \ doubled' : view'[p] <= 1
    <3> SUFFICES ASSUME NEW p \in Boards \X Emails, p \notin doubled' PROVE view'[p] <= 1
      BY <1>9
    <3>1. view[p] <= 1
      BY <1>1, <1>9 DEF SharingInv, AccessStaysSound
    <3> QED BY <1>9, <3>1
  <2> QED BY <1>1, <2>1 DEF SharingInv, AccessStaysSound
<1>13. \A e \in viewers' : (Looks(e))'
  BY <1>4, <1>10 DEF SharingInv
<1>14. (Fine(r))' /\ (Given(r))' /\ \A i \in Jobs \ {j} : Apart(r, job[i])
  BY <1>2, <1>3, <1>4, <1>6, <1>7 DEF Fine, Given, Apart
<1>15. ASSUME NEW i \in Jobs \ {j} PROVE (Fine(job[i]))' /\ (Given(job[i]))'
  <2>1. PICK k \in {Over} \cup Work : k = job[i]
    BY AtJob
  <2>2. Fine(k) /\ Given(k) /\ k \notin Pruning
    BY <1>2, <1>3, <2>1, AtJob DEF Apart
  <2>3. k.pc = "grant" => <<k.d, k.email>> \in doubled' \/ view'[<<k.d, k.email>>] = 0
    <3> SUFFICES ASSUME k.pc = "grant"
                 PROVE  <<k.d, k.email>> \in doubled' \/ view'[<<k.d, k.email>>] = 0
      OBVIOUS
    <3>1. k.d \in Boards /\ k.email \in Emails
      BY <2>2, Kinds DEF Fine, Sharings
    <3> QED BY <1>1, <1>9, <2>2, <3>1 DEF Fine
  <2>4. (Fine(k))'
    BY <1>1, <1>4, <2>2, <2>3 DEF Fine
  <2>5. (Given(k))'
    <3>1. k \in Registering => \A e \in k.fresh : (Looks(e))'
      BY <1>3, <1>10, <2>2 DEF Fine, Given
    <3>2. k.pc = "insert" => (Looks(k.email))'
      <4>1. k.pc = "insert" /\ k.email = q.email => q.email \in torn'
        BY <1>4, <2>1 DEF At
      <4> QED BY <1>10, <2>2, <4>1 DEF Given, Looks
    <3> QED BY <3>1, <3>2 DEF Given
  <2> QED BY <1>8, <2>1, <2>4, <2>5
<1> QED BY <1>6, <1>7, <1>11, <1>12, <1>13, <1>14, <1>15, OneMoves

-----------------------------------------------------------------------------
LEMMA SharingStart == SharingInit => SharingInv
<1> SUFFICES ASSUME SharingInit PROVE SharingInv
  OBVIOUS
<1>1. /\ 0 \in 0 .. MaxRows /\ 0 \in 0 .. MaxBegun /\ 0 \in 0 .. MaxMishaps
  BY SharingAssumption
<1>2. SharingTypeOK
  BY <1>1 DEF SharingInit, SharingTypeOK, Count
<1>3. job \in [Jobs -> {Over} \cup Work] /\ \A j \in Jobs : job[j] = Over
  BY DEF SharingInit, Over
<1>4. AccessStaysSound /\ \A e \in viewers : Looks(e)
  BY DEF SharingInit, AccessStaysSound
<1> QED BY <1>2, <1>3, <1>4, OverIsFine DEF SharingInv

LEMMA SharingStep == SharingInv /\ [SharingNext]_sharingVars => SharingInv'
<1> SUFFICES ASSUME SharingInv, [SharingNext]_sharingVars PROVE SharingInv'
  OBVIOUS
<1>1. CASE UNCHANGED sharingVars
  <2>1. UNCHANGED <<boards, removed, gone, admin, view, wide, viewers, role, job, begun, mishaps, torn, doubled, bereft>>
    BY <1>1 DEF sharingVars
  <2>2. /\ \A e : Looks(e) => (Looks(e))'
        /\ SharingTypeOK' /\ AccessStaysSound'
    BY <2>1 DEF Looks, At, SharingInv, SharingTypeOK, AccessStaysSound, Count
  <2>3. \A k : (Fine(k) => (Fine(k))') /\ (Given(k) => (Given(k))')
    BY <2>1, <2>2 DEF Fine, Given
  <2>4. \A j \in Jobs : (Fine(job[j]))' /\ (Given(job[j]))'
    <3> SUFFICES ASSUME NEW j \in Jobs PROVE (Fine(job[j]))' /\ (Given(job[j]))'
      OBVIOUS
    <3>1. PICK k : k = job[j]
      OBVIOUS
    <3>2. (Fine(k))' /\ (Given(k))' /\ job'[j] = k
      BY <2>1, <2>3, <3>1, AtJob
    <3> QED BY <3>2
  <2> QED BY <2>1, <2>2, <2>4 DEF SharingInv
<1>2. ASSUME NEW j \in Jobs, Begins(j) PROVE SharingInv'
  <2>1. begun' \in 0 .. MaxBegun
    BY <1>2, SharingAssumption DEF Begins, SharingInv, SharingTypeOK
  <2>2. {{}} \cup {{m} : m \in Domains} \subseteq SUBSET Domains
    OBVIOUS
  <2>3. CASE StartPrune(j)
    BY <2>1, <2>3, StartPruneKeeps
  <2>4. ASSUME NEW d \in Boards, NEW u \in Admins \cup Superusers, NEW emails \in SUBSET Emails,
               \/ Share(j, d, u, emails)
               \/ u \in Admins /\ \E domains \in SUBSET Domains : Register(j, d, u, emails, domains)
        PROVE  SharingInv'
    BY <2>1, <2>4, AccessRequestsKeep
  <2>5. ASSUME NEW d \in Boards, NEW u \in Admins \cup Superusers, NEW e \in Emails, RevokeViewer(j, d, u, e)
        PROVE  SharingInv'
    BY <2>1, <2>5, RevokeViewerKeeps
  <2>6. ASSUME NEW d \in Boards, NEW u \in Admins \cup Superusers, NEW m \in Domains,
               GrantDomain(j, d, u, m) \/ RevokeDomain(j, d, u, m)
        PROVE  SharingInv'
    BY <2>1, <2>6, DomainKeeps
  <2>7. ASSUME NEW d \in Boards, NEW u \in Admins \cup Superusers, NEW who \in Admins,
               AddAdmin(j, d, u, who) \/ Depose(j, d, u, who)
        PROVE  SharingInv'
    BY <2>1, <2>7, AdminRequestsKeep
  <2>8. ASSUME NEW d \in Boards, NEW u \in Admins \cup Superusers, DeleteBoard(j, d, u) PROVE SharingInv'
    BY <2>1, <2>8, DeleteBoardKeeps
  <2>9. ASSUME NEW u \in Admins, RemoveUser(j, u) PROVE SharingInv'
    BY <2>1, <2>9, RemoveUserKeeps
  <2> QED BY <1>2, <2>2, <2>3, <2>4, <2>5, <2>6, <2>7, <2>8, <2>9 DEF Begins
<1>3. ASSUME NEW j \in Jobs, GoesOn(j) PROVE SharingInv'
  <2>1. begun' = begun
    BY <1>3 DEF GoesOn
  <2> QED BY <1>3, <2>1, NextEmailKeeps, GiveRoleKeeps, InsertViewerKeeps, LookForAccessKeeps,
             GrantAccessKeeps, ShareDoneKeeps, CommitRegisterKeeps, AppointKeeps, RemoveAdminKeeps,
             PruneNextKeeps, RemoveRoleKeeps, EraseViewerKeeps, MishapKeeps DEF GoesOn
<1> QED BY <1>1, <1>2, <1>3 DEF SharingNext

LEMMA SharingKeeps == SharingSpec => []SharingInv
<1> QED BY SharingStart, SharingStep, PTL DEF SharingSpec

\* An address a dashboard is shared with has the Auth0 role that lets it look,
\* unless it is being pruned, or a run of prune_dashboard_viewers ended between
\* role and row, or erased a viewer that a request had just looked for.
THEOREM EveryViewerLooks == SharingSpec => []ViewersHaveRole
<1>1. SharingInv => ViewersHaveRole
  <2> SUFFICES ASSUME SharingInv, NEW d \in Boards, NEW e \in Emails, view[<<d, e>>] > 0
               PROVE  Looks(e)
    BY DEF ViewersHaveRole, Looks
  <2>1. e \in viewers
    BY DEF SharingInv, SharingTypeOK
  <2> QED BY <2>1 DEF SharingInv
<1> QED BY <1>1, SharingKeeps, PTL

\* Every registered dashboard has an admin, unless the last one was deleted as a
\* user and has no successor; and nobody is its admin or viewer twice; but for
\* what two requests changed at once (RevokeDashboardAdmin, UserDelete,
\* AddDashboardAdmin, DashboardViewerAccess.get_or_create).
THEOREM AccessSound == SharingSpec => []AccessStaysSound
<1>1. SharingInv => AccessStaysSound
  BY DEF SharingInv
<1> QED BY <1>1, SharingKeeps, PTL

\* The rows of dashboards, viewers and their access are of their types, and
\* access is to registered dashboards and for viewers with a row only.
THEOREM SharingTyped == SharingSpec => []SharingTypeOK
<1>1. SharingInv => SharingTypeOK
  BY DEF SharingInv
<1> QED BY <1>1, SharingKeeps, PTL

-----------------------------------------------------------------------------
(***************************************************************************)
(* UserAccount                                                             *)
(***************************************************************************)

Rows == [here : BOOLEAN, super : BOOLEAN, bedrock : BOOLEAN]
Making == {"role", "attach", "bootstrap", "provision"}
Saving == Making \cup {"check", "write"}

Operations == {"signIn", "touch", "super", "bedrock", "quicksight", "reinit", "clean", "delete"}
Calls == Saving \cup {"group", "policy", "legacy", "author", "permAuthor", "reader", "permReader",
                      "uninstall", "dropRole", "dropRow"}
Arguments == BOOLEAN \cup SUBSET (Grades \cup {"legacy"})

\* The calls of each operation, and what it is asked for.
Fits(r) ==
  /\ r.op # "signIn" => r.copy.here
  /\ r.op = "signIn" => r.pc \in Making \cup {"write"}
  /\ r.op = "touch" => r.pc \in Saving
  /\ r.op = "super" => r.pc \in Saving \cup {"group"} /\ r.arg \in BOOLEAN
  /\ r.op = "bedrock" => r.pc \in Saving \cup {"policy"} /\ r.arg \in BOOLEAN
  /\ r.op = "quicksight" => /\ r.pc \in {"legacy", "author", "permAuthor", "reader", "permReader"}
                            /\ r.arg \subseteq Grades \cup {"legacy"}
  /\ r.op = "reinit" => r.pc \in Making
  /\ r.op = "clean" => r.pc = "uninstall"
  /\ r.op = "delete" => r.pc \in {"dropRole", "uninstall", "dropRow"}

Records == [pc : Calls, op : Operations, arg : Arguments, copy : Rows, had : SUBSET Grades, fresh : {FALSE}]
Requests == {r \in Records : Fits(r)}

\* A request that overlaps with no other is the only one.
Alone == \A s, t \in Slots : Busy(s) /\ single[s] /\ t # s => ~ Busy(t)

\* A role without its base policies is half made, or is being made.
HasBase == "base" \in iam.attached \/ half
BaseKept == iam.made => HasBase \/ \E s \in Slots : req[s].pc = "attach"

\* Permission and group of a grade agree, but for one request between the two.
Agree(g) == g \in member <=> g \in perm
GroupsKept == \A g \in Grades : g \in strayed \/ Agree(g) \/ \E s \in Slots : req[s].pc = PermOf(g)

\* What a request alone has done so far.
Placed(r, g) == g \in member <=> g \in r.arg
Settled(r, g) == (g \in perm <=> g \in r.arg) /\ (g \in strayed \/ Placed(r, g))

MadeSoFar(r) ==
  /\ r.pc \in {"bootstrap", "provision", "write"} => iam.made /\ HasBase
  /\ r.pc \in {"provision", "write"} => "bootstrap" \in charts
  /\ r.pc = "write" => "provision" \in charts

GradedSoFar(r) ==
  /\ r.pc \in {"legacy", "author", "permAuthor"} => perm = r.had
  /\ r.pc = "permAuthor" => Placed(r, "author")
  /\ r.pc \in {"reader", "permReader"} =>
       /\ "reader" \in perm <=> "reader" \in r.had
       /\ r.copy.super \/ Settled(r, "author")
  /\ r.pc = "permReader" => Placed(r, "reader")

Standing(r) ==
  /\ r.copy = account
  /\ account.here <=> r.op # "signIn"
  /\ r.op \in {"signIn", "reinit"} => MadeSoFar(r)
  /\ r.op = "touch" => r.pc \in {"check", "write"}
  /\ r.op = "super" => /\ r.pc \in {"group", "check", "write"}
                       /\ r.pc # "group" => ("author" \in member <=> r.arg)
  /\ r.op = "bedrock" => /\ r.pc \in {"policy", "check", "write"}
                         /\ r.pc # "policy" => ("bedrock" \in iam.attached <=> r.arg)
  /\ r.op = "quicksight" => GradedSoFar(r)
  /\ r.op = "delete" => /\ r.pc # "dropRole" => iam = NoRole
                        /\ r.pc = "dropRow" => charts = {}

AllStand == \A s \in Slots : Busy(s) /\ single[s] => Standing(req[s])

\* What was promised stands: nothing has begun since.
Promised == promised # Unsaid => SinglesDeliver /\ \A s \in Slots : ~ Busy(s)

AccountInv ==
  /\ AccountTypeOK /\ req \in [Slots -> {Free} \cup Requests]
  /\ Alone /\ BaseKept /\ GroupsKept /\ AllStand /\ Promised

LEMMA SlotFields ==
  ASSUME AccountInv, NEW s \in Slots
  PROVE  /\ Busy(s) => /\ req[s] \in Records /\ Fits(req[s]) /\ req[s] # Free /\ promised = Unsaid
                       /\ \A t \in Slots \ {s} : single[s] => ~ Busy(t)
                       /\ single[s] => Standing(req[s])
         /\ ~ Busy(s) => req[s] = Free
<1>1. req[s] \in {Free} \cup Requests
  BY DEF AccountInv
<1>2. Busy(s) => req[s] # Free
  BY DEF Busy, Free
<1>3. req[s] \in Requests => Busy(s)
  BY DEF Requests, Records, Calls, Saving, Making, Busy
<1>4. req[s] \in Requests => req[s] \in Records /\ Fits(req[s])
  BY DEF Requests
<1>5. Busy(s) => promised = Unsaid
  BY DEF AccountInv, Promised
<1>6. Busy(s) /\ single[s] => \A t \in Slots \ {s} : ~ Busy(t)
  BY DEF AccountInv, Alone
<1>7. Busy(s) /\ single[s] => Standing(req[s])
  BY DEF AccountInv, AllStand
<1> QED BY <1>1, <1>2, <1>3, <1>4, <1>5, <1>6, <1>7

LEMMA AtCall ==
  ASSUME NEW r \in Records, NEW c \in Calls
  PROVE  /\ [r EXCEPT !.pc = c] \in Records /\ [r EXCEPT !.pc = c].pc = c
         /\ [r EXCEPT !.pc = c].op = r.op /\ [r EXCEPT !.pc = c].arg = r.arg
         /\ [r EXCEPT !.pc = c].copy = r.copy /\ [r EXCEPT !.pc = c].had = r.had
  BY DEF Records

\* Whose request is at a call.
LEMMA Callers ==
  ASSUME NEW r \in Records, Fits(r)
  PROVE  /\ r.pc \in Making => r.op \in {"signIn", "touch", "super", "bedrock", "reinit"}
         /\ r.pc = "check" => r.op \in {"touch", "super", "bedrock"}
         /\ r.pc = "write" => r.op \in {"signIn", "touch", "super", "bedrock"}
         /\ r.pc = "group" => r.op = "super"
         /\ r.pc = "policy" => r.op = "bedrock"
         /\ r.pc \in {"legacy", "author", "permAuthor", "reader", "permReader"} => r.op = "quicksight"
         /\ r.pc \in {"dropRole", "dropRow"} => r.op = "delete"
         /\ r.pc = "uninstall" => r.op \in {"clean", "delete"}
<1>1. r.op \in Operations
  BY DEF Records
<1> QED BY <1>1 DEF Fits, Operations, Saving, Making

\* What a step of one request does to the two promises that all requests keep.
BaseStays(s, r) ==
  iam'.made => \/ HasBase' \/ r.pc = "attach"
               \/ iam.made /\ (HasBase => HasBase') /\ req[s].pc # "attach"
GroupStays(s, r, g) ==
  \/ g \in strayed' \/ (Agree(g))' \/ r.pc = PermOf(g)
  \/ (g \in strayed => g \in strayed') /\ (Agree(g) => (Agree(g))') /\ req[s].pc # PermOf(g)

LEMMA OneSteps ==
  ASSUME AccountInv, NEW s \in Slots, NEW r \in Requests \cup {Free},
         req' = [req EXCEPT ![s] = r], AccountTypeOK',
         BaseStays(s, r), \A g \in Grades : GroupStays(s, r, g)
  PROVE  /\ req' \in [Slots -> {Free} \cup Requests] /\ BaseKept' /\ GroupsKept'
         /\ req'[s] = r /\ \A t \in Slots \ {s} : req'[t] = req[t]
<1>1. /\ req' \in [Slots -> {Free} \cup Requests]
      /\ req'[s] = r /\ \A t \in Slots \ {s} : req'[t] = req[t]
  BY DEF AccountInv
<1>2. BaseKept'
  <2> SUFFICES ASSUME iam'.made, ~ HasBase' PROVE \E t \in Slots : req'[t].pc = "attach"
    BY DEF BaseKept
  <2>1. CASE r.pc = "attach"
    BY <1>1, <2>1
  <2>2. CASE iam.made /\ ~ HasBase /\ req[s].pc # "attach"
    <3>1. PICK t \in Slots : req[t].pc = "attach"
      BY <2>2 DEF AccountInv, BaseKept
    <3> QED BY <1>1, <2>2, <3>1
  <2> QED BY <2>1, <2>2 DEF BaseStays
<1>3. GroupsKept'
  <2> SUFFICES ASSUME NEW g \in Grades, g \notin strayed', ~ (Agree(g))'
               PROVE  \E t \in Slots : req'[t].pc = PermOf(g)
    BY DEF GroupsKept
  <2>1. CASE r.pc = PermOf(g)
    BY <1>1, <2>1
  <2>2. CASE g \notin strayed /\ ~ Agree(g) /\ req[s].pc # PermOf(g)
    <3>1. PICK t \in Slots : req[t].pc = PermOf(g)
      BY <2>2 DEF AccountInv, GroupsKept
    <3> QED BY <1>1, <2>2, <3>1
  <2> QED BY <2>1, <2>2 DEF GroupStays
<1> QED BY <1>1, <1>2, <1>3

LEMMA CallKeeps ==
  ASSUME AccountInv, NEW s \in Slots, Busy(s), NEW r \in Requests \cup {Free},
         req' = [req EXCEPT ![s] = r], single' = single, promised' = promised, AccountTypeOK',
         BaseStays(s, r), \A g \in Grades : GroupStays(s, r, g),
         single[s] /\ r # Free => Standing(r)'
  PROVE  AccountInv'
<1>1. /\ req' \in [Slots -> {Free} \cup Requests] /\ BaseKept' /\ GroupsKept'
      /\ req'[s] = r /\ \A t \in Slots \ {s} : req'[t] = req[t]
  BY OneSteps
<1>2. promised = Unsaid /\ \A t \in Slots \ {s} : single[s] => ~ Busy(t)
  BY SlotFields
<1>3. \A t \in Slots \ {s} : Busy(t)' <=> Busy(t)
  BY <1>1 DEF Busy
<1>4. Busy(s)' => r # Free
  BY <1>1 DEF Busy, Free
<1>5. Alone'
  BY <1>1, <1>2, <1>3 DEF AccountInv, Alone
<1>6. AllStand'
  <2> SUFFICES ASSUME NEW t \in Slots, Busy(t)', single[t] PROVE Standing(req[t])'
    BY DEF AllStand
  <2>1. t = s
    BY <1>3 DEF AccountInv, Alone
  <2>2. Standing(r)'
    BY <1>4, <2>1
  <2> QED BY <1>1, <2>1, <2>2 DEF Standing, MadeSoFar, GradedSoFar, Settled, Placed
<1>7. Promised'
  BY <1>2 DEF Promised
<1> QED BY <1>1, <1>5, <1>6, <1>7 DEF AccountInv

LEMMA EndKeeps ==
  ASSUME AccountInv, NEW s \in Slots, Busy(s), req' = [req EXCEPT ![s] = Free],
         single' = single, AccountTypeOK', BaseStays(s, Free), \A g \in Grades : GroupStays(s, Free, g),
         \/ promised' = promised
         \/ promised' = Unsaid
         \/ single[s] /\ SinglesDeliver'
  PROVE  AccountInv'
<1>1. /\ req' \in [Slots -> {Free} \cup Requests] /\ BaseKept' /\ GroupsKept'
      /\ req'[s] = Free /\ \A t \in Slots \ {s} : req'[t] = req[t]
  BY OneSteps
<1>2. promised = Unsaid /\ \A t \in Slots \ {s} : single[s] => ~ Busy(t)
  BY SlotFields
<1>3. ~ Busy(s)' /\ \A t \in Slots \ {s} : Busy(t)' <=> Busy(t)
  BY <1>1 DEF Busy, Free
<1>4. Alone'
  BY <1>1, <1>2, <1>3 DEF AccountInv, Alone
<1>5. AllStand'
  <2> SUFFICES ASSUME NEW t \in Slots, Busy(t)', single[t] PROVE FALSE
    BY DEF AllStand
  <2> QED BY <1>3 DEF AccountInv, Alone
<1>6. Promised'
  BY <1>2, <1>3 DEF Promised
<1> QED BY <1>1, <1>4, <1>5, <1>6 DEF AccountInv

-----------------------------------------------------------------------------
LEMMA AccountStart == AccountInit => AccountInv
<1> SUFFICES ASSUME AccountInit PROVE AccountInv
  OBVIOUS
<1>1. AccountTypeOK
  <2>1. 0 \in 0 .. MaxMadeAsks /\ 0 \in 0 .. MaxBreaks
    BY UserAccountAssumption
  <2>2. single \in [Slots -> BOOLEAN] /\ half \in BOOLEAN
    BY Zenon DEF AccountInit
  <2>3. /\ account \in [here : BOOLEAN, super : BOOLEAN, bedrock : BOOLEAN]
        /\ iam \in [made : BOOLEAN, attached : SUBSET Policies]
    BY DEF AccountInit, Nobody, NoRole
  <2> QED BY <2>1, <2>2, <2>3, Zenon DEF AccountInit, AccountTypeOK
<1>2. \A s \in Slots : req[s] = Free /\ ~ Busy(s)
  BY DEF AccountInit, Busy, Free
<1>3. BaseKept /\ GroupsKept
  BY DEF AccountInit, BaseKept, NoRole, GroupsKept, Agree
<1> QED BY <1>1, <1>2, <1>3 DEF AccountInv, AccountInit, Alone, AllStand, Promised

LEMMA AskingKeeps ==
  ASSUME AccountInv, NEW s \in Slots, NEW op \in Operations, NEW c \in Calls, NEW arg \in Arguments,
         Asking(s, op, c, arg), Fits(Asked(s, op, c, arg)),
         Standing(Asked(s, op, c, arg)), c # "attach", c \notin {"permAuthor", "permReader"}
  PROVE  AccountInv'
<1>0. PICK r : r = Asked(s, op, c, arg)
  OBVIOUS
<1>1. r \in Requests /\ r.pc = c
  <2>1. account \in Rows /\ perm \subseteq Grades
    BY DEF AccountInv, AccountTypeOK, Rows
  <2> QED BY <1>0, <2>1 DEF Asked, Requests, Records
<1>2. /\ req' = [req EXCEPT ![s] = r] /\ ~ Busy(s) /\ promised' = Unsaid
      /\ single' = [q \in Slots |-> IF q = s THEN \A t \in Slots : ~ Busy(t) ELSE single[q] /\ ~ Busy(q)]
      /\ UNCHANGED <<account, outside, perm, breaks, half, strayed>>
      /\ asks < MaxMadeAsks /\ asks' = asks + 1
  BY <1>0 DEF Asking
<1>3. AccountTypeOK'
  <2>1. asks' \in 0 .. MaxMadeAsks
    BY <1>2, UserAccountAssumption DEF AccountInv, AccountTypeOK
  <2>2. single' \in [Slots -> BOOLEAN]
    BY <1>2, Zenon DEF AccountInv, AccountTypeOK
  <2> QED BY <1>2, <2>1, <2>2, Zenon DEF AccountInv, AccountTypeOK, outside, Nobody, NoRole
<1>4. req[s] = Free
  BY <1>2, SlotFields
<1>5. BaseStays(s, r)
  BY <1>2, <1>4 DEF BaseStays, HasBase, outside, Free
<1>6. \A g \in Grades : GroupStays(s, r, g)
  BY <1>2, <1>4 DEF GroupStays, Agree, outside, Free, PermOf
<1>7. /\ req' \in [Slots -> {Free} \cup Requests] /\ BaseKept' /\ GroupsKept'
      /\ req'[s] = r /\ \A t \in Slots \ {s} : req'[t] = req[t]
  BY <1>1, <1>2, <1>3, <1>5, <1>6, OneSteps
<1>8. /\ Busy(s)' /\ \A t \in Slots \ {s} : Busy(t)' <=> Busy(t)
  BY <1>1, <1>7 DEF Busy, Calls, Saving, Making
<1>9. \A t \in Slots : Busy(t)' /\ single'[t] => t = s /\ \A q \in Slots \ {s} : ~ Busy(q)
  <2> SUFFICES ASSUME NEW t \in Slots, Busy(t)', single'[t]
               PROVE  t = s /\ \A q \in Slots \ {s} : ~ Busy(q)
    OBVIOUS
  <2>1. t = s
    BY <1>2, <1>8, Zenon
  <2> QED BY <1>2, <2>1, Zenon
<1>10. Alone'
  BY <1>8, <1>9 DEF Alone
<1>11. AllStand'
  <2> SUFFICES ASSUME NEW t \in Slots, Busy(t)', single'[t] PROVE Standing(req[t])'
    BY DEF AllStand
  <2>1. t = s /\ Standing(r)
    BY <1>0, <1>9
  <2> QED BY <1>2, <1>7, <2>1 DEF Standing, MadeSoFar, GradedSoFar, Settled, Placed, HasBase, outside
<1>12. Promised'
  BY <1>2 DEF Promised
<1> QED BY <1>3, <1>7, <1>10, <1>11, <1>12 DEF AccountInv

-----------------------------------------------------------------------------
(* The calls that make the role and the namespace *)

LEMMA Onwards ==
  ASSUME AccountInv, NEW s \in Slots, NEW from \in Calls, NEW c \in Calls, Onward(s, from, c)
  PROVE  /\ Busy(s) /\ req[s].pc = from /\ Fits(req[s]) /\ req[s] \in Records
         /\ single[s] => Standing(req[s])
         /\ \E r \in Records :
              /\ r.pc = c /\ r.op = req[s].op /\ r.arg = req[s].arg
              /\ r.copy = req[s].copy /\ r.had = req[s].had
              /\ req' = [req EXCEPT ![s] = r]
<1>1. req[s].pc = from /\ from # "free" /\ req' = [req EXCEPT ![s].pc = c]
  BY DEF Onward, Calls, Saving, Making
<1>2. Busy(s)
  BY <1>1 DEF Busy
<1>3. req[s] \in Records /\ req[s] \in Records /\ Fits(req[s]) /\ (single[s] => Standing(req[s]))
  BY <1>2, SlotFields
<1>4. req' = [req EXCEPT ![s] = [req[s] EXCEPT !.pc = c]]
  BY <1>1
<1> QED BY <1>1, <1>2, <1>3, <1>4, AtCall

LEMMA CreateRoleKeeps ==
  ASSUME AccountInv, NEW s \in Slots, CreateRole(s)
  PROVE  AccountInv'
<1> DEFINE c == IF iam.made THEN "bootstrap" ELSE "attach"
<1>1. /\ Onward(s, "role", c) /\ c \in Calls /\ "role" \in Calls
      /\ iam' = [iam EXCEPT !.made = TRUE] /\ half' = (half /\ iam.made)
      /\ UNCHANGED <<account, charts, member, perm, tallies, single, promised, strayed>>
  BY DEF CreateRole, Calls, Saving, Making
<1>2. PICK r \in Records :
        /\ r.pc = c /\ r.op = req[s].op /\ r.arg = req[s].arg
        /\ r.copy = req[s].copy /\ r.had = req[s].had
        /\ req' = [req EXCEPT ![s] = r]
  BY <1>1, Onwards
<1>3. Busy(s) /\ req[s].pc = "role" /\ req[s] \in Records /\ Fits(req[s]) /\ (single[s] => Standing(req[s]))
  BY <1>1, Onwards
<1>4. r \in Requests
  BY <1>2, <1>3 DEF Requests, Fits, Making, Saving
<1>5. /\ iam \in [made : BOOLEAN, attached : SUBSET Policies] /\ iam'.made = TRUE
      /\ iam' \in [made : BOOLEAN, attached : SUBSET Policies] /\ iam'.attached = iam.attached
  BY <1>1 DEF AccountInv, AccountTypeOK
<1>6. half' \in BOOLEAN /\ (iam.made => (half' <=> half))
  BY <1>1, Zenon DEF AccountInv, AccountTypeOK
<1>7. AccountTypeOK'
  BY <1>1, <1>5, <1>6, Zenon DEF AccountInv, AccountTypeOK, tallies
<1>8. HasBase /\ iam.made => HasBase'
  BY <1>5, <1>6 DEF HasBase
<1>9. BaseStays(s, r)
  BY <1>2, <1>3, <1>8 DEF BaseStays
<1>10. \A g \in Grades : GroupStays(s, r, g)
  BY <1>1, <1>3 DEF GroupStays, Agree, PermOf
<1>11. single[s] => Standing(r)'
  <2> SUFFICES ASSUME single[s] PROVE Standing(r)'
    OBVIOUS
  <2>1. \A t \in Slots \ {s} : ~ Busy(t)
    BY <1>3, SlotFields
  <2>2. Standing(req[s]) /\ req[s].op \in {"signIn", "reinit"}
    BY <1>3, Callers DEF Standing, Making
  <2>3. iam.made => HasBase
    BY <1>3, <2>1 DEF AccountInv, BaseKept, Busy
  <2>4. MadeSoFar(r)'
    BY <1>2, <1>5, <1>8, <2>3 DEF MadeSoFar
  <2> QED BY <1>1, <1>2, <2>2, <2>4 DEF Standing
<1> QED BY <1>1, <1>2, <1>3, <1>4, <1>7, <1>9, <1>10, <1>11, CallKeeps

LEMMA AttachBaseKeeps ==
  ASSUME AccountInv, NEW s \in Slots, AttachBase(s)
  PROVE  AccountInv'
<1>1. UNCHANGED <<account, charts, member, perm, tallies, notes>> /\ req[s].pc = "attach"
  BY DEF AttachBase, Onward, Quit
<1>2. Busy(s)
  BY <1>1 DEF Busy
<1>3. \A g \in Grades : \A r : GroupStays(s, r, g)
  BY <1>1 DEF GroupStays, Agree, PermOf, notes
<1>4. CASE iam.made
  <2>1. /\ Onward(s, "attach", "bootstrap") /\ "attach" \in Calls /\ "bootstrap" \in Calls
        /\ iam' = [iam EXCEPT !.attached = @ \cup {"base"}]
    BY <1>4 DEF AttachBase, Calls, Saving, Making
  <2>2. PICK r \in Records :
          /\ r.pc = "bootstrap" /\ r.op = req[s].op /\ r.arg = req[s].arg
          /\ r.copy = req[s].copy /\ r.had = req[s].had
          /\ req' = [req EXCEPT ![s] = r]
    BY <2>1, Onwards
  <2>3. req[s] \in Records /\ Fits(req[s]) /\ (single[s] => Standing(req[s]))
    BY <2>1, Onwards
  <2>4. r \in Requests
    BY <1>1, <2>2, <2>3 DEF Requests, Fits, Making, Saving
  <2>5. iam' \in [made : BOOLEAN, attached : SUBSET Policies] /\ iam'.made = iam.made /\ "base" \in iam'.attached
    BY <2>1 DEF AccountInv, AccountTypeOK, Policies
  <2>6. AccountTypeOK'
    BY <1>1, <1>4, <2>5, Zenon DEF AccountInv, AccountTypeOK, tallies, notes
  <2>7. HasBase' /\ BaseStays(s, r)
    BY <2>5 DEF BaseStays, HasBase
  <2>8. single[s] => Standing(r)'
    <3> SUFFICES ASSUME single[s] PROVE Standing(r)'
      OBVIOUS
    <3>1. Standing(req[s]) /\ req[s].op \in {"signIn", "reinit"}
      BY <1>1, <2>3, Callers DEF Standing, Making
    <3>2. MadeSoFar(r)'
      BY <1>4, <2>2, <2>5, <2>7 DEF MadeSoFar
    <3> QED BY <1>1, <2>2, <3>1, <3>2 DEF Standing
  <2> QED BY <1>1, <1>2, <1>3, <2>2, <2>4, <2>6, <2>7, <2>8, CallKeeps DEF notes
<1>5. CASE ~ iam.made
  <2>1. req' = [req EXCEPT ![s] = Free] /\ UNCHANGED iam
    BY <1>5 DEF AttachBase, Quit
  <2>2. AccountTypeOK'
    BY <1>1, <2>1, Zenon DEF AccountInv, AccountTypeOK, tallies, notes
  <2>3. BaseStays(s, Free)
    BY <1>5, <2>1 DEF BaseStays
  <2> QED BY <1>1, <1>2, <1>3, <2>1, <2>2, <2>3, EndKeeps DEF notes
<1> QED BY <1>4, <1>5

\* A call that changes the releases at most, and moves on.
LEMMA ChartsKeep ==
  ASSUME AccountInv, NEW s \in Slots, NEW from \in Making \cup {"check"}, NEW c \in Saving,
         from \notin {"attach", "role"}, c # "attach", Onward(s, from, c),
         charts' \in SUBSET Charts, charts \subseteq charts',
         UNCHANGED <<account, iam, member, perm, tallies, notes>>,
         c = "provision" => from = "bootstrap" /\ "bootstrap" \in charts',
         c = "write" => \/ from = "provision" /\ req[s].op # "reinit" /\ "provision" \in charts'
                        \/ from = "check",
         from = "check" => c = "write" \/ (c = "role" /\ ~ account.here),
         from # "check" => c \in {"provision", "write"}
  PROVE  AccountInv'
<1>1. from \in Calls /\ c \in Calls
  BY DEF Calls, Saving, Making
<1>2. PICK r \in Records :
          /\ r.pc = c /\ r.op = req[s].op /\ r.arg = req[s].arg
          /\ r.copy = req[s].copy /\ r.had = req[s].had
          /\ req' = [req EXCEPT ![s] = r]
  BY <1>1, Onwards
<1>3. Busy(s) /\ req[s].pc = from /\ req[s] \in Records /\ Fits(req[s]) /\ (single[s] => Standing(req[s]))
  BY <1>1, Onwards
<1>4. r \in Requests
  BY <1>2, <1>3 DEF Requests, Fits, Making, Saving
<1>5. AccountTypeOK'
  BY Zenon DEF AccountInv, AccountTypeOK, tallies, notes
<1>6. BaseStays(s, r)
  BY <1>3 DEF BaseStays, HasBase, notes
<1>7. \A g \in Grades : GroupStays(s, r, g)
  BY <1>3 DEF GroupStays, Agree, PermOf, Making, notes
<1>8. single[s] => Standing(r)'
  <2> SUFFICES ASSUME single[s] PROVE Standing(r)'
    OBVIOUS
  <2>1. Standing(req[s])
    BY <1>3
  <2>2. req[s].op \in {"signIn", "touch", "super", "bedrock", "reinit"}
    BY <1>3, Callers DEF Making
  <2>3. CASE from = "check"
    <3>1. req[s].op \in {"touch", "super", "bedrock"} /\ c = "write"
      BY <1>3, <2>1, <2>2, <2>3 DEF Fits, Standing, Making
    <3> QED BY <1>2, <1>3, <2>1, <2>3, <3>1 DEF Standing, notes
  <2>4. CASE from # "check"
    <3>1. req[s].op \in {"signIn", "reinit"} /\ from \in {"bootstrap", "provision"}
      BY <1>3, <2>1, <2>2, <2>4 DEF Standing, Making
    <3>2. MadeSoFar(req[s])
      BY <2>1, <3>1 DEF Standing
    <3>3. MadeSoFar(r)'
      BY <1>2, <1>3, <2>4, <3>1, <3>2 DEF MadeSoFar, HasBase, notes
    <3> QED BY <1>2, <2>1, <3>1, <3>3 DEF Standing
  <2> QED BY <2>3, <2>4
<1> QED BY <1>2, <1>3, <1>4, <1>5, <1>6, <1>7, <1>8, CallKeeps DEF notes

LEMMA NamespaceKeeps ==
  ASSUME AccountInv, NEW s \in Slots, Bootstrap(s) \/ Check(s)
  PROVE  AccountInv'
<1>1. CASE Bootstrap(s)
  <2>1. /\ Onward(s, "bootstrap", "provision") /\ charts' = charts \cup {"bootstrap"}
        /\ UNCHANGED <<account, iam, member, perm, tallies, notes>>
    BY <1>1 DEF Bootstrap
  <2>2. charts' \in SUBSET Charts /\ charts \subseteq charts' /\ "bootstrap" \in charts'
    BY <2>1 DEF AccountInv, AccountTypeOK, Charts
  <2> QED BY <2>1, <2>2, ChartsKeep DEF Making, Saving
<1>2. CASE Check(s)
  <2> DEFINE c == IF account.here THEN "write" ELSE "role"
  <2>1. /\ Onward(s, "check", c)
        /\ UNCHANGED <<account, outside, perm, tallies, notes>>
    BY <1>2 DEF Check
  <2>2. charts' \in SUBSET Charts /\ charts \subseteq charts' /\ UNCHANGED <<account, iam, member, perm, tallies, notes>>
    BY <2>1 DEF AccountInv, AccountTypeOK, outside
  <2>3. c \in {"write", "role"} /\ c \in Saving /\ c # "provision" /\ c # "attach"
        /\ (c = "write" \/ (c = "role" /\ ~ account.here))
    <3>1. account.here \in BOOLEAN
      BY DEF AccountInv, AccountTypeOK
    <3> QED BY <3>1 DEF Saving, Making
  <2>4. "check" \in Making \cup {"check"} /\ "check" \notin {"attach", "role"}
    OBVIOUS
  <2> HIDE DEF c
  <2> QED BY <2>1, <2>2, <2>3, <2>4, ChartsKeep
<1> QED BY <1>1, <1>2

LEMMA ProvisionKeeps ==
  ASSUME AccountInv, NEW s \in Slots, Provision(s)
  PROVE  AccountInv'
<1>1. /\ charts' = charts \cup {"provision"} /\ req[s].pc = "provision"
      /\ UNCHANGED <<account, iam, member, perm, tallies, single, half, strayed>>
  BY DEF Provision
<1>2. charts' \in SUBSET Charts /\ charts \subseteq charts' /\ "provision" \in charts'
  BY <1>1 DEF AccountInv, AccountTypeOK, Charts
<1>3. CASE req[s].op # "reinit" /\ Onward(s, "provision", "write") /\ UNCHANGED promised
  BY <1>1, <1>2, <1>3, ChartsKeep DEF Making, Saving, notes
<1>4. CASE req[s].op = "reinit" /\ Ends(s, "provision")
  <2>1. /\ Busy(s) /\ req' = [req EXCEPT ![s] = Free]
        /\ promised' = IF single[s] THEN [op |-> req[s].op, arg |-> req[s].arg, had |-> req[s].had] ELSE Unsaid
    BY <1>1, <1>4 DEF Busy, Ends, Quit
  <2>2. AccountTypeOK'
    BY <1>1, <1>2, Zenon DEF AccountInv, AccountTypeOK, tallies
  <2>3. BaseStays(s, Free)
    BY <1>1 DEF BaseStays, HasBase
  <2>4. \A g \in Grades : GroupStays(s, Free, g)
    BY <1>1 DEF GroupStays, Agree, PermOf
  <2>5. ASSUME single[s] PROVE SinglesDeliver'
    <3>1. MadeSoFar(req[s])
      BY <1>4, <2>1, <2>5, SlotFields DEF Standing
    <3>2. Identity'
      BY <1>1, <1>2, <3>1 DEF MadeSoFar, HasBase, Identity, Charts
    <3>3. promised'.op = "reinit"
      BY <1>4, <2>1, <2>5
    <3> QED BY <3>2, <3>3 DEF SinglesDeliver
  <2> QED BY <1>1, <2>1, <2>2, <2>3, <2>4, <2>5, EndKeeps
<1> QED BY <1>1, <1>3, <1>4 DEF Provision

-----------------------------------------------------------------------------
(* The row *)

LEMMA WriteKeeps ==
  ASSUME AccountInv, NEW s \in Slots, Write(s)
  PROVE  /\ AccountInv' /\ Busy(s) /\ req' = [req EXCEPT ![s] = Free]
         /\ account'.super # account.super => req[s].op = "super" \/ ~ single[s]
<1> PICK r \in Records : r = req[s]
  <2>1. Busy(s)
    BY DEF Write, Busy
  <2> QED BY <2>1, SlotFields
<1>1. r.pc = "write" /\ UNCHANGED <<iam, charts, member, perm, tallies, single, half, strayed>>
  BY DEF Write, outside
<1>2. Busy(s) /\ Fits(r) /\ (single[s] => Standing(r)) /\ promised = Unsaid
  <2>1. Busy(s)
    BY <1>1 DEF Busy
  <2> QED BY <2>1, SlotFields
<1>3. r.op \in {"signIn", "touch", "super", "bedrock"}
  BY <1>1, <1>2, Callers
<1>4. BaseStays(s, Free) /\ \A g \in Grades : GroupStays(s, Free, g)
  BY <1>1 DEF BaseStays, HasBase, GroupStays, Agree, PermOf
<1>5. CASE r.op = "signIn" /\ account.here
  <2>1. req' = [req EXCEPT ![s] = Free] /\ UNCHANGED <<account, promised>>
    BY <1>5 DEF Write, Quit
  <2>2. AccountTypeOK'
    BY <1>1, <2>1, Zenon DEF AccountInv, AccountTypeOK, tallies
  <2> QED BY <1>1, <1>2, <1>4, <2>1, <2>2, EndKeeps
<1>6. CASE ~ (r.op = "signIn" /\ account.here)
  <2>1. /\ req' = [req EXCEPT ![s] = Free] /\ account' = Rewritten(s)
        /\ promised' = IF single[s] THEN [op |-> r.op, arg |-> r.arg, had |-> r.had] ELSE Unsaid
    BY <1>6 DEF Write, Ends, Quit
  <2>2. /\ account' \in Rows
        /\ account'.here
        /\ r.op = "super" => account'.super = r.arg
        /\ r.op = "bedrock" => account'.bedrock = r.arg
        /\ r.op # "super" => account'.super = r.copy.super
    <3>1. CASE r.op = "super"
      <4>1. account' = [r.copy EXCEPT !.super = r.arg] /\ r.arg \in BOOLEAN /\ r.copy \in Rows /\ r.copy.here
        BY <1>2, <2>1, <3>1 DEF Rewritten, Records, Fits
      <4> QED BY <3>1, <4>1 DEF Rows
    <3>2. CASE r.op = "bedrock"
      <4>1. account' = [r.copy EXCEPT !.bedrock = r.arg] /\ r.arg \in BOOLEAN /\ r.copy \in Rows /\ r.copy.here
        BY <1>2, <2>1, <3>2 DEF Rewritten, Records, Fits
      <4> QED BY <3>2, <4>1 DEF Rows
    <3>3. CASE r.op \in {"signIn", "touch"}
      <4>1. account' = [r.copy EXCEPT !.here = TRUE] /\ r.copy \in Rows
        BY <2>1, <3>3 DEF Rewritten, Records
      <4> QED BY <3>3, <4>1 DEF Rows
    <3> QED BY <1>3, <3>1, <3>2, <3>3
  <2>3. AccountTypeOK'
    BY <1>1, <2>2, Zenon DEF AccountInv, AccountTypeOK, tallies, Rows
  <2>4. single[s] /\ account'.super # account.super => r.op = "super"
    BY <1>2, <2>2 DEF Standing
  <2>5. ASSUME single[s] PROVE SinglesDeliver'
    <3>1. promised'.op = r.op /\ promised'.arg = r.arg
      BY <2>1, <2>5
    <3>2. CASE r.op = "signIn"
      <4>1. MadeSoFar(r)
        BY <1>2, <2>5, <3>2 DEF Standing
      <4>2. Identity /\ Identity'
        BY <1>1, <4>1 DEF MadeSoFar, HasBase, Identity, Charts, AccountInv, AccountTypeOK
      <4> QED BY <3>1, <3>2, <4>2 DEF SinglesDeliver
    <3>3. CASE r.op = "touch"
      BY <3>1, <3>3 DEF SinglesDeliver
    <3>4. CASE r.op = "super"
      <4>1. "author" \in member' <=> r.arg
        BY <1>1, <1>2, <2>5, <3>4 DEF Standing
      <4> QED BY <2>2, <3>1, <3>4, <4>1 DEF SinglesDeliver
    <3>5. CASE r.op = "bedrock"
      <4>1. "bedrock" \in iam'.attached <=> r.arg
        BY <1>1, <1>2, <2>5, <3>5 DEF Standing
      <4> QED BY <2>2, <3>1, <3>5, <4>1 DEF SinglesDeliver
    <3> QED BY <1>3, <3>2, <3>3, <3>4, <3>5
  <2>6. AccountInv'
    BY <1>1, <1>2, <1>4, <2>1, <2>3, <2>5, EndKeeps
  <2> QED BY <1>2, <2>1, <2>4, <2>6
<1> QED BY <1>5, <1>6

-----------------------------------------------------------------------------
(* The groups and policies that follow a flag *)

LEMMA JoinGroupKeeps ==
  ASSUME AccountInv, NEW s \in Slots, JoinGroup(s)
  PROVE  AccountInv'
<1>1. /\ Onward(s, "group", "check") /\ "group" \in Calls /\ "check" \in Calls
      /\ member' = IF req[s].arg THEN member \cup {"author"} ELSE member \ {"author"}
      /\ UNCHANGED <<account, iam, charts, perm, tallies, single, promised, half>>
      /\ strayed' = IF ("author" \in member') = ("author" \in perm)
                    THEN strayed \ {"author"} ELSE strayed \cup {"author"}
  BY DEF JoinGroup, Calls, Saving
<1>2. PICK r \in Records :
        /\ r.pc = "check" /\ r.op = req[s].op /\ r.arg = req[s].arg
        /\ r.copy = req[s].copy /\ r.had = req[s].had
        /\ req' = [req EXCEPT ![s] = r]
  BY <1>1, Onwards
<1>3. Busy(s) /\ req[s].pc = "group" /\ req[s] \in Records /\ Fits(req[s]) /\ (single[s] => Standing(req[s]))
  BY <1>1, Onwards
<1>4. req[s].op = "super" /\ req[s].arg \in BOOLEAN
  BY <1>3, Callers DEF Fits
<1>5. r \in Requests
  BY <1>2, <1>3, <1>4 DEF Requests, Fits, Saving
<1>6. /\ member' \subseteq Grades /\ strayed' \subseteq Grades
      /\ "author" \in member' <=> r.arg
      /\ "reader" \in member' <=> "reader" \in member
      /\ "reader" \in strayed' <=> "reader" \in strayed
  BY <1>1, <1>2, <1>4 DEF AccountInv, AccountTypeOK, Grades
<1>7. "author" \in strayed' \/ (Agree("author"))'
  <2>1. CASE ("author" \in member') = ("author" \in perm)
    BY <1>1, <2>1, Zenon DEF Agree
  <2>2. CASE ("author" \in member') # ("author" \in perm)
    BY <1>1, <2>2
  <2> QED BY <2>1, <2>2
<1>8. \A g \in Grades : GroupStays(s, r, g)
  <2>1. GroupStays(s, r, "author")
    BY <1>7 DEF GroupStays
  <2>2. GroupStays(s, r, "reader")
    BY <1>1, <1>3, <1>6 DEF GroupStays, Agree, PermOf
  <2> QED BY <2>1, <2>2 DEF Grades
<1>9. BaseStays(s, r)
  BY <1>1, <1>3 DEF BaseStays, HasBase
<1>10. AccountTypeOK'
  BY <1>1, <1>6, Zenon DEF AccountInv, AccountTypeOK, tallies
<1>11. single[s] => Standing(r)'
  BY <1>1, <1>2, <1>3, <1>4, <1>6 DEF Standing
<1> QED BY <1>1, <1>2, <1>3, <1>5, <1>8, <1>9, <1>10, <1>11, CallKeeps

LEMMA PolicyKeeps ==
  ASSUME AccountInv, NEW s \in Slots, SetBedrockPolicy(s) \/ SetLegacyPolicy(s)
  PROVE  AccountInv'
<1> PICK policy \in {"bedrock", "legacy"}, c \in {"check", "author"}, on \in BOOLEAN :
      /\ Attach(s, policy, on, c) /\ req[s].pc \in {"policy", "legacy"}
      /\ req[s].pc = "policy" => policy = "bedrock" /\ c = "check" /\ on = req[s].arg
      /\ req[s].pc = "legacy" => policy = "legacy" /\ c = "author"
  <2>1. CASE SetBedrockPolicy(s)
    <3>1. req[s].pc = "policy" /\ Attach(s, "bedrock", req[s].arg, "check")
      BY <2>1 DEF SetBedrockPolicy
    <3>2. req[s] \in Records /\ Fits(req[s])
      BY <3>1, SlotFields DEF Busy
    <3>3. req[s].arg \in BOOLEAN
      BY <3>1, <3>2, Callers DEF Fits
    <3> QED BY <3>1, <3>3
  <2>2. CASE SetLegacyPolicy(s)
    <3>1. req[s].pc = "legacy" /\ Attach(s, "legacy", "legacy" \in req[s].arg, "author")
      BY <2>2 DEF SetLegacyPolicy
    <3>2. ("legacy" \in req[s].arg) \in BOOLEAN
      OBVIOUS
    <3> QED BY <3>1, <3>2
  <2> QED BY <2>1, <2>2
<1>1. UNCHANGED <<account, charts, member, perm, tallies, notes>>
  BY DEF Attach
<1>2. Busy(s) /\ req[s] \in Records /\ Fits(req[s])
  BY SlotFields DEF Busy
<1>3. \A g \in Grades : \A r : GroupStays(s, r, g)
  BY <1>1 DEF GroupStays, Agree, PermOf, notes
<1>4. CASE iam.made
  <2>1. /\ Onward(s, req[s].pc, c) /\ req[s].pc \in Calls /\ c \in Calls
        /\ iam' = [iam EXCEPT !.attached = IF on THEN @ \cup {policy} ELSE @ \ {policy}]
    BY <1>4 DEF Attach, Calls, Saving
  <2>2. PICK r \in Records :
          /\ r.pc = c /\ r.op = req[s].op /\ r.arg = req[s].arg
          /\ r.copy = req[s].copy /\ r.had = req[s].had
          /\ req' = [req EXCEPT ![s] = r]
    BY <2>1, Onwards
  <2>3. single[s] => Standing(req[s])
    BY <1>2, SlotFields
  <2>4. r \in Requests
    BY <1>2, <2>2, Callers DEF Requests, Fits, Saving
  <2>5. /\ iam' \in [made : BOOLEAN, attached : SUBSET Policies] /\ iam'.made = iam.made
        /\ "base" \in iam'.attached <=> "base" \in iam.attached
        /\ policy \in iam'.attached <=> on
    BY <2>1 DEF AccountInv, AccountTypeOK, Policies
  <2>6. AccountTypeOK'
    BY <1>1, <1>4, <2>5, Zenon DEF AccountInv, AccountTypeOK, tallies, notes
  <2>7. BaseStays(s, r)
    BY <1>1, <2>5 DEF BaseStays, HasBase, notes
  <2>8. single[s] => Standing(r)'
    <3> SUFFICES ASSUME single[s] PROVE Standing(r)'
      OBVIOUS
    <3>1. CASE req[s].pc = "policy"
      <4>1. r.op = "bedrock" /\ ("bedrock" \in iam'.attached <=> r.arg)
        BY <1>2, <2>2, <2>5, <3>1, Callers
      <4> QED BY <1>1, <2>2, <2>3, <3>1, <4>1 DEF Standing
    <3>2. CASE req[s].pc = "legacy"
      <4>1. r.op = "quicksight" /\ r.pc = "author"
        BY <1>2, <2>2, <3>2, Callers
      <4>2. GradedSoFar(req[s])
        BY <2>2, <2>3, <4>1 DEF Standing
      <4>3. GradedSoFar(r)'
        BY <1>1, <2>2, <3>2, <4>1, <4>2 DEF GradedSoFar
      <4> QED BY <1>1, <2>2, <2>3, <4>1, <4>3 DEF Standing
    <3> QED BY <3>1, <3>2
  <2> QED BY <1>1, <1>2, <1>3, <2>2, <2>4, <2>6, <2>7, <2>8, CallKeeps DEF notes
<1>5. CASE ~ iam.made
  <2>1. req' = [req EXCEPT ![s] = Free] /\ UNCHANGED iam
    BY <1>5 DEF Attach, Quit
  <2>2. AccountTypeOK'
    BY <1>1, <2>1, Zenon DEF AccountInv, AccountTypeOK, tallies, notes
  <2>3. BaseStays(s, Free)
    BY <1>5, <2>1 DEF BaseStays
  <2> QED BY <1>1, <1>2, <1>3, <2>1, <2>2, <2>3, EndKeeps DEF notes
<1> QED BY <1>4, <1>5

LEMMA DropRoleKeeps ==
  ASSUME AccountInv, NEW s \in Slots, DropRole(s)
  PROVE  AccountInv'
<1>1. /\ Onward(s, "dropRole", "uninstall") /\ "dropRole" \in Calls /\ "uninstall" \in Calls
      /\ iam' = NoRole /\ half' = FALSE
      /\ UNCHANGED <<account, charts, member, perm, tallies, single, promised, strayed>>
  BY DEF DropRole, Calls
<1>2. PICK r \in Records :
        /\ r.pc = "uninstall" /\ r.op = req[s].op /\ r.arg = req[s].arg
        /\ r.copy = req[s].copy /\ r.had = req[s].had
        /\ req' = [req EXCEPT ![s] = r]
  BY <1>1, Onwards
<1>3. Busy(s) /\ req[s].pc = "dropRole" /\ req[s] \in Records /\ Fits(req[s]) /\ (single[s] => Standing(req[s]))
  BY <1>1, Onwards
<1>4. r.op = "delete" /\ r \in Requests
  BY <1>2, <1>3, Callers DEF Requests, Fits
<1>5. AccountTypeOK'
  <2>1. NoRole \in [made : BOOLEAN, attached : SUBSET Policies]
    BY DEF NoRole
  <2> QED BY <1>1, <2>1, Zenon DEF AccountInv, AccountTypeOK, tallies
<1>6. BaseStays(s, r)
  BY <1>1 DEF BaseStays, NoRole
<1>7. \A g \in Grades : GroupStays(s, r, g)
  BY <1>1, <1>3 DEF GroupStays, Agree, PermOf
<1>8. single[s] => Standing(r)'
  BY <1>1, <1>2, <1>3, <1>4 DEF Standing
<1> QED BY <1>1, <1>2, <1>3, <1>4, <1>5, <1>6, <1>7, <1>8, CallKeeps

LEMMA UninstallKeeps ==
  ASSUME AccountInv, NEW s \in Slots, Uninstall(s)
  PROVE  AccountInv'
<1>1. /\ req[s].pc = "uninstall" /\ charts' \in {charts, {}}
      /\ UNCHANGED <<account, iam, member, perm, tallies, single, half, strayed>>
  BY DEF Uninstall
<1>2. Busy(s) /\ req[s] \in Records /\ Fits(req[s]) /\ (single[s] => Standing(req[s]))
  BY <1>1, SlotFields DEF Busy
<1>3. AccountTypeOK'
  <2>1. charts' \in SUBSET Charts
    BY <1>1 DEF AccountInv, AccountTypeOK
  <2> QED BY <1>1, <2>1, Zenon DEF AccountInv, AccountTypeOK, tallies
<1>4. \A r : BaseStays(s, r) /\ \A g \in Grades : GroupStays(s, r, g)
  BY <1>1 DEF BaseStays, HasBase, GroupStays, Agree, PermOf
<1>5. CASE req[s].op = "clean" /\ Ends(s, "uninstall")
  <2>1. /\ req' = [req EXCEPT ![s] = Free]
        /\ promised' = IF single[s] THEN [op |-> req[s].op, arg |-> req[s].arg, had |-> req[s].had] ELSE Unsaid
    BY <1>5 DEF Ends, Quit
  <2>2. single[s] => SinglesDeliver'
    BY <1>5, <2>1 DEF SinglesDeliver
  <2> QED BY <1>1, <1>2, <1>3, <1>4, <2>1, <2>2, EndKeeps
<1>6. CASE req[s].op = "delete" /\ Onward(s, "uninstall", "dropRow") /\ UNCHANGED promised
  <2>1. PICK r \in Records :
          /\ r.pc = "dropRow" /\ r.op = req[s].op /\ r.arg = req[s].arg
          /\ r.copy = req[s].copy /\ r.had = req[s].had
          /\ req' = [req EXCEPT ![s] = r]
    BY <1>6, Onwards DEF Calls
  <2>2. r \in Requests
    BY <1>2, <1>6, <2>1 DEF Requests, Fits
  <2>3. charts' = {}
    BY <1>6 DEF Uninstall
  <2>4. single[s] => Standing(r)'
    BY <1>1, <1>2, <1>6, <2>1, <2>3 DEF Standing
  <2> QED BY <1>1, <1>2, <1>3, <1>4, <1>6, <2>1, <2>2, <2>4, CallKeeps
<1> QED BY <1>5, <1>6 DEF Uninstall

LEMMA DropUserKeeps ==
  ASSUME AccountInv, NEW s \in Slots, DropUser(s)
  PROVE  /\ AccountInv' /\ Busy(s) /\ req' = [req EXCEPT ![s] = Free] /\ req[s].op = "delete"
<1>1. /\ req[s].pc = "dropRow" /\ req' = [req EXCEPT ![s] = Free]
      /\ promised' = IF single[s] THEN [op |-> req[s].op, arg |-> req[s].arg, had |-> req[s].had] ELSE Unsaid
      /\ account' = Nobody /\ perm' = {} /\ strayed' = strayed \cup member
      /\ UNCHANGED <<iam, charts, member, tallies, single, half>>
  BY DEF DropUser, Ends, Quit, outside
<1>2. Busy(s) /\ req[s] \in Records /\ Fits(req[s]) /\ (single[s] => Standing(req[s]))
  BY <1>1, SlotFields DEF Busy
<1>3. req[s].op = "delete"
  BY <1>1, <1>2, Callers
<1>4. AccountTypeOK'
  <2>1. Nobody \in [here : BOOLEAN, super : BOOLEAN, bedrock : BOOLEAN] /\ {} \subseteq Grades
        /\ strayed' \subseteq Grades
    BY <1>1 DEF Nobody, AccountInv, AccountTypeOK
  <2> QED BY <1>1, <2>1, Zenon DEF AccountInv, AccountTypeOK, tallies
<1>5. BaseStays(s, Free) /\ \A g \in Grades : GroupStays(s, Free, g)
  BY <1>1 DEF BaseStays, HasBase, GroupStays, Agree, PermOf
<1>6. ASSUME single[s] PROVE SinglesDeliver'
  <2>1. iam' = NoRole /\ charts' = {} /\ ~ account'.here
    BY <1>1, <1>2, <1>3, <1>6 DEF Standing, Nobody
  <2>2. promised'.op = "delete"
    BY <1>1, <1>3, <1>6
  <2> QED BY <2>1, <2>2 DEF SinglesDeliver
<1> QED BY <1>1, <1>2, <1>3, <1>4, <1>5, <1>6, EndKeeps

-----------------------------------------------------------------------------
(* The groups and permissions of QuickSight *)

\* A request alone finds group and permission of a grade in agreement.
LEMMA AloneAgree ==
  ASSUME AccountInv, NEW s \in Slots, Busy(s), single[s], NEW g \in Grades, req[s].pc # PermOf(g)
  PROVE  g \in strayed \/ Agree(g)
<1>1. \A t \in Slots \ {s} : ~ Busy(t)
  BY SlotFields
<1>2. \A t \in Slots : req[t].pc = PermOf(g) => Busy(t)
  BY DEF Busy, PermOf
<1> QED BY <1>1, <1>2 DEF AccountInv, GroupsKept

LEMMA SetGroupKeeps ==
  ASSUME AccountInv, NEW s \in Slots, NEW g \in Grades, SetGroup(s, g)
  PROVE  AccountInv'
<1> PICK q \in Records : q = req[s] /\ Fits(q) /\ (single[s] => Standing(q)) /\ Busy(s)
  BY SlotFields DEF SetGroup, Busy, Grades
<1>1. /\ q.pc = g /\ q.op = "quicksight" /\ q.arg \subseteq Grades \cup {"legacy"}
      /\ UNCHANGED <<account, iam, charts, perm, tallies, single, half, strayed>>
  <2>1. q.pc = g /\ UNCHANGED <<account, iam, charts, perm, tallies, single, half, strayed>>
    BY DEF SetGroup
  <2>2. q.op = "quicksight"
    BY <2>1, Callers DEF Grades
  <2> QED BY <2>1, <2>2 DEF Fits
<1>2. ASSUME single[s] PROVE /\ q.copy = account /\ account.here /\ GradedSoFar(q)
                             /\ \A h \in Grades : h \in strayed \/ Agree(h)
  <2>1. \A h \in Grades : h \in strayed \/ Agree(h)
    BY <1>1, <1>2, AloneAgree DEF PermOf, Grades
  <2> QED BY <1>1, <1>2, <2>1 DEF Standing
<1>3. \A r : BaseStays(s, r)
  BY <1>1 DEF BaseStays, HasBase, Grades
<1>4. g \in Calls /\ "reader" \in Calls /\ PermOf(g) \in Calls
  BY DEF Calls, PermOf, Grades
<1>5. CASE q.copy.super \/ (g \in q.arg) = (g \in q.had)
  <2>1. UNCHANGED member
    BY <1>5 DEF SetGroup
  <2>2. AccountTypeOK'
    BY <1>1, <2>1, Zenon DEF AccountInv, AccountTypeOK, tallies
  <2>3. \A r : \A h \in Grades : GroupStays(s, r, h)
    BY <1>1, <2>1 DEF GroupStays, Agree, PermOf, Grades
  <2>4. q.copy.super \/ (g \in q.arg <=> g \in q.had)
    BY <1>5, Zenon
  <2>5. CASE g = "author"
    <3>1. Onward(s, g, "reader") /\ UNCHANGED promised
      BY <1>5, <2>5 DEF SetGroup
    <3>2. PICK r \in Records :
            /\ r.pc = "reader" /\ r.op = q.op /\ r.arg = q.arg /\ r.copy = q.copy /\ r.had = q.had
            /\ req' = [req EXCEPT ![s] = r]
      BY <1>4, <3>1, Onwards
    <3>3. r \in Requests
      BY <1>1, <3>2 DEF Requests, Fits
    <3>4. ASSUME single[s] PROVE Standing(r)'
      <4>1. perm = r.had
        BY <1>1, <1>2, <2>5, <3>2, <3>4 DEF GradedSoFar
      <4>2. r.copy.super \/ Settled(r, "author")
        BY <1>2, <2>4, <2>5, <3>2, <3>4, <4>1 DEF Settled, Placed, Agree, Grades
      <4>3. GradedSoFar(r)'
        BY <1>1, <2>1, <3>2, <4>1, <4>2 DEF GradedSoFar, Settled, Placed
      <4> QED BY <1>1, <1>2, <3>2, <3>4, <4>3 DEF Standing
    <3> QED BY <1>1, <1>3, <2>2, <2>3, <3>1, <3>2, <3>3, <3>4, CallKeeps
  <2>6. CASE g = "reader"
    <3>1. /\ req' = [req EXCEPT ![s] = Free]
          /\ promised' = IF single[s] THEN [op |-> q.op, arg |-> q.arg, had |-> q.had] ELSE Unsaid
      BY <1>5, <2>6 DEF SetGroup, Ends, Quit
    <3>2. ASSUME single[s], ~ account.super
          PROVE  /\ perm = q.arg \ {"legacy"}
                 /\ \A h \in Grades : h \notin strayed => (h \in member <=> h \in q.arg)
      <4>1. "reader" \in q.arg <=> "reader" \in q.had
        BY <1>2, <2>4, <2>6, <3>2
      <4>2. Settled(q, "author") /\ ("reader" \in perm <=> "reader" \in q.had)
        BY <1>1, <1>2, <2>6, <3>2 DEF GradedSoFar
      <4>3. \A h \in Grades : h \in perm <=> h \in q.arg
        BY <4>1, <4>2 DEF Settled, Grades
      <4>4. perm \subseteq Grades
        BY DEF AccountInv, AccountTypeOK
      <4>5. perm = q.arg \ {"legacy"}
        BY <1>1, <4>3, <4>4 DEF Grades
      <4> QED BY <1>2, <3>2, <4>3, <4>5 DEF Agree
    <3>3. single[s] => SinglesDeliver'
      BY <1>1, <2>1, <3>1, <3>2 DEF SinglesDeliver
    <3> QED BY <1>1, <1>3, <2>2, <2>3, <3>1, <3>3, EndKeeps
  <2> QED BY <2>5, <2>6 DEF Grades
<1>6. CASE ~ (q.copy.super \/ (g \in q.arg) = (g \in q.had))
  <2>1. /\ Onward(s, g, PermOf(g)) /\ UNCHANGED promised
        /\ member' = IF g \in q.arg THEN member \cup {g} ELSE member \ {g}
    BY <1>6 DEF SetGroup
  <2>2. PICK r \in Records :
          /\ r.pc = PermOf(g) /\ r.op = q.op /\ r.arg = q.arg /\ r.copy = q.copy /\ r.had = q.had
          /\ req' = [req EXCEPT ![s] = r]
    BY <1>4, <2>1, Onwards
  <2>3. r \in Requests
    BY <1>1, <2>2 DEF Requests, Fits, PermOf
  <2>4. /\ member' \subseteq Grades /\ (g \in member' <=> g \in r.arg)
        /\ \A h \in Grades \ {g} : h \in member' <=> h \in member
    BY <2>1, <2>2 DEF AccountInv, AccountTypeOK
  <2>5. AccountTypeOK'
    BY <1>1, <2>4, Zenon DEF AccountInv, AccountTypeOK, tallies
  <2>6. \A h \in Grades : GroupStays(s, r, h)
    BY <1>1, <2>2, <2>4 DEF GroupStays, Agree, PermOf, Grades
  <2>7. ASSUME single[s] PROVE Standing(r)'
    <3>1. GradedSoFar(r)'
      BY <1>1, <1>2, <2>2, <2>4, <2>7 DEF GradedSoFar, Settled, Placed, PermOf, Grades
    <3> QED BY <1>1, <1>2, <2>2, <2>7, <3>1 DEF Standing
  <2> QED BY <1>1, <1>3, <2>1, <2>2, <2>3, <2>5, <2>6, <2>7, CallKeeps
<1> QED BY <1>5, <1>6

LEMMA SetPermKeeps ==
  ASSUME AccountInv, NEW s \in Slots, NEW g \in Grades, SetPerm(s, g)
  PROVE  AccountInv'
<1> PICK q \in Records : q = req[s] /\ Fits(q) /\ (single[s] => Standing(q)) /\ Busy(s)
  BY SlotFields DEF SetPerm, Busy, PermOf
<1>1. /\ q.pc = PermOf(g) /\ q.op = "quicksight" /\ q.arg \subseteq Grades \cup {"legacy"}
      /\ strayed' = IF single[s] THEN strayed \ {g} ELSE strayed \cup {g}
      /\ UNCHANGED <<account, iam, charts, member, tallies, single, half>>
  <2>1. /\ q.pc = PermOf(g) /\ UNCHANGED <<account, iam, charts, member, tallies, single, half>>
        /\ strayed' = IF single[s] THEN strayed \ {g} ELSE strayed \cup {g}
    BY DEF SetPerm, outside
  <2>2. q.op = "quicksight"
    BY <2>1, Callers DEF PermOf
  <2> QED BY <2>1, <2>2 DEF Fits
<1>2. ASSUME single[s] PROVE /\ q.copy = account /\ account.here /\ GradedSoFar(q) /\ Placed(q, g)
                             /\ \A h \in Grades \ {g} : h \in strayed \/ Agree(h)
  <2>1. \A h \in Grades \ {g} : h \in strayed \/ Agree(h)
    BY <1>1, <1>2, AloneAgree DEF PermOf, Grades
  <2>2. q.copy = account /\ account.here /\ GradedSoFar(q)
    BY <1>1, <1>2 DEF Standing
  <2>3. Placed(q, g)
    BY <1>1, <2>2 DEF GradedSoFar, PermOf, Grades
  <2> QED BY <2>1, <2>2, <2>3
<1>3. \A r : BaseStays(s, r)
  BY <1>1 DEF BaseStays, HasBase, PermOf
<1>4. strayed' \subseteq Grades /\ \A h \in Grades \ {g} : h \in strayed' <=> h \in strayed
  BY <1>1 DEF AccountInv, AccountTypeOK
<1>5. CASE account.here
  <2>1. perm' = IF g \in q.arg THEN perm \cup {g} ELSE perm \ {g}
    BY <1>5 DEF SetPerm
  <2>2. /\ perm' \subseteq Grades /\ (g \in perm' <=> g \in q.arg)
        /\ \A h \in Grades \ {g} : h \in perm' <=> h \in perm
    BY <2>1 DEF AccountInv, AccountTypeOK
  <2>3. AccountTypeOK'
    BY <1>1, <1>4, <1>5, <2>2, Zenon DEF AccountInv, AccountTypeOK, tallies
  <2>4. \A r : \A h \in Grades : GroupStays(s, r, h)
    <3> SUFFICES ASSUME NEW r, NEW h \in Grades PROVE GroupStays(s, r, h)
      OBVIOUS
    <3>1. CASE h = g
      <4>1. g \in strayed' \/ (Agree(g))'
        BY <1>1, <1>2, <2>2 DEF Agree, Placed
      <4> QED BY <3>1, <4>1 DEF GroupStays
    <3>2. CASE h # g
      BY <1>1, <1>4, <2>2, <3>2 DEF GroupStays, Agree, PermOf, Grades
    <3> QED BY <3>1, <3>2
  <2>5. CASE g = "author"
    <3>1. Onward(s, PermOf(g), "reader") /\ UNCHANGED promised /\ PermOf(g) \in Calls /\ "reader" \in Calls
      BY <1>5, <2>5 DEF SetPerm, PermOf, Calls
    <3>2. PICK r \in Records :
            /\ r.pc = "reader" /\ r.op = q.op /\ r.arg = q.arg /\ r.copy = q.copy /\ r.had = q.had
            /\ req' = [req EXCEPT ![s] = r]
      BY <3>1, Onwards
    <3>3. r \in Requests
      BY <1>1, <3>2 DEF Requests, Fits
    <3>4. ASSUME single[s] PROVE Standing(r)'
      <4>1. perm = q.had
        BY <1>1, <1>2, <2>5, <3>4 DEF GradedSoFar, PermOf
      <4>2. (Settled(r, "author"))' /\ ("reader" \in perm' <=> "reader" \in r.had)
        BY <1>1, <1>2, <2>2, <2>5, <3>2, <3>4, <4>1 DEF Settled, Placed, Grades
      <4>3. GradedSoFar(r)'
        BY <3>2, <4>2 DEF GradedSoFar
      <4> QED BY <1>1, <1>2, <3>2, <3>4, <4>3 DEF Standing
    <3> QED BY <1>1, <1>3, <2>3, <2>4, <3>1, <3>2, <3>3, <3>4, CallKeeps
  <2>6. CASE g = "reader"
    <3>1. /\ req' = [req EXCEPT ![s] = Free]
          /\ promised' = IF single[s] THEN [op |-> q.op, arg |-> q.arg, had |-> q.had] ELSE Unsaid
      BY <1>5, <2>6 DEF SetPerm, Ends, Quit
    <3>2. ASSUME single[s], ~ account.super
          PROVE  /\ perm' = q.arg \ {"legacy"}
                 /\ \A h \in Grades : h \notin strayed' => (h \in member' <=> h \in q.arg)
      <4>1. Settled(q, "author")
        BY <1>1, <1>2, <2>6, <3>2 DEF GradedSoFar, PermOf
      <4>2. \A h \in Grades : h \in perm' <=> h \in q.arg
        BY <2>2, <2>6, <4>1 DEF Settled, Grades
      <4>3. perm' = q.arg \ {"legacy"}
        BY <1>1, <2>2, <4>2 DEF Grades
      <4>4. \A h \in Grades : h \notin strayed' => (h \in member' <=> h \in q.arg)
        BY <1>1, <1>2, <1>4, <2>6, <3>2, <4>1 DEF Settled, Placed, Grades
      <4> QED BY <4>3, <4>4
    <3>3. single[s] => SinglesDeliver'
      BY <1>1, <3>1, <3>2 DEF SinglesDeliver
    <3> QED BY <1>1, <1>3, <2>3, <2>4, <3>1, <3>3, EndKeeps
  <2> QED BY <2>5, <2>6 DEF Grades
<1>6. CASE ~ account.here
  <2>1. req' = [req EXCEPT ![s] = Free] /\ UNCHANGED <<perm, promised>> /\ ~ single[s]
    BY <1>2, <1>6 DEF SetPerm, Quit
  <2>2. AccountTypeOK'
    BY <1>1, <1>4, <2>1, Zenon DEF AccountInv, AccountTypeOK, tallies
  <2>3. \A h \in Grades : GroupStays(s, Free, h)
    BY <1>1, <1>4, <2>1 DEF GroupStays, Agree, PermOf, Grades
  <2> QED BY <1>1, <1>3, <2>1, <2>2, <2>3, EndKeeps
<1> QED BY <1>5, <1>6

-----------------------------------------------------------------------------
(* Requests begin, and fail *)

LEMMA BreakKeeps ==
  ASSUME AccountInv, NEW s \in Slots, Breaks(s)
  PROVE  AccountInv'
<1>1. /\ Busy(s) /\ breaks < MaxBreaks /\ breaks' = breaks + 1 /\ req' = [req EXCEPT ![s] = Free]
      /\ UNCHANGED <<account, member, perm, asks, single, promised>>
      /\ half' = (half \/ req[s].pc = "attach" \/ iam' # iam)
  BY DEF Breaks
<1>2. /\ iam' \in [made : BOOLEAN, attached : SUBSET Policies] /\ iam'.made = iam.made
      /\ ~ iam'.made => iam' = NoRole
  <2>1. iam' = iam \/ (iam.made /\ \E left \in SUBSET iam.attached : iam' = [iam EXCEPT !.attached = left])
    BY DEF Breaks
  <2>2. iam \in [made : BOOLEAN, attached : SUBSET Policies] /\ (~ iam.made => iam = NoRole)
    BY DEF AccountInv, AccountTypeOK
  <2>3. ASSUME NEW left \in SUBSET iam.attached, iam' = [iam EXCEPT !.attached = left]
        PROVE  iam' \in [made : BOOLEAN, attached : SUBSET Policies] /\ iam'.made = iam.made
    BY <2>2, <2>3
  <2> QED BY <2>1, <2>2, <2>3
<1>3. charts' \subseteq Charts
  BY DEF Breaks, AccountInv, AccountTypeOK
<1>4. /\ strayed' \subseteq Grades /\ strayed \subseteq strayed'
      /\ \A g \in Grades : req[s].pc = PermOf(g) => g \in strayed'
  BY DEF Breaks, AccountInv, AccountTypeOK, PermOf, Grades
<1>5. half' \in BOOLEAN /\ (half' <=> half \/ req[s].pc = "attach" \/ iam' # iam)
  BY <1>1, Zenon
<1>6. breaks' \in 0 .. MaxBreaks
  BY <1>1, UserAccountAssumption DEF AccountInv, AccountTypeOK
<1>7. AccountTypeOK'
  BY <1>1, <1>2, <1>3, <1>4, <1>5, <1>6, Zenon DEF AccountInv, AccountTypeOK
<1>8. BaseStays(s, Free)
  <2>1. HasBase => HasBase'
    <3>1. iam' = iam \/ half'
      BY <1>5, Zenon
    <3>2. half => half'
      BY <1>5, Zenon
    <3> QED BY <3>1, <3>2 DEF HasBase
  <2>2. req[s].pc = "attach" => HasBase'
    BY <1>5, Zenon DEF HasBase
  <2> QED BY <1>2, <2>1, <2>2 DEF BaseStays
<1>9. \A g \in Grades : GroupStays(s, Free, g)
  BY <1>1, <1>4 DEF GroupStays, Agree
<1> QED BY <1>1, <1>7, <1>8, <1>9, EndKeeps

LEMMA AsksKeep ==
  ASSUME AccountInv, NEW s \in Slots
  PROVE  /\ SignIn(s) \/ Touch(s) \/ Reinitialise(s) \/ CleanNamespace(s) \/ DeleteUser(s) => AccountInv'
         /\ \A on \in BOOLEAN : SetSuper(s, on) \/ SetBedrock(s, on) => AccountInv'
         /\ \A grades \in SUBSET Grades, legacy \in BOOLEAN :
              SetQuicksight(s, grades) \/ SetAllQuicksight(s, grades, legacy) => AccountInv'
<1>0. \A op, c, arg : Asking(s, op, c, arg) => (account.here <=> op # "signIn")
  BY Zenon DEF Asking
<1>1. /\ {} \in Arguments /\ BOOLEAN \subseteq Arguments /\ SUBSET (Grades \cup {"legacy"}) \subseteq Arguments
      /\ {"role", "check", "uninstall", "dropRole", "group", "policy", "legacy", "author"} \subseteq Calls
      /\ \A c \in {"role", "check", "uninstall", "dropRole", "group", "policy", "legacy", "author"} :
           c # "attach" /\ c \notin {"permAuthor", "permReader"}
      /\ {"signIn", "touch", "super", "bedrock", "quicksight", "reinit", "clean", "delete"} \subseteq Operations
  BY DEF Arguments, Calls, Saving, Making, Operations
<1>2. ASSUME SignIn(s) PROVE AccountInv'
  <2>1. Fits(Asked(s, "signIn", "role", {})) /\ Standing(Asked(s, "signIn", "role", {}))
    BY <1>0, <1>2 DEF SignIn, Fits, Standing, MadeSoFar, Asked, Saving, Making
  <2> QED BY <1>1, <1>2, <2>1, AskingKeeps DEF SignIn
<1>3. ASSUME Touch(s) PROVE AccountInv'
  <2>1. Fits(Asked(s, "touch", "check", {})) /\ Standing(Asked(s, "touch", "check", {}))
    BY <1>0, <1>3 DEF Touch, Fits, Standing, Asked, Saving, Making
  <2> QED BY <1>1, <1>3, <2>1, AskingKeeps DEF Touch
<1>4. ASSUME Reinitialise(s) PROVE AccountInv'
  <2>1. Fits(Asked(s, "reinit", "role", {})) /\ Standing(Asked(s, "reinit", "role", {}))
    BY <1>0, <1>4 DEF Reinitialise, Fits, Standing, MadeSoFar, Asked, Saving, Making
  <2> QED BY <1>1, <1>4, <2>1, AskingKeeps DEF Reinitialise
<1>5. ASSUME CleanNamespace(s) PROVE AccountInv'
  <2>1. Fits(Asked(s, "clean", "uninstall", {})) /\ Standing(Asked(s, "clean", "uninstall", {}))
    BY <1>0, <1>5 DEF CleanNamespace, Fits, Standing, Asked, Saving, Making
  <2> QED BY <1>1, <1>5, <2>1, AskingKeeps DEF CleanNamespace
<1>6. ASSUME DeleteUser(s) PROVE AccountInv'
  <2>1. Fits(Asked(s, "delete", "dropRole", {})) /\ Standing(Asked(s, "delete", "dropRole", {}))
    BY <1>0, <1>6 DEF DeleteUser, Fits, Standing, Asked, Saving, Making
  <2> QED BY <1>1, <1>6, <2>1, AskingKeeps DEF DeleteUser
<1>7. ASSUME NEW on \in BOOLEAN, SetSuper(s, on) PROVE AccountInv'
  <2>1. Fits(Asked(s, "super", "group", on)) /\ Standing(Asked(s, "super", "group", on))
    BY <1>0, <1>7 DEF SetSuper, Fits, Standing, Asked, Saving, Making
  <2> QED BY <1>1, <1>7, <2>1, AskingKeeps DEF SetSuper
<1>8. ASSUME NEW on \in BOOLEAN, SetBedrock(s, on) PROVE AccountInv'
  <2>1. Fits(Asked(s, "bedrock", "policy", on)) /\ Standing(Asked(s, "bedrock", "policy", on))
    BY <1>0, <1>8 DEF SetBedrock, Fits, Standing, Asked, Saving, Making
  <2> QED BY <1>1, <1>8, <2>1, AskingKeeps DEF SetBedrock
<1>9. ASSUME NEW c \in {"legacy", "author"}, NEW grades \in SUBSET (Grades \cup {"legacy"}),
             Asking(s, "quicksight", c, grades)
      PROVE  AccountInv'
  <2>1. Fits(Asked(s, "quicksight", c, grades)) /\ Standing(Asked(s, "quicksight", c, grades))
    BY <1>0, <1>9 DEF Fits, Standing, GradedSoFar, Asked, Saving, Making
  <2> QED BY <1>1, <1>9, <2>1, AskingKeeps
<1>10. ASSUME NEW grades \in SUBSET Grades, NEW legacy \in BOOLEAN,
              SetQuicksight(s, grades) \/ SetAllQuicksight(s, grades, legacy)
       PROVE  AccountInv'
  <2>1. grades \cup (IF legacy THEN {"legacy"} ELSE {}) \in SUBSET (Grades \cup {"legacy"})
    OBVIOUS
  <2> QED BY <1>9, <1>10, <2>1 DEF SetQuicksight, SetAllQuicksight
<1> QED BY <1>2, <1>3, <1>4, <1>5, <1>6, <1>7, <1>8, <1>10

-----------------------------------------------------------------------------
\* Who took the superuser flag away, or gave it.
MadeSuper == account'.super # account.super =>
  \E s \in Slots : Busy(s) /\ req'[s] # req[s] /\ (req[s].op \in {"super", "delete"} \/ ~ single[s])

LEMMA SlotKeeps ==
  ASSUME AccountInv, NEW s \in Slots, SlotNext(s)
  PROVE  AccountInv' /\ MadeSuper
<1>1. ASSUME Busy(s), req' = [req EXCEPT ![s] = Free] PROVE req'[s] # req[s]
  BY <1>1 DEF AccountInv, Busy, Free
<1>2. CASE Write(s)
  BY <1>1, <1>2, WriteKeeps DEF MadeSuper
<1>3. CASE DropUser(s)
  BY <1>1, <1>3, DropUserKeeps DEF MadeSuper
<1>4. CASE \/ SignIn(s) \/ Touch(s) \/ Reinitialise(s) \/ CleanNamespace(s) \/ DeleteUser(s)
           \/ \E on \in BOOLEAN : SetSuper(s, on) \/ SetBedrock(s, on)
           \/ \E grades \in SUBSET Grades :
                SetQuicksight(s, grades) \/ \E legacy \in BOOLEAN : SetAllQuicksight(s, grades, legacy)
  <2>1. account' = account
    BY <1>4 DEF SignIn, Touch, Reinitialise, CleanNamespace, DeleteUser, SetSuper, SetBedrock,
                SetQuicksight, SetAllQuicksight, Asking
  <2> QED BY <1>4, <2>1, AsksKeep DEF MadeSuper
<1>5. CASE \/ CreateRole(s) \/ AttachBase(s) \/ Bootstrap(s) \/ Provision(s) \/ Check(s)
           \/ JoinGroup(s) \/ SetBedrockPolicy(s) \/ SetLegacyPolicy(s)
           \/ DropRole(s) \/ Uninstall(s) \/ Breaks(s)
  <2>1. account' = account
    BY <1>5 DEF CreateRole, AttachBase, Bootstrap, Provision, Check, JoinGroup, SetBedrockPolicy,
                SetLegacyPolicy, Attach, DropRole, Uninstall, Breaks
  <2> QED BY <1>5, <2>1, CreateRoleKeeps, AttachBaseKeeps, NamespaceKeeps, ProvisionKeeps,
             JoinGroupKeeps, PolicyKeeps, DropRoleKeeps, UninstallKeeps, BreakKeeps DEF MadeSuper
<1>6. CASE \E g \in Grades : SetGroup(s, g) \/ SetPerm(s, g)
  <2>1. account' = account
    BY <1>6 DEF SetGroup, SetPerm
  <2> QED BY <1>6, <2>1, SetGroupKeeps, SetPermKeeps DEF MadeSuper
<1> QED BY <1>2, <1>3, <1>4, <1>5, <1>6 DEF SlotNext

LEMMA AccountStep ==
  AccountInv /\ [AccountNext]_accountVars => AccountInv' /\ (MadeSuper \/ UNCHANGED accountVars)
<1> SUFFICES ASSUME AccountInv, [AccountNext]_accountVars
             PROVE  AccountInv' /\ (MadeSuper \/ UNCHANGED accountVars)
  OBVIOUS
<1>1. CASE AccountNext
  BY <1>1, SlotKeeps DEF AccountNext
<1>2. CASE UNCHANGED accountVars
  <2>1. AccountTypeOK'
    BY <1>2, Zenon DEF AccountInv, AccountTypeOK, accountVars
  <2>2. BaseKept' /\ GroupsKept' /\ Alone'
    BY <1>2 DEF AccountInv, accountVars, BaseKept, HasBase, GroupsKept, Agree, Alone, Busy, outside, notes, tallies
  <2>3. AllStand'
    BY <1>2 DEF AccountInv, accountVars, AllStand, Busy, Standing, MadeSoFar, HasBase, GradedSoFar, Settled, Placed
  <2>4. Promised'
    BY <1>2 DEF AccountInv, accountVars, Promised, Busy, SinglesDeliver, Identity
  <2> QED BY <1>2, <2>1, <2>2, <2>3, <2>4 DEF AccountInv, accountVars
<1> QED BY <1>1, <1>2

\* However many requests are at work on one user, and whichever call fails: one
\* that overlapped with no other and succeeded leaves what its page says, until
\* the next begins (User.save, cluster.User.create, views/user.py).
THEOREM RequestsDeliver == AccountSpec => []SinglesDeliver
<1>1. AccountInv => SinglesDeliver
  BY DEF AccountInv, Promised, SinglesDeliver, Unsaid
<1> QED BY <1>1, AccountStart, AccountStep, PTL DEF AccountSpec

\* However pages that loaded the row save it: the superuser flag changes only in
\* SetSuperadmin, in a deletion, or in a request that overlapped with another.
THEOREM SuperadminKept == AccountSpec => OnlySetSuperadmin
<1>1. AccountInv /\ [AccountNext]_accountVars => AccountInv'
  BY AccountStep
<1>2. AccountInv /\ [AccountNext]_accountVars =>
        [account'.super # account.super =>
           \E s \in Slots : Busy(s) /\ req'[s] # req[s]
                            /\ (req[s].op \in {"super", "delete"} \/ ~ single[s])]_accountVars
  BY AccountStep DEF MadeSuper
<1> QED BY <1>1, <1>2, AccountStart, PTL DEF AccountSpec, OnlySetSuperadmin

\* The row, the role, the releases and the permissions keep their types.
THEOREM AccountTyped == AccountSpec => []AccountTypeOK
<1>1. AccountInv => AccountTypeOK
  BY DEF AccountInv
<1> QED BY <1>1, AccountStart, AccountStep, PTL DEF AccountSpec

-----------------------------------------------------------------------------
(***************************************************************************)
(* Together: People                                                        *)
(***************************************************************************)

\* A step of one part is a step or a stutter of each.
LEMMA PeopleStepsPart ==
  ASSUME [Next]_<<sharingVars, accountVars, part>>
  PROVE  [SharingNext]_sharingVars /\ [AccountNext]_accountVars
BY DEF Next

\* The dashboards and the account behave as their own specifications say.
THEOREM PeopleParts == Spec => SharingSpec /\ AccountSpec
<1>1. Init => SharingInit /\ AccountInit
  BY DEF Init
<1> QED BY <1>1, PeopleStepsPart, PTL DEF Spec, SharingSpec, AccountSpec

\* Every row, role, release, group and permission keeps its type.
THEOREM PeopleTyped == Spec => []PeopleTypeOK
<1>1. SharingTypeOK /\ AccountTypeOK => PeopleTypeOK
  BY DEF PeopleTypeOK
<1> QED BY <1>1, PeopleParts, SharingTyped, AccountTyped, PTL

\* What the runs of People check holds of it, whatever the sizes of its parts.
THEOREM PeopleKeeps ==
  Spec => [](ViewersHaveRole /\ AccessStaysSound /\ SinglesDeliver) /\ OnlySetSuperadmin
BY PeopleParts, EveryViewerLooks, AccessSound, RequestsDeliver, SuperadminKept, PTL
=============================================================================
