----------------------------- MODULE AppRanges -----------------------------
(***************************************************************************)
(* The IP allowlists of one app: the lists, the rows that give them to the  *)
(* app's environments, and the IP_RANGES secret of each environment on      *)
(* GitHub.  The page of an app writes rows and secret in one transaction;   *)
(* an edit or a deletion of a list sends a message that every worker        *)
(* receives and that writes the secrets again.                              *)
(*                                                                         *)
(* Transactions read what is committed and what they wrote themselves.      *)
(***************************************************************************)
EXTENDS Naturals, Sequences, FiniteSets

CONSTANTS
  RangeEnvs,   \* deployment environments of the app
  Lists,       \* allowlists
  Users,       \* who asks for something, one request at a time
  Hands,       \* background workers
  MaxAsked,    \* bound: requests
  MaxVersion,  \* bound: versions of a list's ranges, from 0
  MaxFaults    \* bound: failures

ASSUME AppRangesAssumption ==
  /\ MaxAsked \in Nat /\ MaxVersion \in Nat /\ MaxFaults \in Nat
  /\ Hands # {} /\ Users \cap Hands = {}

VARIABLES
  list,      \* of each list: "live", marked "deleted" or "gone"
  text,      \* the version of its ranges
  held,      \* committed rows: which list each environment has
  secret,    \* of each environment: the lists, with the version, in its secret
  user,      \* the request of each user
  hand,      \* the job of each worker
  inbox,     \* of each worker: the messages it has received
  asked2,    \* number of requests made
  faults,    \* number of failures
  clashed    \* history: something went on during a page or the deletion of
             \* a list, a list was deleted with messages not dealt with, or
             \* an edit put back what had been changed since it looked

rangeVars == <<list, text, held, secret, user, hand, inbox, asked2, faults, clashed>>
tables == <<list, text, held>>
counts == <<asked2, faults>>
Versions == 0 .. MaxVersion

Row == RangeEnvs \X Lists
Idle == [pc |-> "idle"]
Actor(a) == IF a \in Users THEN user[a] ELSE hand[a]
Actors == Users \cup Hands
Present == {l \in Lists : list[l] # "gone"}

\* The rows an open transaction has deleted and inserted.
Removed(a) == IF Actor(a).pc \in {"put", "commit", "read"} THEN Actor(a).del ELSE {}
Inserted(a) == IF Actor(a).pc \in {"put", "commit", "read"} THEN Actor(a).ins ELSE {}
Seen(a) == (held \ Removed(a)) \cup Inserted(a)
Ranges(rows, e) == {<<l, text[l]>> : l \in {m \in Present : <<e, m>> \in rows}}

Free(a, rows) == \A b \in Actors \ {a} : Removed(b) \cap rows = {}

RangesTypeOK ==
  /\ list \in [Lists -> {"live", "deleted", "gone"}]
  /\ text \in [Lists -> Versions]
  /\ held \subseteq RangeEnvs \X Present
  /\ secret \in [RangeEnvs -> SUBSET (Lists \X Versions)]
  /\ \A w \in Hands : \A i \in 1 .. Len(inbox[w]) : inbox[w][i].list \in Lists
  /\ asked2 \in 0 .. MaxAsked /\ faults \in 0 .. MaxFaults /\ clashed \in BOOLEAN

RangesInit ==
  /\ list = [l \in Lists |-> "live"]
  /\ text = [l \in Lists |-> 0]
  /\ held = {} /\ secret = [e \in RangeEnvs |-> {}]
  /\ user = [u \in Users |-> Idle] /\ hand = [w \in Hands |-> Idle]
  /\ inbox = [w \in Hands |-> <<>>]
  /\ asked2 = 0 /\ faults = 0 /\ clashed = FALSE

Exclusive(u) == user[u].pc \notin {"idle", "look", "save", "tellUpdate"}
AtWork(a) == \E b \in Actors \ {a} : Actor(b).pc # "idle"
Pending == \E w \in Hands : inbox[w] # <<>>

\* Something starts during a page or the deletion of a list, or clashes itself.
Overlap(a, clash) == clashed' = (clashed \/ clash \/ \E u \in Users \ {a} : Exclusive(u))

Turn(a, from, next) ==
  /\ Actor(a).pc = from
  /\ IF a \in Users THEN user' = [user EXCEPT ![a] = next] /\ UNCHANGED hand
                    ELSE hand' = [hand EXCEPT ![a] = next] /\ UNCHANGED user

Ask(u, next, clash) ==
  /\ asked2 < MaxAsked /\ asked2' = asked2 + 1
  /\ Turn(u, "idle", next)
  /\ Overlap(u, clash)
  /\ UNCHANGED <<list, held, secret, inbox, faults>>

Tell(kind, l) == inbox' = [w \in Hands |-> Append(inbox[w], [kind |-> kind, list |-> l])]

-----------------------------------------------------------------------------
(* The page of an app: update_ip_allowlist *)

\* The form takes any list there is, one marked deleted too.
SavePage(u, e, chosen) ==
  /\ chosen \subseteq Present
  /\ Ask(u, [pc |-> "old", env |-> e, chosen |-> chosen], AtWork(u))
  /\ UNCHANGED text

ReadOld(u) ==
  LET e == user[u].env IN
  /\ Turn(u, "old", [pc |-> "write", env |-> e, chosen |-> user[u].chosen,
                     del |-> {row \in held : row[1] = e}])
  /\ UNCHANGED <<tables, secret, inbox, counts, clashed>>

\* Rows that another transaction is deleting are waited for.
WriteRows(u) ==
  LET e == user[u].env IN
  /\ user[u].pc = "write" /\ Free(u, user[u].del)
  /\ Turn(u, "write", [pc |-> "put", env |-> e, del |-> user[u].del,
                       ins |-> {e} \X user[u].chosen])
  /\ UNCHANGED <<tables, secret, inbox, counts, clashed>>

PutPage(u) ==
  /\ user[u].pc = "put"
  /\ Turn(u, "put", [user[u] EXCEPT !.pc = "commit"])
  /\ secret' = [secret EXCEPT ![user[u].env] = Ranges(Seen(u), user[u].env)]
  /\ UNCHANGED <<tables, inbox, counts, clashed>>

\* Foreign keys are checked at the commit: a list that has gone fails it.
CommitPage(u) ==
  /\ Turn(u, "commit", Idle)
  /\ held' = IF \A row \in user[u].ins : row[2] \in Present
             THEN (held \ user[u].del) \cup user[u].ins ELSE held
  /\ UNCHANGED <<list, text, secret, inbox, counts, clashed>>

-----------------------------------------------------------------------------
(* The pages of a list: IPAllowlistDetail and IPAllowlistDelete *)

\* The form of a list comes with ranges, changed or not: the row is loaded.
EditList(u, l, v) ==
  /\ list[l] # "gone"
  /\ Ask(u, [pc |-> "look", list |-> l, mark |-> list[l], new |-> v], FALSE)
  /\ UNCHANGED text

\* The ranges to compare with are read separately; a list that has gone is a 404.
LookAgain(u) ==
  LET z == user[u] IN
  /\ Turn(u, "look", IF list[z.list] = "gone" THEN Idle
                     ELSE [pc |-> "save", list |-> z.list, mark |-> z.mark, new |-> z.new,
                           old |-> text[z.list]])
  /\ UNCHANGED <<tables, secret, inbox, counts, clashed>>

\* The save undoes, unnoticed, what others did since the row was read.
PutsBack(z) ==
  \/ list[z.list] # z.mark
  \/ z.old = z.new /\ text[z.list] # z.new

\* The whole row is saved, inserted again if it has gone; nobody is told unless
\* the ranges differ from those read before.
SaveList(u) ==
  LET z == user[u] IN
  /\ Turn(u, "save", IF z.old = z.new THEN Idle ELSE [pc |-> "tellUpdate", list |-> z.list])
  /\ list' = [list EXCEPT ![z.list] = z.mark]
  /\ text' = [text EXCEPT ![z.list] = z.new]
  /\ clashed' = (clashed \/ PutsBack(z))
  /\ UNCHANGED <<held, secret, inbox, counts>>

TellUpdate(u) ==
  LET l == user[u].list IN
  /\ Turn(u, "tellUpdate", Idle)
  /\ IF \E e \in RangeEnvs : <<e, l>> \in held THEN Tell("update", l) ELSE UNCHANGED inbox
  /\ UNCHANGED <<tables, secret, counts, clashed>>

\* The apps that have the list are counted first.
DeleteList(u, l) ==
  /\ list[l] # "gone"
  /\ Ask(u, [pc |-> IF \E e \in RangeEnvs : <<e, l>> \in held THEN "mark" ELSE "drop",
             list |-> l], AtWork(u) \/ Pending)
  /\ UNCHANGED text

\* A list goes with its committed rows.
Gone(l) == list' = [list EXCEPT ![l] = "gone"] /\ held' = {row \in held : row[2] # l}

DropUnused(u) ==
  /\ Turn(u, "drop", Idle)
  /\ Free(u, {row \in held : row[2] = user[u].list})
  /\ Gone(user[u].list)
  /\ UNCHANGED <<text, secret, inbox, counts, clashed>>

MarkDeleted(u) ==
  /\ Turn(u, "mark", [user[u] EXCEPT !.pc = "tellDelete"])
  /\ list' = [list EXCEPT ![user[u].list] = "deleted"]
  /\ UNCHANGED <<text, held, secret, inbox, counts, clashed>>

TellDelete(u) ==
  LET l == user[u].list IN
  /\ Turn(u, "tellDelete", Idle)
  /\ IF \E e \in RangeEnvs : <<e, l>> \in held THEN Tell("delete", l) ELSE UNCHANGED inbox
  /\ UNCHANGED <<tables, secret, counts, clashed>>

-----------------------------------------------------------------------------
(* The workers: app_ip_ranges_update and app_ip_ranges_delete *)

\* A list that is not there raises, and what the consumer had queued is lost.
TakeJob(w) ==
  /\ inbox[w] # <<>>
  /\ LET m == Head(inbox[w])
         gone == m.kind = "delete" /\ list[m.list] = "gone" IN
     /\ Turn(w, "idle", IF gone THEN Idle
                        ELSE [pc |-> IF m.kind = "delete" THEN "remove" ELSE "read",
                              msg |-> m, todo |-> RangeEnvs, got |-> {}, del |-> {}, ins |-> {}])
     /\ inbox' = [inbox EXCEPT ![w] = IF gone THEN <<>> ELSE Tail(@)]
  /\ Overlap(w, FALSE)
  /\ UNCHANGED <<tables, secret, counts>>

RemoveRows(w) ==
  LET rows == {row \in held : row[2] = hand[w].msg.list} IN
  /\ hand[w].pc = "remove" /\ Free(w, rows)
  /\ Turn(w, "remove", [hand[w] EXCEPT !.pc = "read", !.del = rows])
  /\ UNCHANGED <<tables, secret, inbox, counts, clashed>>

ReadRanges(w, e) ==
  /\ hand[w].pc = "read" /\ e \in hand[w].todo
  /\ Turn(w, "read", [hand[w] EXCEPT !.pc = "put", !.todo = @ \ {e},
                                     !.got = <<e, Ranges(Seen(w), e)>>])
  /\ UNCHANGED <<tables, secret, inbox, counts, clashed>>

PutRanges(w) ==
  /\ hand[w].pc = "put"
  /\ Turn(w, "put", [hand[w] EXCEPT !.pc = "read", !.got = {}])
  /\ secret' = [secret EXCEPT ![hand[w].got[1]] = hand[w].got[2]]
  /\ UNCHANGED <<tables, inbox, counts, clashed>>

EndJobKeeps(w) ==   \* mutant: the list is counted with its rows still there
  /\ hand[w].pc = "read" /\ hand[w].todo = {}
  /\ Turn(w, "read", IF hand[w].msg.kind = "delete"
                     THEN [pc |-> "count", list |-> hand[w].msg.list] ELSE Idle)
  /\ UNCHANGED <<tables, secret, inbox, counts, clashed>>

\* The rows of a deletion are committed; those of an update were never touched.
EndJob(w) ==
  /\ hand[w].pc = "read" /\ hand[w].todo = {}
  /\ held' = held \ hand[w].del
  /\ Turn(w, "read", IF hand[w].msg.kind = "delete"
                     THEN [pc |-> "count", list |-> hand[w].msg.list] ELSE Idle)
  /\ UNCHANGED <<list, text, secret, inbox, counts, clashed>>

CountApps(w) ==
  /\ Turn(w, "count", IF \E e \in RangeEnvs : <<e, hand[w].list>> \in held THEN Idle
                      ELSE [hand[w] EXCEPT !.pc = "drop"])
  /\ UNCHANGED <<tables, secret, inbox, counts, clashed>>

DropList(w) ==
  /\ hand[w].pc = "drop" /\ Free(w, {row \in held : row[2] = hand[w].list})
  /\ Turn(w, "drop", Idle)
  /\ Gone(hand[w].list)
  /\ UNCHANGED <<text, secret, inbox, counts, clashed>>

-----------------------------------------------------------------------------
\* A call fails or the process dies: an open transaction is rolled back, and
\* a worker loses what it has queued.
Fault(a) ==
  /\ faults < MaxFaults /\ faults' = faults + 1
  /\ Actor(a).pc # "idle" /\ Turn(a, Actor(a).pc, Idle)
  /\ inbox' = IF a \in Hands THEN [inbox EXCEPT ![a] = <<>>] ELSE inbox
  /\ UNCHANGED <<tables, secret, asked2, clashed>>

UserNext(u) ==
  \/ \E e \in RangeEnvs, chosen \in SUBSET Lists : SavePage(u, e, chosen)
  \/ ReadOld(u) \/ WriteRows(u) \/ PutPage(u) \/ CommitPage(u)
  \/ \E l \in Lists : (\E v \in Versions : EditList(u, l, v)) \/ DeleteList(u, l)
  \/ LookAgain(u) \/ SaveList(u) \/ TellUpdate(u) \/ DropUnused(u) \/ MarkDeleted(u) \/ TellDelete(u)

HandNext(w) ==
  \/ TakeJob(w) \/ RemoveRows(w) \/ (\E e \in RangeEnvs : ReadRanges(w, e))
  \/ PutRanges(w) \/ EndJob(w) \/ CountApps(w) \/ DropList(w)

RangesNext ==
  \/ \E u \in Users : UserNext(u)
  \/ \E w \in Hands : HandNext(w)
  \/ \E a \in Actors : Fault(a)

RangesSpec == RangesInit /\ [][RangesNext]_rangeVars

-----------------------------------------------------------------------------
AllQuiet == \A a \in Actors : Actor(a).pc = "idle" /\ (a \in Hands => inbox[a] = <<>>)

\* Once every request and message has been dealt with, each environment's
\* secret holds the ranges, as last edited, of exactly the lists its rows name,
\* and no list is left marked deleted, provided no call failed, nothing went on
\* during a page or the deletion of a list, no list was deleted with messages
\* about, and no edit, finding no change, put back what another had changed since
\* it looked.  Edits of one list overlap otherwise as they like.  The workers
\* handle the same messages in any interleaving, raise on a list the other has
\* removed and lose the rest of their queue (consumers.py app_ip_ranges_update,
\* app_ip_ranges_delete).
SecretsSettle ==
  AllQuiet /\ faults = 0 /\ ~ clashed =>
    /\ \A e \in RangeEnvs : secret[e] = Ranges(held, e)
    /\ \A l \in Lists : list[l] # "deleted"
=============================================================================
