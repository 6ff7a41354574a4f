----------------------------- MODULE Customers -----------------------------
(***************************************************************************)
(* The customers of one environment of an app: the members of its Auth0     *)
(* group, added by mail address, removed by account or by address, and      *)
(* listed page by page, by requests of the app's pages and of the REST API. *)
(*                                                                         *)
(* Auth0 is external: accounts of the "email" connection have one address   *)
(* each; the search that finds them lags behind their creation; a group is  *)
(* a list that grows at its end and closes up when a member goes.  Addresses *)
(* and accounts are identified.                                             *)
(***************************************************************************)
EXTENDS Integers, Sequences, FiniteSets

CONSTANTS
  Addresses,
  Clerks,         \* requests, one at a time each
  PerPage,        \* members of a page
  MaxOrders,      \* bound: requests
  MaxUpsets       \* bound: calls that fail

ASSUME CustomersAssumption ==
  /\ IsFiniteSet(Addresses)
  /\ PerPage \in Nat \ {0} /\ MaxOrders \in Nat /\ MaxUpsets \in Nat

VARIABLES
  accounts,      \* addresses with an account
  found,         \* those the search finds
  members,       \* the group's list
  group,         \* the group is there; removing authentication removes it
  order,         \* the request of each clerk
  orders, upsets

customerVars == <<accounts, found, members, group, order, orders, upsets>>

NoOrder == [pc |-> "idle"]
Listed(s) == {s[i] : i \in DOMAIN s}
Ordered(S) == {s \in [1 .. Cardinality(S) -> S] : Listed(s) = S}
Lists == UNION {Ordered(S) : S \in SUBSET Addresses}

CustomersTypeOK ==
  /\ accounts \subseteq Addresses /\ found \subseteq accounts
  /\ members \in Lists /\ Listed(members) \subseteq accounts
  /\ group \in BOOLEAN
  /\ \A c \in Clerks : order[c].pc \in {"idle", "search", "create", "patch", "find",
                                        "groups", "drop", "page", "listed"}
  /\ orders \in 0 .. MaxOrders /\ upsets \in 0 .. MaxUpsets

CustomersInit ==
  /\ accounts \in SUBSET Addresses /\ found = accounts
  /\ members = <<>> /\ group = TRUE
  /\ order = [c \in Clerks |-> NoOrder] /\ orders = 0 /\ upsets = 0

Ordering(c, o) ==
  /\ order[c] = NoOrder /\ orders < MaxOrders /\ orders' = orders + 1
  /\ order' = [order EXCEPT ![c] = o]
  /\ UNCHANGED <<accounts, found, members, group, upsets>>

Goes(c, from, o) == order[c].pc = from /\ order' = [order EXCEPT ![c] = o]
Resumes(c, pc) == [order[c] EXCEPT !.pc = pc]

\* The group changes; a listing that is under way notes how.
Changes(c, from, list) ==
  /\ order[c].pc = from
  /\ members' = list
  /\ order' = [d \in Clerks |->
       IF d = c THEN NoOrder
       ELSE IF order[d].pc # "page" \/ order[d].number = 1 THEN order[d]
       ELSE [order[d] EXCEPT !.grew = @ \/ Len(list) > Len(members),
                             !.shrank = @ \/ Len(list) < Len(members)]]

-----------------------------------------------------------------------------
(* App.add_customers: the accounts first, one by one, then the group *)

\* What the form accepts: at least one address, each well formed.
Entered == SUBSET Addresses \ {{}}
AskAdd(c, S) == Ordering(c, [pc |-> "search", left |-> S, ids |-> {}])

Collect(c, a) ==
  [order[c] EXCEPT !.left = @ \ {a}, !.ids = @ \cup {a},
                   !.pc = IF order[c].left = {a} THEN "patch" ELSE "search"]

Search(c, a) ==
  /\ order[c].pc = "search" /\ a \in order[c].left
  /\ Goes(c, "search", IF a \in found THEN Collect(c, a)
                       ELSE [pc |-> "create", left |-> order[c].left,
                             ids |-> order[c].ids, new |-> a])
  /\ UNCHANGED <<accounts, found, members, group, orders, upsets>>

\* An account the search did not find yet is refused, and with it the request.
CreateAccount(c) ==
  LET a == order[c].new IN
  /\ Goes(c, "create",
          IF a \in accounts THEN NoOrder
          ELSE [pc |-> IF order[c].left = {a} THEN "patch" ELSE "search",
                left |-> order[c].left \ {a}, ids |-> order[c].ids \cup {a}])
  /\ accounts' = accounts \cup {a}
  /\ UNCHANGED <<found, members, group, orders, upsets>>

AddMembers(c) ==
  /\ order[c].pc = "patch"
  /\ \E new \in Ordered(order[c].ids \ Listed(members)) :
       Changes(c, "patch", IF group THEN members \o new ELSE members)
  /\ UNCHANGED <<accounts, found, group, orders, upsets>>

-----------------------------------------------------------------------------
(* App.delete_customers, App.delete_customer_by_email *)

\* From a page that may be out of date: accounts that are not members are passed over.
AskRemove(c, a) == a \in accounts /\ Ordering(c, [pc |-> "drop", id |-> a])
AskRemoveAddress(c, a) == Ordering(c, [pc |-> "find", id |-> a])

FindAccount(c) ==
  /\ Goes(c, "find", IF order[c].id \in found THEN Resumes(c, "groups") ELSE NoOrder)
  /\ UNCHANGED <<accounts, found, members, group, orders, upsets>>

LookAtGroups(c) ==
  /\ Goes(c, "groups", IF order[c].id \in Listed(members) THEN Resumes(c, "drop") ELSE NoOrder)
  /\ UNCHANGED <<accounts, found, members, group, orders, upsets>>

Place(s, a) == CHOOSE i \in DOMAIN s : s[i] = a
Without(s, a) ==
  IF a \in Listed(s) THEN SubSeq(s, 1, Place(s, a) - 1) \o SubSeq(s, Place(s, a) + 1, Len(s)) ELSE s

DropMember(c) ==
  /\ Changes(c, "drop", Without(members, order[c].id))
  /\ UNCHANGED <<accounts, found, group, orders, upsets>>

-----------------------------------------------------------------------------
(* App.customers: ExtendedAPIMethods.get_all *)

AskList(c) ==
  Ordering(c, [pc |-> "page", number |-> 1, items |-> <<>>, total |-> -1,
               began |-> <<>>, grew |-> FALSE, shrank |-> FALSE])

PageOf(n) ==
  SubSeq(members, (n - 1) * PerPage + 1,
         IF n * PerPage < Len(members) THEN n * PerPage ELSE Len(members))

TakePage(o) ==
  LET items == o.items \o PageOf(o.number) IN
  [o EXCEPT !.pc = IF Len(items) >= Len(members) \/ PageOf(o.number) = <<>>
                   THEN "listed" ELSE "page",
            !.items = items, !.total = Len(members), !.number = @ + 1,
            !.began = IF o.number = 1 THEN members ELSE @]

NextPageAnyTotal(o) == TakePage(o)   \* mutant: the totals of the pages are not compared

\* A total that differs from the first page's is an error.
NextPage(o) == IF o.total \in {-1, Len(members)} THEN TakePage(o) ELSE NoOrder

ReadPage(c) ==
  /\ order[c].pc = "page"
  /\ Goes(c, "page", IF group THEN NextPage(order[c]) ELSE NoOrder)
  /\ UNCHANGED <<accounts, found, members, group, orders, upsets>>

Deliver(c) ==
  /\ Goes(c, "listed", NoOrder)
  /\ UNCHANGED <<accounts, found, members, group, orders, upsets>>

-----------------------------------------------------------------------------
(* Auth0 *)

IndexAccount(a) ==
  /\ a \in accounts \ found /\ found' = found \cup {a}
  /\ UNCHANGED <<accounts, members, group, order, orders, upsets>>

RemoveGroup ==
  /\ group /\ group' = FALSE /\ members' = <<>>
  /\ upsets < MaxUpsets /\ upsets' = upsets + 1
  /\ UNCHANGED <<accounts, found, order, orders>>

\* A call fails: the request ends with an error, the accounts it made stay.
OrderFails(c) ==
  /\ order[c].pc \notin {"idle", "listed"} /\ order' = [order EXCEPT ![c] = NoOrder]
  /\ upsets < MaxUpsets /\ upsets' = upsets + 1
  /\ UNCHANGED <<accounts, found, members, group, orders>>

-----------------------------------------------------------------------------
CustomersNext ==
  \/ \E c \in Clerks :
       \/ \E S \in Entered : AskAdd(c, S)
       \/ \E a \in Addresses : Search(c, a) \/ AskRemove(c, a) \/ AskRemoveAddress(c, a)
       \/ CreateAccount(c) \/ AddMembers(c)
       \/ FindAccount(c) \/ LookAtGroups(c) \/ DropMember(c)
       \/ AskList(c) \/ ReadPage(c) \/ Deliver(c) \/ OrderFails(c)
  \/ (\E a \in Addresses : IndexAccount(a)) \/ RemoveGroup

CustomersSpec == CustomersInit /\ [][CustomersNext]_customerVars

-----------------------------------------------------------------------------
\* A listing that ends without an error has the members of its first page's time,
\* each once, whatever requests added or whatever they removed between its
\* pages: a total that changed ends it with an error.  Only additions and
\* removals together can hide from it (auth0.py get_all).
PagesAreExact ==
  \A c \in Clerks :
    order[c].pc = "listed" /\ ~ (order[c].grew /\ order[c].shrank) =>
      order[c].items = order[c].began
=============================================================================
