----------------------------- MODULE Parameters -----------------------------
(***************************************************************************)
(* Parameters: rows of the database, each naming a secure string in AWS's   *)
(* parameter store.  A row is saved before its string is put, a string is   *)
(* deleted before its row, a string that is there is not put again, and     *)
(* nothing keeps two rows from naming one string.                           *)
(***************************************************************************)
EXTENDS Naturals

CONSTANTS
  Params,          \* parameters, each made once
  Names,           \* names: the role and the key
  NameOf,          \* the name each parameter is given
  Writers,         \* requests under way at a time
  MaxStoreFails,   \* bound: calls to the store that fail
  NoParam          \* "nobody's string"

ASSUME ParametersAssumption ==
  MaxStoreFails \in Nat /\ NoParam \notin Params /\ NameOf \in [Params -> Names]

VARIABLES
  saved,      \* rows
  store,      \* of each name: whose value the string has
  writer,     \* the requests
  made,       \* parameters already asked for
  undone,     \* history: rows whose creation ended with an error
  storeFails,
  mingled     \* history: names whose requests overlapped, that two rows had,
              \* or for which a call failed

paramVars == <<saved, store, writer, made, undone, storeFails, mingled>>

Free0 == [pc |-> "free"]

ParametersTypeOK ==
  /\ saved \subseteq made /\ made \subseteq Params /\ undone \subseteq made
  /\ store \in [Names -> Params \cup {NoParam}]
  /\ \A w \in Writers : writer[w] # Free0 =>
       writer[w].pc \in {"put", "unput", "drop"} /\ writer[w].param \in made
  /\ storeFails \in 0 .. MaxStoreFails /\ mingled \subseteq Names

ParametersInit ==
  /\ saved = {} /\ made = {} /\ undone = {}
  /\ store = [n \in Names |-> NoParam]
  /\ writer = [w \in Writers |-> Free0]
  /\ storeFails = 0 /\ mingled = {}

NameAt(w) == NameOf[writer[w].param]
Busy0(n) == \E w \in Writers : writer[w] # Free0 /\ NameAt(w) = n
Becomes(w, from, pc, p) ==
  /\ writer[w].pc = from
  /\ writer' = [writer EXCEPT ![w] = IF pc = "free" THEN Free0 ELSE [pc |-> pc, param |-> p]]

-----------------------------------------------------------------------------
(* ParameterCreate *)

Create(w, p) ==
  LET n == NameOf[p] IN
  /\ p \notin made /\ made' = made \cup {p}
  /\ Becomes(w, "free", "put", p)
  /\ saved' = saved \cup {p}
  /\ mingled' = IF Busy0(n) \/ \E q \in saved : NameOf[q] = n THEN mingled \cup {n} ELSE mingled
  /\ UNCHANGED <<store, undone, storeFails>>

\* A string that is there is left as it is, and nobody is told.
PutString(w) ==
  /\ Becomes(w, "put", "free", NoParam)
  /\ store' = [store EXCEPT ![NameAt(w)] = IF @ = NoParam THEN writer[w].param ELSE @]
  /\ UNCHANGED <<saved, made, undone, storeFails, mingled>>

-----------------------------------------------------------------------------
(* ParameterDelete: the row is found first *)

AskDrop(w, p) ==
  /\ p \in saved /\ Becomes(w, "free", "unput", p)
  /\ mingled' = IF Busy0(NameOf[p]) THEN mingled \cup {NameOf[p]} ELSE mingled
  /\ UNCHANGED <<saved, store, made, undone, storeFails>>

\* A string that is not there is passed over.
DeleteString(w) ==
  /\ Becomes(w, "unput", "drop", writer[w].param)
  /\ store' = [store EXCEPT ![NameAt(w)] = NoParam]
  /\ UNCHANGED <<saved, made, undone, storeFails, mingled>>

KeepRow(w) ==   \* mutant: the row of a deleted parameter stays
  /\ Becomes(w, "drop", "free", NoParam)
  /\ UNCHANGED <<saved, store, made, undone, storeFails, mingled>>

DropRow(w) ==
  /\ Becomes(w, "drop", "free", NoParam)
  /\ saved' = saved \ {writer[w].param}
  /\ UNCHANGED <<store, made, undone, storeFails, mingled>>

\* A call fails and the request ends with an error.  ATOMIC_REQUESTS is set beside DATABASES and
\* not in it, so Django opens no transaction and the row stays.
StoreFails(w) ==
  /\ writer[w] # Free0 /\ Becomes(w, writer[w].pc, "free", NoParam)
  /\ storeFails < MaxStoreFails /\ storeFails' = storeFails + 1
  /\ undone' = IF writer[w].pc = "put" THEN undone \cup {writer[w].param} ELSE undone
  /\ mingled' = mingled \cup {NameAt(w)}
  /\ UNCHANGED <<saved, store, made>>

-----------------------------------------------------------------------------
ParametersNext ==
  \E w \in Writers :
    \/ \E p \in Params : Create(w, p) \/ AskDrop(w, p)
    \/ PutString(w) \/ DeleteString(w) \/ DropRow(w) \/ StoreFails(w)

ParametersSpec == ParametersInit /\ [][ParametersNext]_paramVars

-----------------------------------------------------------------------------
\* A name that no two rows ever shared, for which no requests overlapped and no
\* call failed, has a string just when it has a row, with the row's value: what
\* happens to other names, a deletion and another creation under the same one
\* included, never leaves a value behind (models/parameter.py save, delete).
StringsFollowRows ==
  \A n \in Names \ mingled : ~ Busy0(n) =>
    {p \in saved : NameOf[p] = n} = {store[n]} \ {NoParam}

\* A request that ends with an error leaves no row: "Wrap each request in a
\* transaction" (settings/common.py:327).  It does not hold.
RequestsAtomic == undone \cap saved = {}
=============================================================================
