------------------------------- MODULE Store -------------------------------
(***************************************************************************)
(* What the program promises: a durable collection of employees, and       *)
(* requests that are carried out one after the other.  The options of a    *)
(* request are done in their order, each durably before the next; one that *)
(* finds no employee ends its request; an answer is given when everything  *)
(* asked for is done; a listing shows what is stored at that time.         *)
(*                                                                         *)
(* Employees are not in any promised order: which of two with the same     *)
(* name is updated or deleted is open.                                     *)
(***************************************************************************)
EXTENDS Integers, Sequences, FiniteSets, Bags

CONSTANTS
  Clients, NoClient,
  HoursLimit,  \* hours from 0 to HoursLimit - 1 are kept as they are typed
  ToolTyped,   \* what the command line tool may be asked to do
  MaxRows      \* listings up to this length are complete

VARIABLES
  db,       \* the bag of employees
  left,     \* per client: options asked for and not yet done
  answer,   \* per client: "none", "asked", or what it was answered
  shown,    \* per client: the rows it was shown
  current,  \* the client whose request is being carried out
  trusted   \* the preconditions of all this have held so far

vars == <<db, left, answer, shown, current, trusted>>

Init ==
  /\ IsABag(db)
  /\ left = [c \in Clients |-> <<>>]
  /\ answer = [c \in Clients |-> "none"]
  /\ shown = [c \in Clients |-> <<>>]
  /\ current = NoClient
  /\ trusted = TRUE

Ask(c) ==
  /\ answer[c] = "none"
  /\ answer' = [answer EXCEPT ![c] = "asked"]
  /\ \A d \in Clients \ {c} : left'[d] = left[d]
  /\ UNCHANGED <<db, shown, current, trusted>>

One(e) == SetToBag({e})
Named(b, n) == {e \in BagToSet(b) : e.name = n}
Kept(h) == IF h \in 0 .. HoursLimit - 1 THEN {h} ELSE 0 .. HoursLimit - 1

Copies(b) == UNION {{<<e, k>> : k \in 1 .. b[e]} : e \in BagToSet(b)}
IsListing(rows, b) ==
  /\ {rows[k] : k \in DOMAIN rows} = BagToSet(b)
  /\ \A e \in BagToSet(b) : Cardinality({k \in DOMAIN rows : rows[k] = e}) = b[e]

\* What an option may make of the bag.
Outcomes(b, o) ==
  CASE o.op = "add" ->
         {b (+) One([name |-> o.name, address |-> o.address, hours |-> h]) : h \in Kept(o.hours)}
    [] o.op = "update" ->
         {(b (-) One(e)) (+) One([e EXCEPT !.hours = h]) :
            e \in Named(b, o.name), h \in Kept(o.hours)}
    [] o.op = "delete" -> {b (-) One(e) : e \in Named(b, o.name)}
    [] o.op = "list" -> {b}

\* One request at a time.
Begin(c) ==
  /\ answer[c] = "asked" /\ current = NoClient
  /\ current' = c
  /\ UNCHANGED <<db, left, answer, shown, trusted>>

Turn(c) == answer[c] = "asked" /\ current = c

Do(c) ==
  /\ Turn(c)
  /\ left[c] # <<>>
  /\ Head(left[c]).op # "list"
  /\ db' \in Outcomes(db, Head(left[c]))
  /\ left' = [left EXCEPT ![c] = Tail(@)]
  /\ UNCHANGED <<answer, shown, current, trusted>>

Ends(c, r) ==
  /\ answer' = [answer EXCEPT ![c] = r]
  /\ left' = [left EXCEPT ![c] = <<>>]
  /\ current' = NoClient
  /\ UNCHANGED <<db, trusted>>

Refuse(c) ==
  /\ Turn(c)
  /\ left[c] # <<>>
  /\ Head(left[c]).op \in {"update", "delete"}
  /\ Named(db, Head(left[c]).name) = {}
  /\ Ends(c, "not present")
  /\ UNCHANGED shown

Answer(c) ==
  /\ Turn(c)
  /\ left[c] = <<>>
  /\ Ends(c, "ok")
  /\ UNCHANGED shown

List(c) ==
  /\ Turn(c)
  /\ Len(left[c]) = 1 /\ Head(left[c]).op = "list"
  /\ \A d \in Clients \ {c} : shown'[d] = shown[d]
  /\ Cardinality(Copies(db)) <= MaxRows => IsListing(shown'[c], db)
  /\ Ends(c, "ok")

\* Clients that get no answer: some of their options may be done.
Fail ==
  /\ answer' \in [Clients -> {"none", "asked", "ok", "not present", "unanswered"}]
  /\ \A c \in Clients :
       \/ answer'[c] = answer[c] /\ left'[c] = left[c]
       \/ answer[c] \in {"none", "asked"} /\ answer'[c] = "unanswered" /\ left'[c] = <<>>
  /\ current' = IF current # NoClient /\ answer'[current] = "unanswered" THEN NoClient ELSE current
  /\ UNCHANGED <<db, shown, trusted>>

\* The command line tool, alone with the store, does all it is asked to or
\* nothing.
Tool ==
  /\ current = NoClient
  /\ \E opts \in ToolTyped :
       LET upto[k \in 0 .. Len(opts)] ==
             IF k = 0 THEN {db}
             ELSE UNION {Outcomes(b, opts[k]) : b \in upto[k - 1]}
       IN  db' \in upto[Len(opts)]
  /\ UNCHANGED <<left, answer, shown, current, trusted>>

\* After this nothing is promised.
Distrust == ~trusted'

Next ==
  \/ \E c \in Clients :
       Ask(c) \/ Begin(c) \/ Do(c) \/ Refuse(c) \/ Answer(c) \/ List(c)
  \/ Fail \/ Tool \/ Distrust

Spec == Init /\ [][Next]_vars
=============================================================================
