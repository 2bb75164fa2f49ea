--------------------------- MODULE RequestsProofs ---------------------------
(***************************************************************************)
(* That every variable keeps its type, that no buffer is overrun and that  *)
(* the server's memory and the file hold the same employees between two    *)
(* options and after every restart, for every set of clients, of requests  *)
(* and of files, and every width of lengths and hours.                     *)
(*                                                                         *)
(* TypeOK is not inductive: that the cursor stays inside the request, and  *)
(* that what is decoded there is an employee, needs the cursor to stand    *)
(* where an option begins (Serves), in a buffer that is the body of what   *)
(* was typed (Asked).  Nor is MemoryIsDisk: a restart gives back the       *)
(* employees that were saved only if no string of theirs fills its field,  *)
(* and a save of the cli must not meet a running server (Trust).           *)
(***************************************************************************)
EXTENDS Requests, OptionsProofs

Accepted(opts) == \A k \in 1 .. Len(opts) : ~Rejected(opts[k])

\* The buffer of a request that is on its way is the body of what was typed.
Sent(c) ==
  /\ typed[c] \in Typed /\ Accepted(typed[c])
  /\ buffer[c] = Body(typed[c])
Asked == \A c \in Clients : state[c] = "sent" => Sent(c)

\* The place p is behind k options of the request.
Stands(opts, k, p) ==
  /\ k \in 0 .. Len(opts)
  /\ \E g : Layout(Body(opts).cells, Pieces(opts), g) /\ p = g[k]

\* Options of this request that memory has.
Carried == saved + (IF dirty THEN 1 ELSE 0)

\* The server is at an option of the request of a client that waits for it.
Serves ==
  /\ dirty => cur # NoClient
  /\ cur # NoClient => up /\ state[cur] = "sent" /\ Stands(typed[cur], Carried, pos)
  /\ Carried <= stage - 1 /\ stage <= 4

Trust ==
  /\ trusted => Sound(memory) /\ Sound(disk)
  /\ (trusted /\ tool # "off") => ~up

IInv ==
  TypeOK /\ BuffersHold /\ Asked /\ Serves /\ Trust /\ MemoryIsDisk

-----------------------------------------------------------------------------
(* The array of employees. *)

LEMMA ArrayIsSequence ==
  ASSUME NEW T, NEW n \in Nat, NEW f \in [1 .. n -> T]
  PROVE  f \in Seq(T)
  BY SeqDef

\* A string that fits does not fill its field (serialize.c).
LEMMA FitsNotFills ==
  ASSUME OptionsAssumption, NEW s \in Seq(Nat), Fits(s)
  PROVE  ~Fills(s) /\ ~TooLong(s)
  <1> DEFINE l == Len(s)
  <1>1. l \in Nat /\ LenLimit \in Nat /\ l + 1 < LenLimit
    BY DEF Fits, OptionsAssumption
  <1> HIDE DEF l
  <1>2. (l + 1) % LenLimit = l + 1
    <2>1. l + 1 \in Nat
      BY <1>1
    <2> QED  BY <1>1, <2>1, FitsUncut, Zenon
  <1>3. l + 1 # 0 /\ ~(l > LenLimit - 1)
    BY <1>1
  <1> QED  BY <1>2, <1>3, Zenon DEF l, Fills, FieldLen, TooLong

\* The empty array is an array without strings that fill their fields.
LEMMA EmptyArray == <<>> \in Seq(Employees) /\ Sound(<<>>)
  BY DEF Sound

\* Adding an employee to the end (proto.c, cli.c main).
LEMMA AppendArray ==
  ASSUME NEW es \in Seq(Employees), NEW e \in Employees
  PROVE  /\ Append(es, e) \in Seq(Employees)
         /\ Sound(es) /\ Sound(<<e>>) => Sound(Append(es, e))
  <1> DEFINE new == Append(es, e)
  <1>1. /\ new \in Seq(Employees)
        /\ DOMAIN new = 1 .. Len(es) + 1
        /\ \A k \in DOMAIN es : new[k] = es[k]
        /\ new[Len(es) + 1] = e
        /\ DOMAIN es = 1 .. Len(es) /\ Len(es) \in Nat
    OBVIOUS
  <1>2. \A k \in DOMAIN new : k \in DOMAIN es \/ new[k] = e
    BY <1>1
  <1>3. Sound(<<e>>) => Fits(e.name) /\ Fits(e.address)
    BY DEF Sound
  <1>4. Sound(es) /\ Sound(<<e>>) => Sound(new)
    BY <1>1, <1>2, <1>3 DEF Sound
  <1> QED  BY <1>1, <1>4

\* Changing somebody's hours (proto.c, parse.c update_employee).
LEMMA UpdateArray ==
  ASSUME NEW es \in Seq(Employees), NEW n, NEW h \in 0 .. HoursLimit - 1
  PROVE  /\ update_employee(es, n, h) \in Seq(Employees)
         /\ Sound(es) => Sound(update_employee(es, n, h))
  <1> DEFINE new == update_employee(es, n, h)
  <1>1. /\ es \in [1 .. Len(es) -> Employees] /\ Len(es) \in Nat
        /\ DOMAIN es = 1 .. Len(es)
    OBVIOUS
  <1>2. /\ DOMAIN new = DOMAIN es
        /\ \A k \in DOMAIN es :
             \/ new[k] = es[k]
             \/ new[k] = [name |-> es[k].name, address |-> es[k].address, hours |-> h]
    BY <1>1 DEF update_employee
  <1>3. ASSUME NEW k \in DOMAIN es
        PROVE  /\ new[k] \in Employees
               /\ new[k].name = es[k].name /\ new[k].address = es[k].address
    <2>1. es[k] \in Employees
      BY <1>1
    <2> HIDE DEF new
    <2> QED  BY <1>2, <2>1 DEF Employees
  <1>4. new \in [1 .. Len(es) -> Employees]
    BY <1>1, <1>2, <1>3 DEF update_employee
  <1>5. new \in Seq(Employees)
    <2> HIDE DEF new
    <2> QED  BY <1>1, <1>4, ArrayIsSequence, Zenon
  <1>6. Sound(es) => Sound(new)
    BY <1>2, <1>3 DEF Sound
  <1> QED  BY <1>5, <1>6

\* Removing an employee by moving the last one (proto.c, parse.c
\* delete_employee).
LEMMA DeleteArray ==
  ASSUME NEW es \in Seq(Employees), NEW n, Present(es, n)
  PROVE  /\ delete_employee(es, n) \in Seq(Employees)
         /\ Sound(es) => Sound(delete_employee(es, n))
  <1> DEFINE moved == [es EXCEPT ![First(es, n)] = es[Len(es)]]
             new == delete_employee(es, n)
  <1>1. /\ es \in [1 .. Len(es) -> Employees] /\ Len(es) \in Nat
        /\ DOMAIN es = 1 .. Len(es)
    OBVIOUS
  <1>2. Len(es) \in 1 .. Len(es)
    BY <1>1 DEF Present, Matching
  <1>3. /\ moved \in [1 .. Len(es) -> Employees]
        /\ \A k \in 1 .. Len(es) : \E j \in DOMAIN es : moved[k] = es[j]
    BY <1>1, <1>2
  <1>4. moved \in Seq(Employees) /\ Len(moved) = Len(es)
    <2> HIDE DEF moved
    <2>1. moved \in Seq(Employees)
      BY <1>1, <1>3, ArrayIsSequence, Zenon
    <2>2. DOMAIN moved = 1 .. Len(es) /\ DOMAIN moved = 1 .. Len(moved) /\ Len(moved) \in Nat
      BY <1>3, <2>1, LenProperties
    <2> QED  BY <1>1, <2>1, <2>2
  <1>5. /\ new \in Seq(Employees)
        /\ DOMAIN new = 1 .. Len(es) - 1
        /\ \A k \in DOMAIN new : new[k] = moved[k]
    BY <1>1, <1>2, <1>4 DEF delete_employee
  <1>6. \A k \in DOMAIN new : \E j \in DOMAIN es : new[k] = es[j]
    BY <1>1, <1>3, <1>5
  <1>7. Sound(es) => Sound(new)
    BY <1>6 DEF Sound
  <1> QED  BY <1>5, <1>7

\* Reading the file: exact if no string fills its field (serialize.c).
LEMMA ReloadArray ==
  ASSUME OptionsAssumption, NEW es \in Seq(Employees), NEW u \in Seq(Nat)
  PROVE  /\ Reloaded(es, u) \in Seq(Employees)
         /\ Sound(es) => Reloaded(es, u) = es
  <1> DEFINE new == Reloaded(es, u)
  <1>1. /\ es \in [1 .. Len(es) -> Employees] /\ Len(es) \in Nat
        /\ DOMAIN es = 1 .. Len(es)
    OBVIOUS
  <1>2. ASSUME NEW k \in DOMAIN es
        PROVE  /\ new[k] \in Employees
               /\ Sound(es) => new[k] = es[k]
    <2>1. es[k] \in Employees
      BY <1>1
    <2>0. es[k].name \in Seq(Nat) /\ es[k].address \in Seq(Nat)
      BY <2>1 DEF Employees
    <2>2. new[k] = [name |-> Reread(es[k].name, u), address |-> Reread(es[k].address, u),
                    hours |-> es[k].hours]
      BY DEF Reloaded
    <2>3. Reread(es[k].name, u) \in Seq(Nat) /\ Reread(es[k].address, u) \in Seq(Nat)
      BY <2>0, ReadBack
    <2>4. Sound(es) => Reread(es[k].name, u) = es[k].name /\ Reread(es[k].address, u) = es[k].address
      BY <2>0, FitsNotFills, ReadBack DEF Sound, Kept
    <2>5. es[k] = [name |-> es[k].name, address |-> es[k].address, hours |-> es[k].hours]
      BY <2>1 DEF Employees
    <2>6. es[k].name \in Seq(Nat) /\ es[k].address \in Seq(Nat) /\ es[k].hours \in 0 .. HoursLimit - 1
      BY <2>1 DEF Employees
    <2>7. new[k] \in Employees
      BY <2>2, <2>3, <2>6 DEF Employees
    <2> QED  BY <2>2, <2>4, <2>5, <2>7, Zenon
  <1>3. DOMAIN new = 1 .. Len(es) /\ new = [k \in 1 .. Len(es) |-> new[k]]
    BY <1>1 DEF Reloaded
  <1>4. new \in [1 .. Len(es) -> Employees]
    BY <1>1, <1>2, <1>3
  <1>5. new \in Seq(Employees)
    <2> HIDE DEF new
    <2> QED  BY <1>1, <1>4, ArrayIsSequence, Zenon
  <1>6. Sound(es) => new = es
    BY <1>1, <1>2, <1>3
  <1> QED  BY <1>5, <1>6

\* One option of the cli.
LEMMA ApplyArray ==
  ASSUME OptionsAssumption, NEW es \in Seq(Employees), NEW o \in TypedOptions
  PROVE  Apply(es, o).es \in Seq(Employees)
  <1> DEFINE h == parse_employee_hours(o.hours)
             e == [name |-> o.name, address |-> o.address, hours |-> h]
  <1>1. CASE o \in [op : {"add"}, name : Seq(Nat), address : Seq(Nat), hours : Int]
    <2>1. h \in 0 .. HoursLimit - 1 /\ o.op = "add"
      BY <1>1, HoursInRange
    <2>2. e \in Employees
      BY <1>1, <2>1 DEF Employees
    <2>3. Append(es, e) \in Seq(Employees)
      BY <2>2, AppendArray
    <2> QED  BY <2>1, <2>3 DEF Apply
  <1>2. CASE o \in [op : {"update"}, name : Seq(Nat), hours : Int]
    <2>1. h \in 0 .. HoursLimit - 1 /\ o.op = "update"
      BY <1>2, HoursInRange
    <2>2. update_employee(es, o.name, h) \in Seq(Employees)
      BY <2>1, UpdateArray
    <2> QED  BY <2>1, <2>2 DEF Apply
  <1>3. CASE o \in [op : {"delete"}, name : Seq(Nat)]
    <2>1. Present(es, o.name) => delete_employee(es, o.name) \in Seq(Employees)
      BY DeleteArray
    <2>2. o.op = "delete"
      BY <1>3
    <2> QED  BY <2>1, <2>2 DEF Apply
  <1>4. CASE o \in [op : {"list"}]
    BY <1>4 DEF Apply
  <1> QED  BY <1>1, <1>2, <1>3, <1>4 DEF TypedOptions

\* What the cli has in memory when it saves.
LEMMA AppliedArray ==
  ASSUME OptionsAssumption, RequestsAssumption,
         NEW es \in Seq(Employees), NEW opts \in ToolTyped
  PROVE  Applied(es, opts).es \in Seq(Employees)
  <1> DEFINE r0 == [ok |-> TRUE, es |-> es]
             r1 == Step(r0, opts, 1)
             r2 == Step(r1, opts, 2)
             r3 == Step(r2, opts, 3)
  <1>0. \A k \in DOMAIN opts : opts[k] \in TypedOptions
    <2>1. opts \in Seq(TypedOptions)
      BY DEF RequestsAssumption
    <2> QED  BY <2>1
  <1>1. ASSUME NEW r, r.es \in Seq(Employees), NEW k
        PROVE  Step(r, opts, k).es \in Seq(Employees)
    <2>1. CASE k \in DOMAIN opts /\ r.ok
      BY <1>0, <1>1, <2>1, ApplyArray DEF Step
    <2>2. CASE ~(k \in DOMAIN opts /\ r.ok)
      BY <1>1, <2>2 DEF Step
    <2> QED  BY <2>1, <2>2
  <1>2. r0.es \in Seq(Employees)
    OBVIOUS
  <1> HIDE DEF r0
  <1>3. r1.es \in Seq(Employees)
    BY <1>1, <1>2
  <1> HIDE DEF r1
  <1>4. r2.es \in Seq(Employees)
    BY <1>1, <1>3
  <1> HIDE DEF r2
  <1>5. r3.es \in Seq(Employees)
    BY <1>1, <1>4
  <1> HIDE DEF r3
  <1>6. Step(r3, opts, 4).es \in Seq(Employees)
    BY <1>1, <1>5
  <1> QED  BY <1>6 DEF Applied, r0, r1, r2, r3

\* How many cells the file has.
LEMMA CellsAreCounted ==
  ASSUME OptionsAssumption, NEW es \in Seq(Employees)
  PROVE  CellsOf(es) \in Nat
  <1>1. serialize_list_employee_response(es) \in Buffer
    BY ListingFits
  <1>2. serialize_list_employee_response(es).cells \in Seq(Nat)
    BY <1>1 DEF Buffer
  <1> QED  BY <1>2 DEF CellsOf

-----------------------------------------------------------------------------
(* The option at the cursor. *)

\* A request stands at its beginning once it is taken (server.c).
LEMMA StandsFirst ==
  ASSUME OptionsAssumption, NEW opts \in Seq(TypedOptions)
  PROVE  Stands(opts, 0, 1)
  <1>1. PICK g : Layout(Body(opts).cells, Pieces(opts), g)
    BY BodyFits
  <1>2. g[0] = 1
    BY <1>1 DEF Layout
  <1>3. 0 \in 0 .. Len(opts)
    OBVIOUS
  <1> QED  BY <1>1, <1>2, <1>3 DEF Stands

\* The cursor is inside the request or just after it.
LEMMA StandsInside ==
  ASSUME NEW opts \in Seq(TypedOptions), NEW k, NEW p, Stands(opts, k, p)
  PROVE  p \in 1 .. Len(Body(opts).cells) + 1
  <1>1. PICK g : Layout(Body(opts).cells, Pieces(opts), g) /\ p = g[k]
    BY DEF Stands
  <1>2. Len(Pieces(opts)) = Len(opts)
    BY DEF Pieces
  <1>3. k \in 0 .. Len(Pieces(opts))
    BY <1>2 DEF Stands
  <1> QED  BY <1>1, <1>3 DEF Layout

\* What is read at the cursor is the next option that was typed.
LEMMA StandsNext ==
  ASSUME OptionsAssumption, NEW opts \in Seq(TypedOptions), NEW k, NEW p,
         Stands(opts, k, p), p <= Len(Body(opts).cells)
  PROVE  /\ k + 1 \in 1 .. Len(opts) /\ opts[k + 1] \in TypedOptions /\ p \in Int
         /\ Holds(Body(opts).cells, p, Piece(opts[k + 1]))
         /\ Body(opts).cells[p] = Letter[opts[k + 1].op]
         /\ Stands(opts, k + 1, p + data_len(opts[k + 1]))
  <1> DEFINE cells == Body(opts).cells
             m == Len(cells)
             n == Len(opts)
             xs == Pieces(opts)
             o == opts[k + 1]
  <1>1. PICK g : Layout(cells, xs, g) /\ p = g[k]
    BY DEF Stands
  <1>2. cells \in Seq(Nat) /\ m \in Nat /\ n \in Nat
    <2>1. Body(opts) \in Buffer
      BY BodyFits
    <2>2. cells \in Seq(Nat)
      BY <2>1 DEF Buffer
    <2> HIDE DEF cells
    <2> QED  BY <2>2
  <1> HIDE DEF cells
  <1>3. Len(xs) = n /\ \A j \in 1 .. n : xs[j] = Piece(opts[j])
    BY <1>2 DEF Pieces
  <1> HIDE DEF xs
  <1>4. /\ g \in [0 .. n -> 1 .. m + 1] /\ g[n] = m + 1
        /\ \A j \in 1 .. n : g[j] = g[j - 1] + Len(xs[j]) /\ Holds(cells, g[j - 1], xs[j])
    BY <1>1, <1>3, Zenon DEF Layout
  <1>5. k \in 0 .. n
    BY DEF Stands
  <1>6. p <= m
    BY DEF cells
  <1>7. k # n
    BY <1>1, <1>2, <1>4, <1>6
  <1>8. k + 1 \in 1 .. n /\ k + 1 \in 0 .. n /\ (k + 1) - 1 = k
    BY <1>2, <1>5, <1>7
  <1>9. o \in TypedOptions
    BY <1>8
  <1>10. xs[k + 1] = Piece(o)
    BY <1>3, <1>8
  <1> HIDE DEF o
  <1>11. g[k + 1] = p + Len(Piece(o)) /\ Holds(cells, p, Piece(o))
    BY <1>1, <1>4, <1>8, <1>10, Zenon
  <1>12. Len(Piece(o)) = data_len(o) /\ Piece(o) \in Seq(Nat)
    BY <1>9, PieceFits
  <1>13. p \in Int
    <2>1. p \in 1 .. m + 1
      BY <1>1, <1>4, <1>5
    <2> QED  BY <1>2, <2>1
  <1>14. cells[p] = Letter[o.op]
    <2>1. Len(Piece(o)) >= 1 /\ Piece(o)[1] = Letter[o.op] /\ Len(Piece(o)) \in Nat
      BY <1>9, <1>12, PieceFits
    <2>2. cells[p + 1 - 1] = Piece(o)[1]
      BY <1>11, <2>1 DEF Holds
    <2>3. p + 1 - 1 = p
      BY <1>13
    <2> QED  BY <2>1, <2>2, <2>3
  <1>15. Stands(opts, k + 1, p + data_len(o))
    <2>1. Layout(Body(opts).cells, Pieces(opts), g)
      BY <1>1 DEF cells, xs
    <2>2. g[k + 1] = p + data_len(o)
      BY <1>11, <1>12
    <2> QED  BY <1>8, <2>1, <2>2 DEF Stands
  <1> QED  BY <1>8, <1>9, <1>11, <1>13, <1>14, <1>15 DEF o, cells

\* The option at the cursor has the letter that is read there, and was
\* accepted by the client (proto.c deserialize_request_options).
LEMMA ReadsNext ==
  ASSUME OptionsAssumption, NEW opts \in Seq(TypedOptions), Accepted(opts), NEW k, NEW p,
         Stands(opts, k, p), p <= Len(Body(opts).cells),
         NEW op \in DOMAIN Letter, Body(opts).cells[p] = Letter[op]
  PROVE  \E o \in TypedOptions :
           /\ o.op = op /\ ~Rejected(o) /\ p \in Int
           /\ Holds(Body(opts).cells, p, Piece(o))
           /\ Stands(opts, k + 1, p + data_len(o))
  <1> DEFINE o == opts[k + 1]
  <1>1. /\ k + 1 \in 1 .. Len(opts) /\ o \in TypedOptions /\ p \in Int
        /\ Holds(Body(opts).cells, p, Piece(o))
        /\ Body(opts).cells[p] = Letter[o.op]
        /\ Stands(opts, k + 1, p + data_len(o))
    BY StandsNext
  <1>2. ~Rejected(o)
    BY <1>1 DEF Accepted
  <1> HIDE DEF o
  <1>3. o.op \in DOMAIN Letter
    BY <1>1 DEF TypedOptions, Letter
  <1>4. o.op = op
    BY <1>1, <1>3 DEF Letter
  <1> QED  BY <1>1, <1>2, <1>4

\* The employee that is added, and where the cursor goes.
LEMMA AddRead ==
  ASSUME OptionsAssumption, NEW opts \in Seq(TypedOptions), Accepted(opts), NEW k, NEW p,
         Stands(opts, k, p), p <= Len(Body(opts).cells),
         Body(opts).cells[p] = Letter["add"],
         NEW d, d = deserialize_add_employee_option(Body(opts).cells, p)
  PROVE  d.employee \in Employees /\ Stands(opts, k + 1, d.next)
  <1>1. "add" \in DOMAIN Letter
    BY DEF Letter
  <1>2. PICK o \in TypedOptions :
           /\ o.op = "add" /\ ~Rejected(o) /\ p \in Int
           /\ Holds(Body(opts).cells, p, Piece(o))
           /\ Stands(opts, k + 1, p + data_len(o))
    BY <1>1, ReadsNext
  <1>3. o.name \in Seq(Nat) /\ o.address \in Seq(Nat) /\ o.hours \in Int
    BY <1>2 DEF TypedOptions
  <1>4. o.name \in Seq(Int) /\ o.address \in Seq(Int)
    <2>1. \A s \in Seq(Nat) : s \in Seq(Int)
      OBVIOUS
    <2> QED  BY <1>3, <2>1, Zenon
  <1>5. d = [employee |-> [name |-> o.name, address |-> o.address,
                           hours |-> parse_employee_hours(o.hours)],
             next |-> p + data_len(o)]
    BY <1>2, <1>3, <1>4, AddSurvives DEF Piece
  <1>6. parse_employee_hours(o.hours) \in 0 .. HoursLimit - 1
    BY <1>3, HoursInRange
  <1>7. d.employee \in Employees
    BY <1>3, <1>5, <1>6 DEF Employees
  <1>8. d.next = p + data_len(o)
    BY <1>5
  <1> QED  BY <1>2, <1>7, <1>8

\* The hours of an update, and where the cursor goes.
LEMMA UpdateRead ==
  ASSUME OptionsAssumption, NEW opts \in Seq(TypedOptions), Accepted(opts), NEW k, NEW p,
         Stands(opts, k, p), p <= Len(Body(opts).cells),
         Body(opts).cells[p] = Letter["update"],
         NEW d, d = deserialize_update_employee_option(Body(opts).cells, p)
  PROVE  d.hours \in 0 .. HoursLimit - 1 /\ Stands(opts, k + 1, d.next)
  <1>1. "update" \in DOMAIN Letter
    BY DEF Letter
  <1>2. PICK o \in TypedOptions :
           /\ o.op = "update" /\ ~Rejected(o) /\ p \in Int
           /\ Holds(Body(opts).cells, p, Piece(o))
           /\ Stands(opts, k + 1, p + data_len(o))
    BY <1>1, ReadsNext
  <1>3. o.name \in Seq(Nat) /\ o.hours \in Int
    BY <1>2 DEF TypedOptions
  <1>4. o.name \in Seq(Int)
    <2>1. \A s \in Seq(Nat) : s \in Seq(Int)
      OBVIOUS
    <2> QED  BY <1>3, <2>1, Zenon
  <1>5. d = [name |-> o.name, hours |-> parse_employee_hours(o.hours),
             next |-> p + data_len(o)]
    BY <1>2, <1>3, <1>4, UpdateSurvives DEF Piece
  <1>6. parse_employee_hours(o.hours) \in 0 .. HoursLimit - 1
    BY <1>3, HoursInRange
  <1>7. d.hours = parse_employee_hours(o.hours) /\ d.next = p + data_len(o)
    BY <1>5
  <1> QED  BY <1>2, <1>6, <1>7

\* Where the cursor goes after a delete.
LEMMA DeleteRead ==
  ASSUME OptionsAssumption, NEW opts \in Seq(TypedOptions), Accepted(opts), NEW k, NEW p,
         Stands(opts, k, p), p <= Len(Body(opts).cells),
         Body(opts).cells[p] = Letter["delete"],
         NEW d, d = deserialize_delete_employee_option(Body(opts).cells, p)
  PROVE  Stands(opts, k + 1, d.next)
  <1>1. "delete" \in DOMAIN Letter
    BY DEF Letter
  <1>2. PICK o \in TypedOptions :
           /\ o.op = "delete" /\ ~Rejected(o) /\ p \in Int
           /\ Holds(Body(opts).cells, p, Piece(o))
           /\ Stands(opts, k + 1, p + data_len(o))
    BY <1>1, ReadsNext
  <1>3. o.name \in Seq(Nat)
    BY <1>2 DEF TypedOptions
  <1>4. o.name \in Seq(Int)
    <2>1. \A s \in Seq(Nat) : s \in Seq(Int)
      OBVIOUS
    <2> QED  BY <1>3, <2>1, Zenon
  <1>5. d = [name |-> o.name, next |-> p + data_len(o)]
    BY <1>2, <1>4, DeleteSurvives DEF Piece
  <1>6. d.next = p + data_len(o)
    BY <1>5
  <1> QED  BY <1>2, <1>6

-----------------------------------------------------------------------------
(* The steps. *)

\* What is typed are options.
LEMMA TypedAreOptions ==
  ASSUME RequestsAssumption, NEW opts \in Typed
  PROVE  opts \in Seq(TypedOptions)
  BY DEF RequestsAssumption

\* A buffer that is neither lost nor overrun.
LEMMA BuffersAre ==
  (buffer \in [Clients -> Buffers] /\ BuffersHold) <=> buffer \in [Clients -> Buffer]
  BY DEF Buffers, Buffer, BuffersHold

\* The invariant holds at the start.
LEMMA InitIInv ==
  ASSUME OptionsAssumption, RequestsAssumption
  PROVE  Init => IInv
  <1> SUFFICES ASSUME Init PROVE IInv
    OBVIOUS
  <1>1. disk \in Seq(Employees) /\ Sound(disk)
    BY DEF Init, RequestsAssumption
  <1>2. length \in Nat
    BY <1>1, CellsAreCounted DEF Init
  <1>3. <<>> \in Seq(Employees) /\ Sound(<<>>)
    BY EmptyArray
  <1>4. Empty \in Buffer
    BY DEF Empty, Buffer
  <1>5. buffer \in [Clients -> Buffer]
    BY <1>4 DEF Init
  <1>6. buffer \in [Clients -> Buffers] /\ BuffersHold
    BY <1>5, BuffersAre
  <1>7. TypeOK
    <2>1. shown \in [Clients -> Seq(Employees)] /\ typed \in [Clients -> Typed \cup {<<>>}]
      BY <1>3 DEF Init
    <2>2. /\ state \in [Clients -> {"start", "sent", "done"}]
          /\ answer \in [Clients -> {"none", "ok", "not present", "unanswered"}]
      BY DEF Init
    <2>3. {memory, disk, toolMemory} \subseteq Seq(Employees)
      BY <1>1, <1>3 DEF Init
    <2>4. cur = NoClient /\ pos = 1 /\ stage = 1 /\ saved = 0
      BY DEF Init
    <2>5. pos \in 1 .. (IF cur = NoClient THEN 1 ELSE Len(Cells) + 1)
      BY <2>4
    <2>6. {up, dirty, trusted} \subseteq BOOLEAN /\ tool \in {"off", "loaded"}
      BY DEF Init
    <2>7. toolRuns \in 0 .. MaxTool
      BY DEF Init, RequestsAssumption
    <2>8. cur \in Clients \cup {NoClient} /\ stage \in 1 .. 5 /\ saved \in 0 .. 3
      BY <2>4
    <2> QED  BY <1>2, <1>6, <2>1, <2>2, <2>3, <2>5, <2>6, <2>7, <2>8, Zenon DEF TypeOK
  <1>8. Asked /\ Serves
    BY DEF Init, Asked, Serves, Carried
  <1>9. Trust /\ MemoryIsDisk
    BY <1>1, <1>3 DEF Init, Trust, MemoryIsDisk
  <1> QED  BY <1>6, <1>7, <1>8, <1>9 DEF IInv

\* What the server has before it when it looks for an option.
Before(opts) ==
  /\ cur \in Clients /\ opts = typed[cur] /\ opts \in Seq(TypedOptions) /\ Accepted(opts)
  /\ Cells = Body(opts).cells
  /\ Carried = saved /\ Stands(opts, saved, pos)

LEMMA ServingBefore ==
  ASSUME RequestsAssumption, IInv, Serving
  PROVE  \E opts \in Typed : Before(opts)
  <1>1. cur # NoClient /\ dirty = FALSE /\ cur \in Clients /\ saved \in 0 .. 3
    BY DEF Serving, IInv, TypeOK
  <1>2. state[cur] = "sent" /\ Stands(typed[cur], Carried, pos)
    BY <1>1 DEF IInv, Serves
  <1>3. Sent(cur)
    BY <1>1, <1>2 DEF IInv, Asked
  <1>4. typed[cur] \in Typed /\ Accepted(typed[cur]) /\ Cells = Body(typed[cur]).cells
    BY <1>3 DEF Sent, Cells
  <1>5. Carried = saved
    BY <1>1 DEF Carried
  <1> QED  BY <1>1, <1>2, <1>4, <1>5, TypedAreOptions DEF Before

\* An option that is carried out on memory and not saved yet.
Carries(op, next, es) ==
  /\ Serving /\ Reads(op) /\ Moves(op, next) /\ Changed(es)
  /\ op \in {"add", "update", "delete"} /\ es \in Seq(Employees)
  /\ Stands(typed[cur], saved + 1, next)
  /\ trusted' \in BOOLEAN /\ (trusted' => trusted /\ Sound(es))
  /\ UNCHANGED <<clientVars, up, cur, saved, fileVars, toolVars>>

LEMMA CarriedKeeps ==
  ASSUME RequestsAssumption, IInv, NEW op, NEW next, NEW es, Carries(op, next, es)
  PROVE  IInv'
  <1>1. /\ UNCHANGED <<state, typed, buffer, answer, shown, up, cur, saved, disk, length>>
        /\ UNCHANGED <<tool, toolMemory, toolRuns>>
        /\ memory' = es /\ dirty' = TRUE /\ pos' = next /\ stage' = Letter[op] + 1
        /\ trusted' \in BOOLEAN /\ (trusted' => trusted /\ Sound(es))
    BY DEF Carries, Moves, Changed, clientVars, fileVars, toolVars
  <1>2. /\ op \in {"add", "update", "delete"} /\ es \in Seq(Employees)
        /\ up /\ cur # NoClient /\ dirty = FALSE /\ stage <= Letter[op]
        /\ Stands(typed[cur], saved + 1, next)
    BY DEF Carries, Serving, Reads, IInv, TypeOK
  <1>3. Letter[op] \in 1 .. 3
    BY <1>2 DEF Letter
  <1>4. PICK opts \in Typed : Before(opts)
    BY ServingBefore DEF Carries
  <1>5. next \in 1 .. Len(Cells) + 1
    BY <1>2, <1>4, StandsInside DEF Before
  <1>6. Cells' = Cells
    BY <1>1 DEF Cells
  <1>7. pos' \in 1 .. (IF cur' = NoClient THEN 1 ELSE Len(Cells') + 1)
    BY <1>1, <1>2, <1>5, <1>6
  <1>8. stage' \in 1 .. 5
    BY <1>1, <1>3
  <1>9. {memory', disk', toolMemory'} \subseteq Seq(Employees) /\ {up', dirty', trusted'} \subseteq BOOLEAN
    BY <1>1, <1>2 DEF IInv, TypeOK
  <1>10. TypeOK'
    BY <1>1, <1>7, <1>8, <1>9 DEF IInv, TypeOK
  <1>11. BuffersHold' /\ Asked'
    BY <1>1 DEF IInv, BuffersHold, Asked, Sent
  <1>12. Serves'
    <2>1. saved \in 0 .. 3 /\ stage \in 1 .. 5 /\ Carried = saved /\ Carried <= stage - 1
      BY <1>4 DEF IInv, TypeOK, Before, Serves
    <2>2. Carried' = saved + 1
      BY <1>1, <2>1 DEF Carried
    <2>3. Carried' <= stage' - 1 /\ stage' <= 4
      BY <1>1, <1>2, <1>3, <2>1, <2>2
    <2>4. state'[cur'] = "sent" /\ Stands(typed'[cur'], Carried', pos')
      BY <1>1, <1>2, <2>2 DEF IInv, Serves
    <2> QED  BY <1>1, <1>2, <2>3, <2>4 DEF Serves
  <1>13. Trust' /\ MemoryIsDisk'
    BY <1>1, <1>2 DEF IInv, Trust, MemoryIsDisk
  <1> QED  BY <1>10, <1>11, <1>12, <1>13 DEF IInv

LEMMA AddKeeps ==
  ASSUME OptionsAssumption, RequestsAssumption, IInv, AddOption
  PROVE  IInv'
  <1> DEFINE d == deserialize_add_employee_option(Cells, pos)
             e == d.employee
             es == Append(memory, e)
  <1>1. PICK opts \in Typed : Before(opts)
    BY ServingBefore DEF AddOption
  <1>2. /\ Serving /\ Reads("add") /\ Moves("add", d.next) /\ Changed(es)
        /\ trusted' = (trusted /\ Sound(<<e>>))
        /\ UNCHANGED <<clientVars, up, cur, saved, fileVars, toolVars>>
    BY DEF AddOption
  <1>3. d = deserialize_add_employee_option(Body(opts).cells, pos)
    BY <1>1 DEF Before
  <1>4. pos <= Len(Body(opts).cells) /\ Body(opts).cells[pos] = Letter["add"]
    BY <1>1, <1>2 DEF Reads, Before
  <1> HIDE DEF d
  <1>5. e \in Employees /\ Stands(opts, saved + 1, d.next)
    BY <1>1, <1>3, <1>4, AddRead DEF Before
  <1> HIDE DEF e
  <1>6. memory \in Seq(Employees) /\ trusted \in BOOLEAN
    BY DEF IInv, TypeOK
  <1>7. /\ es \in Seq(Employees)
        /\ Sound(memory) /\ Sound(<<e>>) => Sound(es)
    BY <1>5, <1>6, AppendArray
  <1> HIDE DEF es
  <1>8. trusted' \in BOOLEAN /\ (trusted' => trusted /\ Sound(es))
    BY <1>2, <1>6, <1>7 DEF IInv, Trust
  <1>9. Stands(typed[cur], saved + 1, d.next)
    BY <1>1, <1>5 DEF Before
  <1>10. Carries("add", d.next, es)
    BY <1>2, <1>7, <1>8, <1>9 DEF Carries
  <1> QED  BY <1>10, CarriedKeeps

LEMMA UpdateKeeps ==
  ASSUME OptionsAssumption, RequestsAssumption, IInv, UpdateOption
  PROVE  IInv'
  <1> DEFINE d == deserialize_update_employee_option(Cells, pos)
             es == update_employee(memory, d.name, d.hours)
  <1>1. PICK opts \in Typed : Before(opts)
    BY ServingBefore DEF UpdateOption
  <1>2. /\ Serving /\ Reads("update") /\ Moves("update", d.next) /\ Changed(es)
        /\ UNCHANGED <<clientVars, up, cur, saved, fileVars, toolVars, trusted>>
    BY DEF UpdateOption
  <1>3. d = deserialize_update_employee_option(Body(opts).cells, pos)
    BY <1>1 DEF Before
  <1>4. pos <= Len(Body(opts).cells) /\ Body(opts).cells[pos] = Letter["update"]
    BY <1>1, <1>2 DEF Reads, Before
  <1> HIDE DEF d
  <1>5. d.hours \in 0 .. HoursLimit - 1 /\ Stands(opts, saved + 1, d.next)
    BY <1>1, <1>3, <1>4, UpdateRead DEF Before
  <1>6. memory \in Seq(Employees) /\ trusted \in BOOLEAN
    BY DEF IInv, TypeOK
  <1>7. es \in Seq(Employees) /\ (Sound(memory) => Sound(es))
    BY <1>5, <1>6, UpdateArray
  <1> HIDE DEF es
  <1>8. trusted' \in BOOLEAN /\ (trusted' => trusted /\ Sound(es))
    BY <1>2, <1>6, <1>7 DEF IInv, Trust
  <1>9. Stands(typed[cur], saved + 1, d.next)
    BY <1>1, <1>5 DEF Before
  <1>10. Carries("update", d.next, es)
    BY <1>2, <1>7, <1>8, <1>9 DEF Carries
  <1> QED  BY <1>10, CarriedKeeps

LEMMA DeleteKeeps ==
  ASSUME OptionsAssumption, RequestsAssumption, IInv, DeleteOption
  PROVE  IInv'
  <1> DEFINE d == deserialize_delete_employee_option(Cells, pos)
             es == delete_employee(memory, d.name)
  <1>1. PICK opts \in Typed : Before(opts)
    BY ServingBefore DEF DeleteOption
  <1>2. /\ Serving /\ Reads("delete") /\ Moves("delete", d.next) /\ Changed(es)
        /\ Present(memory, d.name)
        /\ UNCHANGED <<clientVars, up, cur, saved, fileVars, toolVars, trusted>>
    BY DEF DeleteOption
  <1>3. d = deserialize_delete_employee_option(Body(opts).cells, pos)
    BY <1>1 DEF Before
  <1>4. pos <= Len(Body(opts).cells) /\ Body(opts).cells[pos] = Letter["delete"]
    BY <1>1, <1>2 DEF Reads, Before
  <1> HIDE DEF d
  <1>5. Stands(opts, saved + 1, d.next)
    BY <1>1, <1>3, <1>4, DeleteRead DEF Before
  <1>6. memory \in Seq(Employees) /\ trusted \in BOOLEAN
    BY DEF IInv, TypeOK
  <1>7. es \in Seq(Employees) /\ (Sound(memory) => Sound(es))
    BY <1>2, <1>6, DeleteArray
  <1> HIDE DEF es
  <1>8. trusted' \in BOOLEAN /\ (trusted' => trusted /\ Sound(es))
    BY <1>2, <1>6, <1>7 DEF IInv, Trust
  <1>9. Stands(typed[cur], saved + 1, d.next)
    BY <1>1, <1>5 DEF Before
  <1>10. Carries("delete", d.next, es)
    BY <1>2, <1>7, <1>8, <1>9 DEF Carries
  <1> QED  BY <1>10, CarriedKeeps

\* The file gets what memory holds.
LEMMA SaveKeeps ==
  ASSUME OptionsAssumption, IInv, write_db
  PROVE  IInv'
  <1>1. /\ UNCHANGED <<state, typed, buffer, answer, shown, up, memory, cur, pos, stage>>
        /\ UNCHANGED <<tool, toolMemory, toolRuns, trusted>>
        /\ up /\ dirty /\ disk' = memory /\ dirty' = FALSE /\ saved' = saved + 1
        /\ length' = IF CellsOf(memory) > length THEN CellsOf(memory) ELSE length
    BY DEF write_db, Writes, clientVars, toolVars
  <1>2. saved \in 0 .. 3 /\ stage \in 1 .. 5 /\ memory \in Seq(Employees) /\ length \in Nat
    BY DEF IInv, TypeOK
  <1>3. dirty = TRUE
    BY <1>1 DEF IInv, TypeOK
  <1>4. Carried' = Carried /\ Carried = saved + 1
    BY <1>1, <1>2, <1>3 DEF Carried
  <1>5. saved' \in 0 .. 3
    BY <1>1, <1>2, <1>4 DEF IInv, Serves
  <1>6. length' \in Nat
    BY <1>1, <1>2, CellsAreCounted
  <1>7. {memory', disk', toolMemory'} \subseteq Seq(Employees) /\ {up', dirty', trusted'} \subseteq BOOLEAN
    BY <1>1 DEF IInv, TypeOK
  <1>8. Cells' = Cells
    BY <1>1 DEF Cells
  <1>9. TypeOK'
    BY <1>1, <1>5, <1>6, <1>7, <1>8 DEF IInv, TypeOK
  <1>10. BuffersHold' /\ Asked'
    BY <1>1 DEF IInv, BuffersHold, Asked, Sent
  <1>11. Serves'
    BY <1>1, <1>4 DEF IInv, Serves
  <1>12. Trust' /\ MemoryIsDisk'
    BY <1>1 DEF IInv, Trust, MemoryIsDisk
  <1> QED  BY <1>9, <1>10, <1>11, <1>12 DEF IInv

\* An answer ends the request of the client that is served, and nobody
\* else's.
Ends(r) ==
  /\ Serving /\ Answers(r) /\ r \in {"ok", "not present"}
  /\ buffer' \in [Clients -> Buffer]
  /\ \A c \in Clients : c # cur => buffer'[c] = buffer[c]
  /\ shown' \in [Clients -> Seq(Employees)]

LEMMA AnswerKeeps ==
  ASSUME IInv, NEW r, Ends(r)
  PROVE  IInv'
  <1>1. /\ state' = [state EXCEPT ![cur] = "done"]
        /\ answer' = [answer EXCEPT ![cur] = r]
        /\ typed' = [typed EXCEPT ![cur] = <<>>]
        /\ cur' = NoClient /\ pos' = 1 /\ stage' = 1 /\ saved' = 0
        /\ UNCHANGED <<up, memory, dirty, disk, length, tool, toolMemory, toolRuns, trusted>>
        /\ cur # NoClient /\ dirty = FALSE
    BY DEF Ends, Answers, Gives, fileVars, toolVars, Serving, IInv, TypeOK
  <1>0. cur' = NoClient /\ pos' = 1 /\ stage' = 1 /\ saved' = 0 /\ dirty' = FALSE
    BY <1>1, Zenon
  <1>2. buffer' \in [Clients -> Buffers] /\ BuffersHold'
    BY DEF Ends, Buffers, Buffer, BuffersHold
  <1>3. /\ state' \in [Clients -> {"start", "sent", "done"}]
        /\ answer' \in [Clients -> {"none", "ok", "not present", "unanswered"}]
        /\ typed' \in [Clients -> Typed \cup {<<>>}]
    BY <1>1 DEF IInv, TypeOK, Ends
  <1>4. /\ cur' \in Clients \cup {NoClient} /\ stage' \in 1 .. 5 /\ saved' \in 0 .. 3
        /\ pos' \in 1 .. (IF cur' = NoClient THEN 1 ELSE Len(Cells') + 1)
    <2> DEFINE l == Len(Cells') + 1
    <2> HIDE DEF l
    <2>1. pos' \in 1 .. (IF cur' = NoClient THEN 1 ELSE l)
      BY <1>0
    <2>2. cur' \in Clients \cup {NoClient} /\ stage' \in 1 .. 5 /\ saved' \in 0 .. 3
      BY <1>0
    <2> QED  BY <2>1, <2>2, Zenon DEF l
  <1>5. /\ {memory', disk', toolMemory'} \subseteq Seq(Employees)
        /\ {up', dirty', trusted'} \subseteq BOOLEAN
        /\ length' \in Nat /\ tool' \in {"off", "loaded"} /\ toolRuns' \in 0 .. MaxTool
    BY <1>1 DEF IInv, TypeOK
  <1>6. TypeOK'
    BY <1>2, <1>3, <1>4, <1>5, Zenon DEF Ends, TypeOK
  <1>7. ASSUME NEW c \in Clients, state'[c] = "sent"
        PROVE  Sent(c)'
    <2>1. c # cur /\ state[c] = "sent"
      BY <1>1, <1>7 DEF IInv, TypeOK
    <2>2. typed'[c] = typed[c] /\ buffer'[c] = buffer[c]
      BY <1>1, <2>1 DEF IInv, TypeOK, Ends
    <2>3. Sent(c)
      BY <2>1 DEF IInv, Asked
    <2> QED  BY <2>2, <2>3 DEF Sent
  <1>8. Asked'
    BY <1>7 DEF Asked
  <1>9. Serves'
    <2>1. Carried' = 0
      BY <1>0 DEF Carried
    <2>2. dirty' = FALSE
      BY <1>0, Zenon
    <2>3. Carried' <= stage' - 1 /\ stage' <= 4
      BY <1>0, <2>1
    <2> QED  BY <1>0, <2>2, <2>3, Zenon DEF Serves
  <1>10. Trust' /\ MemoryIsDisk'
    BY <1>1 DEF IInv, Trust, MemoryIsDisk
  <1> QED  BY <1>2, <1>6, <1>8, <1>9, <1>10 DEF IInv

LEMMA NoOptionKeeps ==
  ASSUME IInv, NotPresent \/ Finish
  PROVE  IInv'
  <1>1. Serving /\ UNCHANGED <<buffer, shown>> /\ (Answers("not present") \/ Answers("ok"))
    BY DEF NotPresent, Finish
  <1>2. buffer \in [Clients -> Buffer]
    BY BuffersAre DEF IInv, TypeOK
  <1>3. buffer' \in [Clients -> Buffer] /\ \A c \in Clients : c # cur => buffer'[c] = buffer[c]
    BY <1>1, <1>2
  <1>4. shown' \in [Clients -> Seq(Employees)]
    BY <1>1 DEF IInv, TypeOK
  <1> QED  BY <1>1, <1>3, <1>4, AnswerKeeps DEF Ends

\* The listing replaces the request in the buffer of its connection.
LEMMA ListKeeps ==
  ASSUME OptionsAssumption, IInv, ListOption
  PROVE  IInv'
  <1> DEFINE b == serialize_list_employee_response(memory)
  <1>1. /\ Serving /\ Answers("ok")
        /\ buffer' = [buffer EXCEPT ![cur] = b]
    BY DEF ListOption
  <1>2. PICK u \in Uninit :
          shown' = [shown EXCEPT ![cur] = deserialize_list_employee_response(b.cells, u)]
    BY DEF ListOption
  <1>3. memory \in Seq(Employees)
    BY DEF IInv, TypeOK
  <1>4. b \in Buffer
    BY <1>3, ListingFits
  <1>5. deserialize_list_employee_response(b.cells, u) \in Seq(Employees)
    BY <1>3, ListingSurvives
  <1> HIDE DEF b
  <1>6. buffer \in [Clients -> Buffer]
    BY BuffersAre DEF IInv, TypeOK
  <1>7. buffer' \in [Clients -> Buffer] /\ \A c \in Clients : c # cur => buffer'[c] = buffer[c]
    BY <1>1, <1>4, <1>6
  <1>8. shown' \in [Clients -> Seq(Employees)]
    BY <1>2, <1>5 DEF IInv, TypeOK
  <1> QED  BY <1>1, <1>7, <1>8, AnswerKeeps DEF Ends

\* What a client sends is what it typed, if the server would take all of it.
LEMMA SendKeeps ==
  ASSUME OptionsAssumption, RequestsAssumption, IInv, NEW c \in Clients, Send(c)
  PROVE  IInv'
  <1>1. PICK opts \in Typed :
          IF up /\ ~ \E k \in DOMAIN opts : Rejected(opts[k])
          THEN /\ state' = [state EXCEPT ![c] = "sent"]
               /\ typed' = [typed EXCEPT ![c] = opts]
               /\ buffer' = [buffer EXCEPT ![c] = Body(opts)]
               /\ UNCHANGED answer
          ELSE Gives(c, "unanswered") /\ UNCHANGED buffer
    BY DEF Send
  <1>2. /\ state[c] = "start"
        /\ UNCHANGED <<shown, up, memory, cur, pos, stage, saved, dirty, disk, length>>
        /\ UNCHANGED <<tool, toolMemory, toolRuns, trusted>>
    BY DEF Send, requestVars, fileVars, toolVars
  <1>3. /\ \A d \in Clients : d # c => /\ state'[d] = state[d] /\ typed'[d] = typed[d]
                                       /\ buffer'[d] = buffer[d]
        /\ state'[c] \in {"sent", "done"}
        /\ state' \in [Clients -> {"start", "sent", "done"}]
        /\ answer' \in [Clients -> {"none", "ok", "not present", "unanswered"}]
        /\ typed' \in [Clients -> Typed \cup {<<>>}]
    <2>1. /\ state \in [Clients -> {"start", "sent", "done"}]
          /\ answer \in [Clients -> {"none", "ok", "not present", "unanswered"}]
          /\ typed \in [Clients -> Typed \cup {<<>>}]
          /\ buffer \in [Clients -> Buffers]
      BY DEF IInv, TypeOK
    <2>2. CASE up /\ ~ \E k \in DOMAIN opts : Rejected(opts[k])
      <3>1. /\ state' = [state EXCEPT ![c] = "sent"] /\ answer' = answer
            /\ typed' = [typed EXCEPT ![c] = opts]
            /\ buffer' = [buffer EXCEPT ![c] = Body(opts)]
        BY <1>1, <2>2, Zenon
      <3> QED  BY <2>1, <3>1
    <2>3. CASE ~(up /\ ~ \E k \in DOMAIN opts : Rejected(opts[k]))
      <3>1. /\ state' = [state EXCEPT ![c] = "done"] /\ buffer' = buffer
            /\ typed' = [typed EXCEPT ![c] = <<>>]
            /\ answer' = [answer EXCEPT ![c] = "unanswered"]
        BY <1>1, <2>3, Zenon DEF Gives
      <3> QED  BY <2>1, <3>1
    <2> QED  BY <2>2, <2>3
  <1>4. opts \in Seq(TypedOptions)
    BY TypedAreOptions
  <1>5. Body(opts) \in Buffer
    BY <1>4, BodyFits
  <1>6. buffer \in [Clients -> Buffer]
    BY BuffersAre DEF IInv, TypeOK
  <1>7. buffer' \in [Clients -> Buffer]
    BY <1>1, <1>5, <1>6
  <1>8. buffer' \in [Clients -> Buffers] /\ BuffersHold'
    BY <1>7 DEF Buffers, Buffer, BuffersHold
  <1>9. state'[c] = "sent" => Sent(c)'
    <2>1. SUFFICES ASSUME state'[c] = "sent" PROVE Sent(c)'
      OBVIOUS
    <2>2. up /\ ~ \E k \in DOMAIN opts : Rejected(opts[k])
      BY <1>1, <2>1 DEF Gives, IInv, TypeOK
    <2>3. typed'[c] = opts /\ buffer'[c] = Body(opts)
      BY <1>1, <1>6, <2>2 DEF IInv, TypeOK
    <2>4. DOMAIN opts = 1 .. Len(opts)
      BY <1>4
    <2>5. Accepted(opts)
      BY <2>2, <2>4 DEF Accepted
    <2> QED  BY <2>3, <2>5 DEF Sent
  <1>10. Asked'
    <2>1. ASSUME NEW d \in Clients, d # c, state'[d] = "sent" PROVE Sent(d)'
      BY <1>3, <2>1 DEF IInv, Asked, Sent
    <2> QED  BY <1>9, <2>1 DEF Asked
  <1>11. cur # NoClient => cur \in Clients /\ cur # c
    BY <1>2 DEF IInv, TypeOK, Serves
  <1>12. cur # NoClient => Cells' = Cells
    BY <1>2, <1>3, <1>11 DEF Cells
  <1>13. pos' \in 1 .. (IF cur' = NoClient THEN 1 ELSE Len(Cells') + 1)
    <2>1. pos \in 1 .. (IF cur = NoClient THEN 1 ELSE Len(Cells) + 1)
      BY DEF IInv, TypeOK
    <2>2. CASE cur = NoClient
      BY <1>2, <2>1, <2>2
    <2>3. CASE cur # NoClient
      BY <1>2, <1>12, <2>1, <2>3
    <2> QED  BY <2>2, <2>3
  <1>14. /\ {memory', disk', toolMemory'} \subseteq Seq(Employees)
         /\ {up', dirty', trusted'} \subseteq BOOLEAN
         /\ cur' \in Clients \cup {NoClient} /\ stage' \in 1 .. 5 /\ saved' \in 0 .. 3
         /\ length' \in Nat /\ tool' \in {"off", "loaded"} /\ toolRuns' \in 0 .. MaxTool
         /\ shown' \in [Clients -> Seq(Employees)]
    BY <1>2 DEF IInv, TypeOK
  <1>15. TypeOK'
    BY <1>3, <1>8, <1>13, <1>14, Zenon DEF TypeOK
  <1>16. Serves'
    <2>1. Carried' = Carried
      BY <1>2 DEF Carried
    <2> QED  BY <1>2, <1>3, <1>11, <2>1 DEF IInv, Serves
  <1>17. Trust' /\ MemoryIsDisk'
    BY <1>2 DEF IInv, Trust, MemoryIsDisk
  <1> QED  BY <1>8, <1>10, <1>15, <1>16, <1>17 DEF IInv

\* The server looks at a request from its beginning.
LEMMA TakeKeeps ==
  ASSUME OptionsAssumption, RequestsAssumption, IInv, NEW c \in Clients, Take(c)
  PROVE  IInv'
  <1>1. /\ up /\ cur = NoClient /\ state[c] = "sent"
        /\ cur' = c /\ pos' = 1 /\ stage' = 1 /\ saved' = 0
        /\ UNCHANGED <<state, typed, buffer, answer, shown, up, memory, dirty, disk, length>>
        /\ UNCHANGED <<tool, toolMemory, toolRuns, trusted>>
    BY DEF Take, clientVars, fileVars, toolVars
  <1>2. c # NoClient /\ dirty = FALSE
    BY <1>1, RequestsAssumption DEF IInv, TypeOK, Serves, RequestsAssumption
  <1>3. typed[c] \in Seq(TypedOptions)
    BY <1>1, TypedAreOptions DEF IInv, Asked, Sent
  <1>4. Stands(typed[c], 0, 1)
    BY <1>3, StandsFirst
  <1>5. Cells' = buffer[c].cells
    BY <1>1 DEF Cells
  <1>6. Len(Cells') \in Nat
    <2>1. buffer[c] \in Buffers
      BY DEF IInv, TypeOK
    <2>2. Cells' \in Seq(Nat)
      BY <1>5, <2>1 DEF Buffers
    <2> QED  BY <2>2
  <1>7. pos' \in 1 .. (IF cur' = NoClient THEN 1 ELSE Len(Cells') + 1)
    BY <1>1, <1>2, <1>6
  <1>8. stage' \in 1 .. 5 /\ saved' \in 0 .. 3 /\ cur' \in Clients \cup {NoClient}
    BY <1>1
  <1>9. TypeOK'
    BY <1>1, <1>7, <1>8 DEF IInv, TypeOK
  <1>10. BuffersHold' /\ Asked'
    BY <1>1 DEF IInv, BuffersHold, Asked, Sent
  <1>11. Serves'
    <2>1. Carried' = 0
      BY <1>1, <1>2 DEF Carried
    <2>2. Carried' <= stage' - 1 /\ stage' <= 4
      BY <1>1, <2>1
    <2>3. dirty' = FALSE
      BY <1>1, <1>2
    <2>4. Stands(typed'[cur'], Carried', pos') /\ state'[cur'] = "sent" /\ up'
      BY <1>1, <1>4, <2>1
    <2> QED  BY <2>2, <2>3, <2>4, Zenon DEF Serves
  <1>12. Trust' /\ MemoryIsDisk'
    BY <1>1 DEF IInv, Trust, MemoryIsDisk
  <1> QED  BY <1>9, <1>10, <1>11, <1>12 DEF IInv

\* Nobody waits for a server that ended.
LEMMA CrashKeeps ==
  ASSUME IInv, Crash
  PROVE  IInv'
  <1>1. /\ up' = FALSE /\ memory' = <<>> /\ dirty' = FALSE
        /\ cur' = NoClient /\ pos' = 1 /\ stage' = 1 /\ saved' = 0
        /\ state' = [c \in Clients |-> IF state[c] = "sent" THEN "done" ELSE state[c]]
        /\ answer' = [c \in Clients |-> IF state[c] = "sent" THEN "unanswered" ELSE answer[c]]
        /\ typed' = [c \in Clients |-> <<>>]
        /\ UNCHANGED <<buffer, shown, disk, length, tool, toolMemory, toolRuns, trusted>>
    BY DEF Crash, fileVars, toolVars
  <1>2. memory' \in Seq(Employees) /\ Sound(memory')
    BY <1>1, EmptyArray
  <1>3. /\ state' \in [Clients -> {"start", "sent", "done"}]
        /\ answer' \in [Clients -> {"none", "ok", "not present", "unanswered"}]
        /\ typed' \in [Clients -> Typed \cup {<<>>}]
    BY <1>1 DEF IInv, TypeOK
  <1>4. cur' \in Clients \cup {NoClient} /\ stage' \in 1 .. 5 /\ saved' \in 0 .. 3
    BY <1>1
  <1>5. pos' \in 1 .. (IF cur' = NoClient THEN 1 ELSE Len(Cells') + 1)
    <2> DEFINE l == Len(Cells') + 1
    <2> HIDE DEF l
    <2>1. pos' \in 1 .. (IF cur' = NoClient THEN 1 ELSE l)
      BY <1>1
    <2> QED  BY <2>1 DEF l
  <1>6. /\ {memory', disk', toolMemory'} \subseteq Seq(Employees)
        /\ {up', dirty', trusted'} \subseteq BOOLEAN
        /\ length' \in Nat /\ tool' \in {"off", "loaded"} /\ toolRuns' \in 0 .. MaxTool
        /\ shown' \in [Clients -> Seq(Employees)] /\ buffer' \in [Clients -> Buffers]
    BY <1>1, <1>2 DEF IInv, TypeOK
  <1>7. TypeOK'
    BY <1>3, <1>4, <1>5, <1>6, Zenon DEF TypeOK
  <1>8. BuffersHold'
    BY <1>1 DEF IInv, BuffersHold
  <1>9. Asked'
    BY <1>1 DEF IInv, TypeOK, Asked
  <1>10. Serves'
    <2>1. Carried' = 0
      BY <1>1 DEF Carried
    <2>2. Carried' <= stage' - 1 /\ stage' <= 4
      BY <1>1, <2>1
    <2>3. dirty' = FALSE
      BY <1>1
    <2> QED  BY <1>1, <2>2, <2>3, Zenon DEF Serves
  <1>11. Trust' /\ MemoryIsDisk'
    BY <1>1, <1>2 DEF IInv, Trust, MemoryIsDisk
  <1> QED  BY <1>7, <1>8, <1>9, <1>10, <1>11 DEF IInv

\* What the server and the requests have is left alone, but for memory.
Aside ==
  UNCHANGED <<state, typed, buffer, answer, shown, cur, pos, stage, saved, dirty>>

LEMMA AsideKeeps ==
  ASSUME IInv, Aside, up => up'
  PROVE  BuffersHold' /\ Asked' /\ Serves' /\ Cells' = Cells
  <1>1. UNCHANGED <<state, typed, buffer, answer, shown, cur, pos, stage, saved, dirty>>
    BY DEF Aside
  <1>2. Carried' = Carried
    BY <1>1 DEF Carried
  <1> QED  BY <1>1, <1>2 DEF IInv, BuffersHold, Asked, Sent, Serves, Cells

\* A server that starts has what was saved, unless it was not read as it
\* was written.
LEMMA StartKeeps ==
  ASSUME OptionsAssumption, IInv, Start
  PROVE  IInv'
  <1>1. PICK u \in Uninit : memory' = Reloaded(disk, u)
    BY DEF Start
  <1>2. /\ ~up /\ up' = TRUE /\ trusted' = (trusted /\ tool = "off") /\ Aside
        /\ UNCHANGED <<disk, length, tool, toolMemory, toolRuns>>
    BY DEF Start, Aside, clientVars, requestVars, fileVars, toolVars
  <1>3. disk \in Seq(Employees) /\ u \in Seq(Nat)
    BY DEF IInv, TypeOK, OptionsAssumption
  <1>4. memory' \in Seq(Employees) /\ (Sound(disk) => memory' = disk)
    BY <1>1, <1>3, ReloadArray
  <1>5. BuffersHold' /\ Asked' /\ Serves' /\ Cells' = Cells
    BY <1>2, AsideKeeps
  <1>6. {memory', disk', toolMemory'} \subseteq Seq(Employees) /\ {up', dirty', trusted'} \subseteq BOOLEAN
    BY <1>2, <1>4 DEF IInv, TypeOK, Aside
  <1>7. TypeOK'
    BY <1>2, <1>5, <1>6 DEF IInv, TypeOK, Aside
  <1>8. Trust' /\ MemoryIsDisk'
    BY <1>2, <1>4 DEF IInv, Trust, MemoryIsDisk
  <1> QED  BY <1>5, <1>7, <1>8 DEF IInv

LEMMA LoadKeeps ==
  ASSUME OptionsAssumption, RequestsAssumption, IInv, ToolLoads
  PROVE  IInv'
  <1>1. PICK opts \in ToolTyped, u \in Uninit :
          LET r == Applied(Reloaded(disk, u), opts)
          IN  \/ r.ok /\ tool' = "loaded" /\ toolMemory' = r.es
              \/ UNCHANGED <<tool, toolMemory>>
    BY DEF ToolLoads
  <1>2. /\ tool = "off" /\ trusted' = (trusted /\ ~up) /\ Aside
        /\ toolRuns < MaxTool /\ toolRuns' = toolRuns + 1
        /\ UNCHANGED <<up, memory, disk, length>>
    BY DEF ToolLoads, Aside, clientVars, requestVars, fileVars
  <1>3. disk \in Seq(Employees) /\ u \in Seq(Nat)
    BY DEF IInv, TypeOK, OptionsAssumption
  <1>4. Reloaded(disk, u) \in Seq(Employees)
    BY <1>3, ReloadArray
  <1>5. Applied(Reloaded(disk, u), opts).es \in Seq(Employees)
    BY <1>4, AppliedArray
  <1>6. toolMemory' \in Seq(Employees) /\ tool' \in {"off", "loaded"}
    BY <1>1, <1>5 DEF IInv, TypeOK
  <1>7. BuffersHold' /\ Asked' /\ Serves' /\ Cells' = Cells
    BY <1>2, AsideKeeps
  <1>8. {memory', disk', toolMemory'} \subseteq Seq(Employees) /\ {up', dirty', trusted'} \subseteq BOOLEAN
    BY <1>2, <1>6 DEF IInv, TypeOK, Aside
  <1>9. toolRuns' \in 0 .. MaxTool
    <2>1. MaxTool \in Nat /\ toolRuns \in 0 .. MaxTool
      BY RequestsAssumption DEF IInv, TypeOK, RequestsAssumption
    <2>2. toolRuns < MaxTool /\ toolRuns' = toolRuns + 1
      BY <1>2
    <2> QED  BY <2>1, <2>2
  <1>10. TypeOK'
    BY <1>2, <1>6, <1>7, <1>8, <1>9 DEF IInv, TypeOK, Aside
  <1>11. Trust' /\ MemoryIsDisk'
    BY <1>2 DEF IInv, Trust, MemoryIsDisk, Aside
  <1> QED  BY <1>7, <1>10, <1>11 DEF IInv

LEMMA ToolKeeps ==
  ASSUME OptionsAssumption, IInv, ToolSaves
  PROVE  IInv'
  <1>1. /\ tool = "loaded" /\ disk' = toolMemory
        /\ length' = IF CellsOf(toolMemory) > length THEN CellsOf(toolMemory) ELSE length
        /\ tool' = "off" /\ toolMemory' = <<>>
        /\ trusted' = (trusted /\ Sound(toolMemory)) /\ Aside
        /\ UNCHANGED <<up, memory, toolRuns>>
    BY DEF ToolSaves, Writes, Aside, clientVars, requestVars
  <1>2. toolMemory \in Seq(Employees) /\ length \in Nat
    BY DEF IInv, TypeOK
  <1>3. length' \in Nat
    BY <1>1, <1>2, CellsAreCounted
  <1>4. BuffersHold' /\ Asked' /\ Serves' /\ Cells' = Cells
    BY <1>1, AsideKeeps
  <1>5. {memory', disk', toolMemory'} \subseteq Seq(Employees) /\ {up', dirty', trusted'} \subseteq BOOLEAN
    BY <1>1, EmptyArray DEF IInv, TypeOK, Aside, Sound
  <1>6. TypeOK'
    BY <1>1, <1>3, <1>4, <1>5 DEF IInv, TypeOK, Aside
  <1>7. Trust' /\ MemoryIsDisk'
    BY <1>1 DEF IInv, Trust, MemoryIsDisk, Aside
  <1> QED  BY <1>4, <1>6, <1>7 DEF IInv

\* Every step keeps the invariant.
LEMMA NextIInv ==
  ASSUME OptionsAssumption, RequestsAssumption, IInv, [Next]_vars
  PROVE  IInv'
  <1>1. CASE \E c \in Clients : Send(c) \/ Take(c)
    BY <1>1, SendKeeps, TakeKeeps
  <1>2. CASE Serve
    BY <1>2, AddKeeps, UpdateKeeps, DeleteKeeps, SaveKeeps, NoOptionKeeps, ListKeeps
    DEF Serve
  <1>3. CASE Crash \/ Start \/ ToolLoads \/ ToolSaves
    BY <1>3, CrashKeeps, StartKeeps, LoadKeeps, ToolKeeps
  <1>4. CASE UNCHANGED vars
    <2>1. Aside /\ UNCHANGED <<up, memory, disk, length, tool, toolMemory, toolRuns, trusted>>
      BY <1>4 DEF vars, Aside, clientVars, requestVars, fileVars, toolVars
    <2>2. BuffersHold' /\ Asked' /\ Serves' /\ Cells' = Cells
      BY <2>1, AsideKeeps
    <2>3. TypeOK' /\ Trust' /\ MemoryIsDisk'
      BY <2>1, <2>2 DEF IInv, TypeOK, Trust, MemoryIsDisk, Aside
    <2> QED  BY <2>2, <2>3 DEF IInv
  <1> QED  BY <1>1, <1>2, <1>3, <1>4 DEF Next

\* The inductive invariant, for every value of the constants.
THEOREM Invariance ==
  ASSUME OptionsAssumption, RequestsAssumption
  PROVE  Spec => []IInv
  <1> QED  BY InitIInv, NextIInv, OptionsAssumption, RequestsAssumption, PTL DEF Spec

\* Every variable keeps its type: whatever the options are called and however
\* they are combined, what the server takes out of a request is an employee,
\* hours that fit or a name, and its cursor never leaves the request (proto.c
\* deserialize_request_options).
THEOREM TypeCorrect ==
  ASSUME OptionsAssumption, RequestsAssumption
  PROVE  Spec => []TypeOK
  <1>1. IInv => TypeOK
    BY DEF IInv
  <1> QED  BY <1>1, Invariance, PTL

\* No request and no listing is written past the end of its buffer (proto.c
\* resize_buffer, serialize_*).
THEOREM BuffersFit ==
  ASSUME OptionsAssumption, RequestsAssumption
  PROVE  Spec => []BuffersHold
  <1>1. IInv => BuffersHold
    BY DEF IInv
  <1> QED  BY <1>1, Invariance, PTL

\* Between two options and after every restart the server holds exactly what
\* the file holds (proto.c deserialize_request_options, serialize.c).
THEOREM MemoryMatchesFile ==
  ASSUME OptionsAssumption, RequestsAssumption
  PROVE  Spec => []MemoryIsDisk
  <1>1. IInv => MemoryIsDisk
    BY DEF IInv
  <1> QED  BY <1>1, Invariance, PTL
=============================================================================
