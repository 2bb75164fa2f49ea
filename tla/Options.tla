------------------------------ MODULE Options ------------------------------
(***************************************************************************)
(* The options of a request and the rows of a listing: how they are put    *)
(* into buffers and taken out again (src/proto.c), what they do to the     *)
(* array of employees (src/proto.c, src/parse.c), and the widths of the    *)
(* fields they pass through.                                               *)
(*                                                                         *)
(* A buffer is a sequence of cells, one per field or character, with the   *)
(* capacity it was allocated with.  Strings are sequences of characters,   *)
(* and the letters of the options are characters like any other.           *)
(***************************************************************************)
EXTENDS Integers, Sequences

CONSTANTS
  LenLimit,    \* 2^16: a length is a uint16_t
  HoursLimit,  \* 2^32: hours are a uint32_t
  InitRows,    \* rows the client makes room for at first (32)
  Uninit       \* strings that memory from malloc() may happen to hold

ASSUME OptionsAssumption ==
  /\ LenLimit \in Nat \ {0} /\ HoursLimit \in Nat \ {0}
  /\ InitRows \in Nat \ {0}
  /\ Uninit \subseteq Seq(Nat) /\ Uninit # {}

Letter == [add |-> 1, update |-> 2, delete |-> 3, list |-> 4]

Employees == [name : Seq(Nat), address : Seq(Nat), hours : 0 .. HoursLimit - 1]

\* An option as it is typed, its hours a number that may not fit.
TypedOptions ==
  [op : {"add"}, name : Seq(Nat), address : Seq(Nat), hours : Int]
    \cup [op : {"update"}, name : Seq(Nat), hours : Int]
    \cup [op : {"delete"}, name : Seq(Nat)] \cup [op : {"list"}]

-----------------------------------------------------------------------------
(* The array of employees. *)

Matching(es, n) == {k \in 1 .. Len(es) : es[k].name = n}
Present(es, n) == Matching(es, n) # {}

\* The loops stop at the first employee that strcmp() matches.
First(es, n) == CHOOSE k \in Matching(es, n) : \A j \in Matching(es, n) : k <= j

update_employee(es, n, h) ==
  [es EXCEPT ![First(es, n)] = [name |-> @.name, address |-> @.address, hours |-> h]]

\* The last employee fills the hole.
DropLast(es, n) == SubSeq(es, 1, Len(es) - 1)
delete_employee(es, n) ==
  SubSeq([es EXCEPT ![First(es, n)] = es[Len(es)]], 1, Len(es) - 1)

-----------------------------------------------------------------------------
(* Parsing and encoding, in the client. *)

\* strtol() gives a long, the assignment keeps 32 bits of it.
AsTyped(h) == h
parse_employee_hours(h) == h % HoursLimit

TooLong(s) == Len(s) > LenLimit - 1
Str(s) == <<Len(s) % LenLimit>> \o s

Empty == [cells |-> <<>>, capacity |-> 0]
Room(b) == b.capacity - Len(b.cells)
resize_buffer(b, n) ==
  IF Room(b) < n THEN [b EXCEPT !.capacity = @ + n - Room(b)] ELSE b
Write(b, xs) == [b EXCEPT !.cells = @ \o xs]

\* data_len, with one cell for each length and for the hours.
NoLetter(o) ==
  CASE o.op = "add"    -> Len(o.name) + Len(o.address) + 2 + 1
    [] o.op = "update" -> Len(o.name) + 1 + 1
    [] o.op = "delete" -> Len(o.name) + 1
    [] o.op = "list"   -> 0
data_len(o) == NoLetter(o) + 1

Rejected(o) ==
  \/ o.op # "list" /\ TooLong(o.name)
  \/ o.op = "add" /\ TooLong(o.address)

Fields(o) ==
  CASE o.op = "add"    -> Str(o.name) \o Str(o.address) \o <<parse_employee_hours(o.hours)>>
    [] o.op = "update" -> Str(o.name) \o <<parse_employee_hours(o.hours)>>
    [] o.op = "delete" -> Str(o.name)
    [] o.op = "list"   -> <<>>

serialize_option(b, o) ==
  Write(resize_buffer(b, data_len(o)), <<Letter[o.op]>> \o Fields(o))

\* The body of a request; the header before it was allocated with it.
Body(opts) ==
  LET upto[k \in 0 .. Len(opts)] ==
        IF k = 0 THEN Empty
        ELSE LET before == upto[k - 1] IN serialize_option(before, opts[k])
  IN  upto[Len(opts)]

-----------------------------------------------------------------------------
(* Decoding, in the server: the option whose letter is at p. *)

StrAt(cells, p) == SubSeq(cells, p + 1, p + cells[p])
After(cells, p) == p + cells[p] + 1

deserialize_add_employee_option(cells, p) ==
  LET q == After(cells, p + 1)
      r == After(cells, q)
  IN  [employee |-> [name |-> StrAt(cells, p + 1), address |-> StrAt(cells, q),
                     hours |-> cells[r]],
       next |-> r + 1]

deserialize_update_employee_option(cells, p) ==
  LET q == After(cells, p + 1)
  IN  [name |-> StrAt(cells, p + 1), hours |-> cells[q], next |-> q + 1]

deserialize_delete_employee_option(cells, p) ==
  [name |-> StrAt(cells, p + 1), next |-> After(cells, p + 1)]

-----------------------------------------------------------------------------
(* Strings with their terminator, as rows and the file hold them: of the   *)
(* length 16 bits are kept and so many characters, none of a string one    *)
(* shorter than the limit.  What is read back is put into memory of that   *)
(* length, and without a terminator the string goes on with what follows.  *)

FieldLen(s) == (Len(s) + 1) % LenLimit
FieldCells(s) == SubSeq(Append(s, 0), 1, FieldLen(s))
FieldStr(s) == <<FieldLen(s)>> \o FieldCells(s)

Row(e) == FieldStr(e.name) \o FieldStr(e.address) \o <<e.hours>>

serialize_list_employee_response(es) ==
  LET upto[k \in 0 .. Len(es)] ==
        IF k = 0 THEN Empty
        ELSE LET before == upto[k - 1]
             IN  Write(resize_buffer(before, Len(Row(es[k]))), Row(es[k]))
  IN  upto[Len(es)]

\* The string that starts with these cells, if the memory after them holds u.
InMemory(f, u) ==
  IF f # <<>> /\ f[Len(f)] = 0 THEN SubSeq(f, 1, Len(f) - 1) ELSE f \o u

FieldAt(cells, p, u) == InMemory(StrAt(cells, p), u)

\* A row nobody wrote.
NoRow(u) == [name |-> u, address |-> u, hours |-> 0]

\* One round of the client's loop.  A full array is replaced by one twice as
\* long, into which nothing is copied.
NextRow(cells, r, u) ==
  LET q == After(cells, r.next)
      e == [name |-> FieldAt(cells, r.next, u), address |-> FieldAt(cells, q, u),
            hours |-> cells[After(cells, q)]]
      kept == IF Len(r.rows) = r.size THEN [k \in 1 .. r.size |-> NoRow(u)] ELSE r.rows
  IN  [next |-> After(cells, q) + 1, rows |-> Append(kept, e),
       size |-> IF Len(r.rows) = r.size THEN 2 * r.size ELSE r.size]

\* The loop runs until it has read every cell, at most Len(cells) times.
deserialize_list_employee_response(cells, u) ==
  LET upto[k \in 0 .. Len(cells)] ==
        IF k = 0 THEN [next |-> 1, rows |-> <<>>, size |-> InitRows]
        ELSE LET before == upto[k - 1]
             IN  IF before.next > Len(cells) THEN before
                 ELSE NextRow(cells, before, u)
  IN  upto[Len(cells)].rows

-----------------------------------------------------------------------------
(* A string that has been through the file. *)

Reread(s, u) == InMemory(FieldCells(s), u)
Reloaded(es, u) ==
  [k \in DOMAIN es |-> [name |-> Reread(es[k].name, u),
                        address |-> Reread(es[k].address, u), hours |-> es[k].hours]]
Fits(s) == Len(s) + 1 < LenLimit
Sound(es) == \A k \in DOMAIN es : Fits(es[k].name) /\ Fits(es[k].address)
CellsOf(es) == Len(serialize_list_employee_response(es).cells)
=============================================================================
