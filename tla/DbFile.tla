------------------------------- MODULE DbFile -------------------------------
(***************************************************************************)
(* The database file: how a process opens it, changes the employees in     *)
(* memory and rewrites the file in place (src/serialize.c), and what a     *)
(* process that ends between two write() calls leaves behind.              *)
(*                                                                         *)
(* The file is a header (size, count) followed by cells: a field's length, *)
(* the field, the hours.  The field is the string and its null, cut to a   *)
(* length of 16 bits: a string that is too long is read back as something  *)
(* else.  An employee has one string here, his name; his address is stored *)
(* after it in the same way.  One process at a time has the file open: the *)
(* server, which saves after every option of a request, or the cli, which  *)
(* saves once and exits.                                                   *)
(***************************************************************************)
EXTENDS Integers, Sequences, FiniteSets

CONSTANTS
  Names,        \* strings, as sequences of numbers that are not 0
  LenLimit,     \* 2^16: lengths are taken modulo this
  Uninit,       \* what memory may hold, up to the next null, behind a field
  Hours,
  Ops,          \* options in use: "add", "update", "delete"
  Users,        \* programs in use: "server", "cli"
  MaxEmployees  \* bound: employees in memory

ASSUME DbFileAssumption ==
  /\ Names \cup Uninit \subseteq Seq(Nat \ {0}) /\ Hours \subseteq Nat
  /\ LenLimit \in Nat \ {0}
  /\ Ops \subseteq {"add", "update", "delete"}
  /\ Users \subseteq {"server", "cli"} /\ Users # {}
  /\ MaxEmployees \in Nat

Employees == [name : Names, hours : Hours]
HeaderSize == 2   \* cells of a db_header

VARIABLES
  exists,      \* is there a file
  hdr,         \* its header, <<fsize, employee_count>> or not yet there
  cells,       \* what follows the header
  pc,          \* "down", "created", "opening", "ready", "cells"
  who,         \* the program that has the file open
  employees,   \* the array in memory
  stage,       \* how far the options of this request are done
  pending,     \* options done in memory and not yet saved
  todo, pos,   \* write_employees: cells to write, and the file offset
  promised,    \* contents a later open may find: the last saved, and the one
               \* being saved
  plain        \* has every save so far been of one add or one update, and
               \* every field been read as the string it was written for

file == <<exists, hdr, cells>>
memory == <<who, employees, stage, pending>>
vars == <<file, pc, memory, todo, pos, promised, plain>>

-----------------------------------------------------------------------------
(* The format. *)

\* The (uint16_t)(strlen + 1) characters that are written of a string.
Field(s) == SubSeq(Append(s, 0), 1, (Len(s) + 1) % LenLimit)

\* Employees as they go into the file, and the cells they are there.
Cut(e) == [name |-> Field(e.name), hours |-> e.hours]
AsWritten(es) == [k \in 1 .. Len(es) |-> Cut(es[k])]

HoursLost(e) == <<Len(e.name)>> \o e.name \o <<0>>
fserialize_employee(e) == <<Len(e.name)>> \o e.name \o <<e.hours>>

write_employees(es) ==
  LET upto[k \in 0 .. Len(es)] ==
        IF k = 0 THEN <<>> ELSE upto[k - 1] \o fserialize_employee(es[k])
  IN  upto[Len(es)]

\* The string that memory t is: what comes before its first null.
CString(t) ==
  LET z == CHOOSE z \in 1 .. Len(t) + 1 :
             /\ z = Len(t) + 1 \/ t[z] = 0
             /\ \A i \in 1 .. z - 1 : t[i] # 0
  IN  SubSeq(t, 1, z - 1)

\* Employees in memory with the fields of es, which malloc() put before u.
InMemory(es, u) ==
  [k \in 1 .. Len(es) |->
     [name |-> CString(es[k].name \o u[k]), hours |-> es[k].hours]]

\* fdeserialize_employee() at offset p: a length that runs past the end of
\* the file is an error.
fdeserialize_employee(p) ==
  IF p <= Len(cells) /\ p + cells[p] < Len(cells)
  THEN [ok |-> TRUE, next |-> p + cells[p] + 2,
        employee |-> [name |-> SubSeq(cells, p + 1, p + cells[p]),
                      hours |-> cells[p + cells[p] + 1]]]
  ELSE [ok |-> FALSE]

read_employees(n) ==
  LET upto[k \in 0 .. n] ==
        IF k = 0 THEN [ok |-> TRUE, next |-> 1, es |-> <<>>]
        ELSE LET before == upto[k - 1]
                 r == fdeserialize_employee(before.next)
             IN  IF before.ok /\ r.ok
                 THEN [ok |-> TRUE, next |-> r.next,
                       es |-> Append(before.es, r.employee)]
                 ELSE [ok |-> FALSE, next |-> 0, es |-> <<>>]
  IN  upto[n]

BareSize(n) == n
FileSize(n) == HeaderSize + n

\* read_dbhdr() and read_employees() succeed.
SizesMatch == hdr[1] = HeaderSize + Len(cells)
Opens == hdr # <<>> /\ SizesMatch /\ read_employees(hdr[2]).ok
Saved == IF hdr = <<>> THEN <<>> ELSE read_employees(hdr[2]).es

-----------------------------------------------------------------------------
Init ==
  /\ exists = FALSE /\ hdr = <<>> /\ cells = <<>>
  /\ pc = "down" /\ who \in Users /\ employees = <<>>
  /\ stage = 0 /\ pending = {}
  /\ todo = <<>> /\ pos = 1
  /\ promised = {<<>>} /\ plain = TRUE

\* open() with O_CREAT | O_EXCL, then the empty header.
Create ==
  /\ pc = "down" /\ ~exists
  /\ exists' = TRUE
  /\ pc' = "created"
  /\ who' \in Users
  /\ UNCHANGED <<hdr, cells, employees, stage, pending, todo, pos, promised, plain>>

write_new_file_hdr ==
  /\ pc = "created"
  /\ hdr' = <<HeaderSize, 0>>
  /\ pc' = "opening"
  /\ UNCHANGED <<exists, cells, memory, todo, pos, promised, plain>>

OpenExisting ==
  /\ pc = "down" /\ exists
  /\ pc' = "opening"
  /\ who' \in Users
  /\ UNCHANGED <<file, employees, stage, pending, todo, pos, promised, plain>>

\* read_dbhdr() does not notice that it read nothing from an empty file: the
\* header is then what the stack held, all zero perhaps.
Load ==
  /\ pc = "opening"
  /\ Opens \/ hdr = <<>>
  /\ \E u \in [1 .. Len(Saved) -> Uninit] : employees' = InMemory(Saved, u)
  /\ promised' = {Saved}
  /\ plain' = (plain /\ AsWritten(employees') = Saved)
  /\ pc' = "ready"
  /\ stage' = 0 /\ pending' = {}
  /\ UNCHANGED <<file, who, todo, pos>>

Down ==
  /\ pc' = "down"
  /\ employees' = <<>> /\ stage' = 0 /\ pending' = {}
  /\ todo' = <<>> /\ pos' = 1

Refuse ==
  /\ pc = "opening"
  /\ ~Opens
  /\ Down
  /\ UNCHANGED <<file, who, promised, plain>>

\* The options come in this order; the server saves each before the next.
Option(op, k) ==
  /\ pc = "ready"
  /\ op \in Ops
  /\ stage < k
  /\ who = "server" => pending = {}

Change(es, op, k) ==
  /\ employees' = es
  /\ stage' = k
  /\ pending' = pending \cup {op}
  /\ UNCHANGED <<file, pc, who, todo, pos, promised, plain>>

Add(e) ==
  /\ Option("add", 1)
  /\ Len(employees) < MaxEmployees
  /\ Change(Append(employees, e), "add", 1)

\* The loops of update and delete stop at the first that strcmp matches.
At(n, k) ==
  /\ employees[k].name = n
  /\ \A j \in 1 .. k - 1 : employees[j].name # n

Update(n, h) ==
  /\ Option("update", 2)
  /\ \E k \in 1 .. Len(employees) :
       At(n, k) /\ Change([employees EXCEPT ![k].hours = h], "update", 2)

\* The last employee fills the hole.
Delete(n) ==
  /\ Option("delete", 3)
  /\ \E k \in 1 .. Len(employees) :
       LET last == Len(employees)
       IN  /\ At(n, k)
           /\ Change(SubSeq([employees EXCEPT ![k] = employees[last]],
                            1, last - 1), "delete", 3)

\* The cli exits at once, all its options undone; the server reports an
\* error and skips the rest, but the options before this one stay saved.
NotFound(n) ==
  /\ \E o \in {<<"update", 2>>, <<"delete", 3>>} : Option(o[1], o[2])
  /\ \A k \in 1 .. Len(employees) : employees[k].name # n
  /\ \/ who = "cli" /\ Down
     \/ /\ who = "server"
        /\ stage' = 0
        /\ UNCHANGED <<pc, employees, pending, todo, pos>>
  /\ UNCHANGED <<file, who, promised, plain>>

\* The server is done with a request.
NextRequest ==
  /\ pc = "ready" /\ who = "server"
  /\ pending = {} /\ stage > 0
  /\ stage' = 0
  /\ UNCHANGED <<file, pc, who, employees, pending, todo, pos, promised, plain>>

\* write_db(): lseek() past the header, then the cells one by one.
NoSeek == Len(cells) + 1
AfterHeader == 1

write_db ==
  /\ pc = "ready"
  /\ pending # {} \/ who = "cli"
  /\ pc' = "cells"
  /\ todo' = write_employees(AsWritten(employees))
  /\ pos' = AfterHeader
  /\ promised' = promised \cup {AsWritten(employees)}
  /\ plain' = (plain /\ pending \in {{}, {"add"}, {"update"}})
  /\ UNCHANGED <<file, memory>>

InPlaceOnly(p, x) == [cells EXCEPT ![p] = x]
Put(p, x) == IF p <= Len(cells) THEN [cells EXCEPT ![p] = x] ELSE Append(cells, x)

\* A header that was never written becomes a hole, which reads as zeros.
WriteCell ==
  /\ pc = "cells" /\ todo # <<>>
  /\ cells' = Put(pos, Head(todo))
  /\ hdr' = IF hdr = <<>> THEN <<0, 0>> ELSE hdr
  /\ todo' = Tail(todo)
  /\ pos' = pos + 1
  /\ UNCHANGED <<exists, pc, memory, promised, plain>>

\* lseek() to the start, then the new header.  What an earlier, longer
\* version of the file left behind the last cell stays there.
WriteHeader ==
  /\ pc = "cells" /\ todo = <<>>
  /\ hdr' = <<FileSize(pos - 1), Len(employees)>>
  /\ promised' = {AsWritten(employees)}
  /\ UNCHANGED <<exists, cells, who, plain>>
  /\ IF who = "cli" THEN Down
     ELSE /\ pc' = "ready" /\ pending' = {}
          /\ UNCHANGED <<employees, stage, todo, pos>>

\* The process ends where it stands: a signal, a failed write(), the end of
\* its use.
End ==
  /\ pc # "down"
  /\ Down
  /\ UNCHANGED <<file, who, promised, plain>>

Next ==
  \/ Create \/ write_new_file_hdr \/ OpenExisting \/ Load \/ Refuse
  \/ \E e \in Employees : Add(e)
  \/ \E n \in Names : NotFound(n) \/ Delete(n)
  \/ \E n \in Names, h \in Hours : Update(n, h)
  \/ NextRequest \/ write_db \/ WriteCell \/ WriteHeader \/ End

Spec == Init /\ [][Next]_vars

-----------------------------------------------------------------------------
(* What is checked. *)

\* Every variable has its type, and the next write is inside the file or
\* extends it by one cell.
TypeOK ==
  /\ {exists, plain} \subseteq BOOLEAN
  /\ pending \subseteq {"add", "update", "delete"}
  /\ hdr = <<>> \/ hdr \in Nat \X Nat
  /\ {cells, todo} \subseteq Seq(Nat)
  /\ pc \in {"down", "created", "opening", "ready", "cells"}
  /\ who \in {"server", "cli"}
  /\ employees \in Seq([name : Seq(Nat \ {0}), hours : Nat])
  /\ stage \in 0 .. 3
  /\ pos \in 1 .. Len(cells) + 1
  /\ \A es \in promised : es \in Seq([name : Seq(Nat), hours : Nat])

\* Field f and string s agree as far as both go, the null of s included: if f
\* has a null, s is what comes before it, and if not, s begins with f.
SameString(f, s) == \A i \in 1 .. Len(f) : i <= Len(s) + 1 => f[i] = Append(s, 0)[i]

\* Whenever the server has answered and waits, or a process has just opened
\* the file, reading the file back with its header's count gives the employees
\* in memory, in their order, but for what a field of 16 bits has no room for
\* (serialize.c write_db, read_employees).
IdleFileHoldsMemory ==
  (pc = "ready" /\ pending = {}) =>
    /\ Len(Saved) = Len(employees)
    /\ \A k \in 1 .. Len(employees) :
         /\ Saved[k].hours = employees[k].hours
         /\ SameString(Saved[k].name, employees[k].name)

\* Whatever step of its save a process ended in, a file that opens holds the
\* employees as they were written before the save or as they are after it, if
\* no save was of a delete or of several options at once, and no string that
\* was cut was loaded and saved again: "check file sizes in bytes match"
\* (serialize.c:318) tells the rest apart.
PlainSaveIsAllOrNothing == (plain /\ Opens) => Saved \in promised

\* A file whose last save was finished opens with what was saved, if it was
\* not longer before (serialize.c write_db, read_dbhdr).
GrownFileOpens ==
  \A es \in promised :
    (/\ hdr # <<>> /\ promised = {es}
     /\ Len(cells) <= Len(write_employees(es)))
    => (Opens /\ Saved = es)

\* A file whose last save was finished opens: "corrupted data, header file
\* size does not match stat size" (serialize.c:330) is for one that was not.
FinishedFileOpens == (hdr # <<>> /\ Cardinality(promised) = 1) => Opens
=============================================================================
