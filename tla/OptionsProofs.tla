---------------------------- MODULE OptionsProofs ----------------------------
(***************************************************************************)
(* What the client puts into a request comes out of it in the server, and  *)
(* a row comes out of a listing as it went in, wherever in the buffer they *)
(* stand and whatever is around them: for every string that passes the     *)
(* checks of proto.c, and for rows if no string fills its field.           *)
(***************************************************************************)
EXTENDS Options, Recursion, SequenceTheorems

\* The cells xs stand in the buffer from p on.
Holds(cells, p, xs) ==
  xs \in Seq(Int) /\ \A k \in 1 .. Len(xs) : cells[p + k - 1] = xs[k]

\* Nothing is cut off a number that fits.
LEMMA FitsUncut ==
  ASSUME NEW n \in Nat, NEW m \in Nat, n < m
  PROVE  n % m = n
  BY SMT

\* The parts of what stands there stand there, one behind the other.
LEMMA HoldsParts ==
  ASSUME NEW cells, NEW p \in Int, NEW a \in Seq(Int), NEW b \in Seq(Int),
         Holds(cells, p, a \o b)
  PROVE  Holds(cells, p, a) /\ Holds(cells, p + Len(a), b)
  <1>1. /\ a \o b \in Seq(Int) /\ Len(a \o b) = Len(a) + Len(b)
        /\ \A k \in 1 .. Len(a) : (a \o b)[k] = a[k]
        /\ \A k \in 1 .. Len(b) : (a \o b)[Len(a) + k] = b[k]
        /\ Len(a) \in Nat /\ Len(b) \in Nat
    OBVIOUS
  <1>2. \A k \in 1 .. Len(a) + Len(b) : cells[p + k - 1] = (a \o b)[k]
    BY <1>1 DEF Holds
  <1>3. \A k \in 1 .. Len(a) : cells[p + k - 1] = a[k]
    BY <1>1, <1>2
  <1>4. ASSUME NEW k \in 1 .. Len(b) PROVE cells[p + Len(a) + k - 1] = b[k]
    <2>1. Len(a) + k \in 1 .. Len(a) + Len(b) /\ p + (Len(a) + k) - 1 = p + Len(a) + k - 1
      BY <1>1
    <2> QED  BY <1>1, <1>2, <2>1
  <1> QED  BY <1>3, <1>4 DEF Holds

\* A number that stands there.
LEMMA HoldsNumber ==
  ASSUME NEW cells, NEW p \in Int, NEW n \in Int, Holds(cells, p, <<n>>)
  PROVE  cells[p] = n
  <1>1. cells[p + 1 - 1] = <<n>>[1]
    BY DEF Holds
  <1> QED  BY <1>1

\* A sequence that stands there is cut out whole.
LEMMA HoldsSequence ==
  ASSUME NEW cells, NEW p \in Int, NEW s \in Seq(Int), Holds(cells, p, s)
  PROVE  SubSeq(cells, p, p + Len(s) - 1) = s
  <1> DEFINE q == p + Len(s) - 1
             t == SubSeq(cells, p, q)
  <1>1. Len(s) \in Nat /\ q \in Int /\ q - p + 1 = Len(s) /\ (p <= q <=> Len(s) > 0)
    OBVIOUS
  <1>2. ASSUME NEW i \in p .. q PROVE cells[i] \in Int
    <2>1. i - p + 1 \in 1 .. Len(s) /\ p + (i - p + 1) - 1 = i
      BY <1>1
    <2>2. s[i - p + 1] \in Int
      BY <2>1, ElementOfSeq
    <2>3. cells[p + (i - p + 1) - 1] = s[i - p + 1]
      BY <2>1 DEF Holds
    <2> QED  BY <2>1, <2>2, <2>3
  <1>3. /\ t \in Seq(Int)
        /\ Len(t) = IF p <= q THEN q - p + 1 ELSE 0
        /\ \A k \in 1 .. q - p + 1 : t[k] = cells[p + k - 1]
    <2> HIDE DEF q
    <2> QED  BY <1>1, <1>2, SubSeqProperties
  <1>4. Len(t) = Len(s)
    BY <1>1, <1>3
  <1>5. \A k \in 1 .. Len(s) : t[k] = s[k]
    BY <1>1, <1>3 DEF Holds
  <1> HIDE DEF t
  <1>6. t = s
    BY <1>3, <1>4, <1>5, SeqEqual
  <1> QED  BY <1>6 DEF t

\* The first of some parts and the rest.
LEMMA HoldsFirst ==
  ASSUME NEW cells, NEW p \in Int, NEW n \in Int, NEW b \in Seq(Int),
         Holds(cells, p, <<n>> \o b)
  PROVE  cells[p] = n /\ Holds(cells, p + 1, b)
  <1>1. <<n>> \in Seq(Int) /\ Len(<<n>>) = 1
    OBVIOUS
  <1>2. Holds(cells, p, <<n>>) /\ Holds(cells, p + 1, b)
    BY <1>1, HoldsParts
  <1> QED  BY <1>2, HoldsNumber

\* Two parts and a number behind them.
LEMMA HoldsLast ==
  ASSUME NEW cells, NEW p \in Int, NEW a \in Seq(Int), NEW n \in Int,
         Holds(cells, p, a \o <<n>>)
  PROVE  Holds(cells, p, a) /\ cells[p + Len(a)] = n
  <1>1. <<n>> \in Seq(Int) /\ Len(a) \in Nat
    BY LenProperties
  <1>2. Holds(cells, p, a) /\ Holds(cells, p + Len(a), <<n>>)
    BY <1>1, HoldsParts
  <1>3. p + Len(a) \in Int
    BY <1>1
  <1> QED  BY <1>2, <1>3, HoldsNumber

\* A name, an address and hours, one behind the other.
LEMMA HoldsThree ==
  ASSUME NEW cells, NEW p \in Int, NEW a \in Seq(Int), NEW b \in Seq(Int), NEW n \in Int,
         Holds(cells, p, (a \o b) \o <<n>>)
  PROVE  /\ Holds(cells, p, a)
         /\ Holds(cells, p + Len(a), b)
         /\ cells[p + Len(a) + Len(b)] = n
  <1>1. a \o b \in Seq(Int) /\ Len(a \o b) = Len(a) + Len(b)
    BY ConcatProperties
  <1>2. Holds(cells, p, a \o b) /\ cells[p + Len(a \o b)] = n
    BY <1>1, HoldsLast
  <1>3. Holds(cells, p, a) /\ Holds(cells, p + Len(a), b)
    BY <1>2, HoldsParts
  <1>4. Len(a) \in Nat /\ Len(b) \in Nat
    BY LenProperties
  <1>5. p + (Len(a) + Len(b)) = p + Len(a) + Len(b)
    BY <1>4
  <1> QED  BY <1>1, <1>2, <1>3, <1>5

\* Strings with their lengths are cells.
LEMMA StrIsCells ==
  ASSUME OptionsAssumption, NEW s \in Seq(Int)
  PROVE  /\ Str(s) \in Seq(Int) /\ Len(Str(s)) = Len(s) + 1 /\ Len(s) \in Nat
  <1>1. Len(s) \in Nat
    BY LenProperties
  <1>2. Len(s) % LenLimit \in Int
    BY <1>1 DEF OptionsAssumption
  <1> DEFINE l == Len(s) % LenLimit
  <1> HIDE DEF l
  <1>3. <<l>> \in Seq(Int) /\ Len(<<l>>) = 1
    BY <1>2 DEF l
  <1>4. <<l>> \o s \in Seq(Int) /\ Len(<<l>> \o s) = 1 + Len(s)
    BY <1>3, ConcatProperties
  <1>5. 1 + Len(s) = Len(s) + 1
    BY <1>1
  <1> QED  BY <1>1, <1>4, <1>5 DEF Str, l

\* Hours are a cell.
LEMMA HoursIsCell ==
  ASSUME OptionsAssumption, NEW h \in Int
  PROVE  parse_employee_hours(h) \in Int
  BY DEF parse_employee_hours, OptionsAssumption

\* A name or address that is not too long is read back whole, and the cursor
\* is left just behind it (proto.c).
LEMMA StringSurvives ==
  ASSUME OptionsAssumption,
         NEW cells, NEW p \in Int, NEW s \in Seq(Int), ~TooLong(s),
         Holds(cells, p, Str(s))
  PROVE  StrAt(cells, p) = s /\ After(cells, p) = p + Len(s) + 1
  <1>1. Len(s) \in Nat /\ LenLimit \in Nat
    BY LenProperties DEF OptionsAssumption
  <1>2. Len(s) < LenLimit
    BY <1>1 DEF TooLong
  <1>3. Len(s) % LenLimit = Len(s)
    BY <1>1, <1>2, FitsUncut
  <1>4. Holds(cells, p, <<Len(s)>> \o s)
    BY <1>3 DEF Str
  <1>5. Len(s) \in Int
    BY <1>1
  <1>6. cells[p] = Len(s) /\ Holds(cells, p + 1, s)
    BY <1>4, <1>5, HoldsFirst
  <1>7. p + 1 \in Int
    OBVIOUS
  <1>8. SubSeq(cells, p + 1, p + 1 + Len(s) - 1) = s
    BY <1>6, <1>7, HoldsSequence
  <1>9. p + 1 + Len(s) - 1 = p + Len(s)
    BY <1>1
  <1> QED  BY <1>6, <1>8, <1>9 DEF StrAt, After

\* Behind the letter of an option stand its fields.
LEMMA HoldsFields ==
  ASSUME NEW cells, NEW p \in Int, NEW o, NEW k \in Int, NEW xs \in Seq(Int),
         Letter[o.op] = k, Fields(o) = xs,
         Holds(cells, p, <<Letter[o.op]>> \o Fields(o))
  PROVE  Holds(cells, p + 1, xs) /\ p + 1 \in Int
  <1>1. Holds(cells, p, <<k>> \o xs)
    OBVIOUS
  <1>2. Holds(cells, p + 1, xs)
    BY <1>1, HoldsFirst, Zenon
  <1>3. p + 1 \in Int
    OBVIOUS
  <1> QED  BY <1>2, <1>3

\* The places of the fields add up.
LEMMA Places ==
  ASSUME NEW p \in Int, NEW n \in Nat, NEW m \in Nat
  PROVE  /\ p + 1 + n + 1 = p + 1 + (n + 1)
         /\ p + 1 + n + 1 = p + (n + 1 + 1)
         /\ p + 1 + n + 1 + 1 = p + (n + 1 + 1 + 1)
         /\ p + 1 + (n + 1) + m + 1 = p + 1 + (n + 1) + (m + 1)
         /\ p + 1 + (n + 1) + (m + 1) + 1 = p + (n + m + 2 + 1 + 1)
         /\ p + 1 + (n + 1) \in Int
  OBVIOUS

\* What is written stands behind what was there, which stays, whether the
\* buffer had to grow for it or not (proto.c resize_buffer and the memcpy calls).
THEOREM WrittenStands ==
  ASSUME NEW b, b = [cells |-> b.cells, capacity |-> b.capacity],
         b.cells \in Seq(Int), NEW o, <<Letter[o.op]>> \o Fields(o) \in Seq(Int)
  PROVE  /\ Holds(serialize_option(b, o).cells, Len(b.cells) + 1,
                  <<Letter[o.op]>> \o Fields(o))
         /\ Holds(serialize_option(b, o).cells, 1, b.cells)
  <1> DEFINE xs == <<Letter[o.op]>> \o Fields(o)
             cs == b.cells
             n == Len(cs)
  <1>1. resize_buffer(b, data_len(o)) =
          [cells |-> cs, capacity |-> resize_buffer(b, data_len(o)).capacity]
    BY DEF resize_buffer
  <1>2. serialize_option(b, o).cells = cs \o xs
    BY <1>1 DEF serialize_option, Write
  <1> HIDE DEF xs, cs
  <1>3. xs \in Seq(Int) /\ cs \in Seq(Int)
    BY DEF xs, cs
  <1>4. n \in Nat /\ Len(xs) \in Nat
    BY <1>3, LenProperties
  <1>5. \A k \in 1 .. n + Len(xs) : (cs \o xs)[k] = IF k <= n THEN cs[k] ELSE xs[k - n]
    BY <1>3, ConcatProperties
  <1> HIDE DEF n
  <1>6. ASSUME NEW k \in 1 .. Len(xs) PROVE (cs \o xs)[n + 1 + k - 1] = xs[k]
    <2> DEFINE j == n + 1 + k - 1
    <2>1. j \in 1 .. n + Len(xs) /\ ~(j <= n) /\ j - n = k
      BY <1>4
    <2> HIDE DEF j
    <2>2. (cs \o xs)[j] = xs[j - n]
      BY <1>5, <2>1
    <2> QED  BY <2>1, <2>2, Zenon DEF j
  <1>7. ASSUME NEW k \in 1 .. n PROVE (cs \o xs)[1 + k - 1] = cs[k]
    <2>1. 1 + k - 1 \in 1 .. n + Len(xs) /\ 1 + k - 1 <= n /\ 1 + k - 1 = k
      BY <1>4
    <2> QED  BY <1>5, <2>1
  <1>8. Holds(cs \o xs, n + 1, xs)
    BY <1>3, <1>6 DEF Holds
  <1>9. Holds(cs \o xs, 1, cs)
    BY <1>3, <1>7 DEF Holds, n
  <1> QED  BY <1>2, <1>8, <1>9 DEF xs, cs, n

\* A delete that the client sends names the same employee in the server
\* (proto.c serialize_delete_employee_option, deserialize_...).
THEOREM DeleteSurvives ==
  ASSUME OptionsAssumption,
         NEW cells, NEW p \in Int,
         NEW o, o.op = "delete", o.name \in Seq(Int), ~Rejected(o),
         Holds(cells, p, <<Letter[o.op]>> \o Fields(o))
  PROVE  deserialize_delete_employee_option(cells, p) =
           [name |-> o.name, next |-> p + data_len(o)]
  <1>1. ~TooLong(o.name)
    BY DEF Rejected
  <1>2. Fields(o) = Str(o.name) /\ Letter[o.op] = 3
    BY DEF Fields, Letter
  <1>3. data_len(o) = Len(o.name) + 1 + 1
    BY DEF data_len, NoLetter
  <1>4. Str(o.name) \in Seq(Int) /\ Len(o.name) \in Nat
    BY StrIsCells
  <1>5. 3 \in Int
    OBVIOUS
  <1>6. Holds(cells, p + 1, Str(o.name)) /\ p + 1 \in Int
    BY <1>2, <1>4, <1>5, HoldsFields
  <1>7. /\ StrAt(cells, p + 1) = o.name
        /\ After(cells, p + 1) = p + 1 + Len(o.name) + 1
    BY <1>1, <1>6, StringSurvives
  <1>8. p + 1 + Len(o.name) + 1 = p + (Len(o.name) + 1 + 1)
    BY <1>4, Places
  <1> QED  BY <1>3, <1>7, <1>8 DEF deserialize_delete_employee_option

\* An update that the client sends has the same name and hours in the server
\* (proto.c serialize_update_employee_option, deserialize_...).
THEOREM UpdateSurvives ==
  ASSUME OptionsAssumption,
         NEW cells, NEW p \in Int,
         NEW o, o.op = "update", o.name \in Seq(Int), o.hours \in Int, ~Rejected(o),
         Holds(cells, p, <<Letter[o.op]>> \o Fields(o))
  PROVE  deserialize_update_employee_option(cells, p) =
           [name |-> o.name, hours |-> parse_employee_hours(o.hours),
            next |-> p + data_len(o)]
  <1> DEFINE h == parse_employee_hours(o.hours)
             a == Str(o.name)
             n == Len(o.name)
  <1>1. ~TooLong(o.name)
    BY DEF Rejected
  <1>2. Fields(o) = a \o <<h>> /\ Letter[o.op] = 2
    BY DEF Fields, Letter
  <1>3. data_len(o) = n + 1 + 1 + 1
    BY DEF data_len, NoLetter
  <1>4. a \in Seq(Int) /\ Len(a) = n + 1 /\ n \in Nat
    BY StrIsCells
  <1>5. h \in Int
    BY HoursIsCell
  <1> HIDE DEF h, a, n
  <1>6. <<h>> \in Seq(Int) /\ 2 \in Int
    BY <1>5
  <1>7. a \o <<h>> \in Seq(Int)
    BY <1>4, <1>6, ConcatProperties
  <1>8. Holds(cells, p + 1, a \o <<h>>) /\ p + 1 \in Int
    BY <1>2, <1>6, <1>7, HoldsFields
  <1>9. Holds(cells, p + 1, a) /\ cells[p + 1 + Len(a)] = h
    BY <1>4, <1>5, <1>8, HoldsLast
  <1>10. StrAt(cells, p + 1) = o.name /\ After(cells, p + 1) = p + 1 + n + 1
    BY <1>1, <1>8, <1>9, StringSurvives DEF a, n
  <1>11. p + 1 + n + 1 = p + 1 + (n + 1) /\ p + 1 + n + 1 + 1 = p + (n + 1 + 1 + 1)
    BY <1>4, Places
  <1>12. cells[After(cells, p + 1)] = h /\ After(cells, p + 1) + 1 = p + data_len(o)
    BY <1>3, <1>4, <1>9, <1>10, <1>11
  <1> QED  BY <1>10, <1>12 DEF deserialize_update_employee_option, h

\* An employee that the client adds is the one the server appends (proto.c
\* serialize_add_employee_option, deserialize_...).
THEOREM AddSurvives ==
  ASSUME OptionsAssumption,
         NEW cells, NEW p \in Int,
         NEW o, o.op = "add", o.name \in Seq(Int), o.address \in Seq(Int),
         o.hours \in Int, ~Rejected(o),
         Holds(cells, p, <<Letter[o.op]>> \o Fields(o))
  PROVE  deserialize_add_employee_option(cells, p) =
           [employee |-> [name |-> o.name, address |-> o.address,
                          hours |-> parse_employee_hours(o.hours)],
            next |-> p + data_len(o)]
  <1> DEFINE h == parse_employee_hours(o.hours)
             a == Str(o.name)
             b == Str(o.address)
             n == Len(o.name)
             m == Len(o.address)
             q == p + 1 + (n + 1)
  <1>1. ~TooLong(o.name) /\ ~TooLong(o.address)
    BY DEF Rejected
  <1>2. Fields(o) = (a \o b) \o <<h>> /\ Letter[o.op] = 1
    BY DEF Fields, Letter
  <1>3. data_len(o) = n + m + 2 + 1 + 1
    BY DEF data_len, NoLetter
  <1>4. a \in Seq(Int) /\ Len(a) = n + 1 /\ n \in Nat
    BY StrIsCells
  <1>5. b \in Seq(Int) /\ Len(b) = m + 1 /\ m \in Nat
    BY StrIsCells
  <1>6. h \in Int
    BY HoursIsCell
  <1> HIDE DEF h, a, b, n, m
  <1>7. a \o b \in Seq(Int)
    BY <1>4, <1>5, ConcatProperties
  <1>8. <<h>> \in Seq(Int) /\ 1 \in Int
    BY <1>6
  <1>9. (a \o b) \o <<h>> \in Seq(Int)
    BY <1>7, <1>8, ConcatProperties
  <1>10. Holds(cells, p + 1, (a \o b) \o <<h>>) /\ p + 1 \in Int
    BY <1>2, <1>8, <1>9, HoldsFields
  <1>11. /\ Holds(cells, p + 1, a)
         /\ Holds(cells, p + 1 + Len(a), b)
         /\ cells[p + 1 + Len(a) + Len(b)] = h
    <2>1. a \in Seq(Int)
      BY <1>4
    <2>2. b \in Seq(Int)
      BY <1>5
    <2> QED  BY <2>1, <2>2, <1>6, <1>10, HoldsThree, ZenonT(40)
  <1>12. /\ Holds(cells, q, b)
         /\ cells[q + (m + 1)] = h
         /\ q \in Int
    <2>1. q = p + 1 + Len(a) /\ q + (m + 1) = p + 1 + Len(a) + Len(b)
      BY <1>4, <1>5, Zenon
    <2>2. q \in Int
      BY <1>4, <1>5, Places
    <2> HIDE DEF q
    <2> QED  BY <1>11, <2>1, <2>2
  <1>13. StrAt(cells, p + 1) = o.name /\ After(cells, p + 1) = p + 1 + n + 1
    BY <1>1, <1>10, <1>11, StringSurvives DEF a, n
  <1>14. StrAt(cells, q) = o.address /\ After(cells, q) = q + m + 1
    BY <1>1, <1>12, StringSurvives DEF b, m
  <1>15. /\ p + 1 + n + 1 = q
         /\ q + m + 1 = q + (m + 1)
         /\ q + (m + 1) + 1 = p + (n + m + 2 + 1 + 1)
    BY <1>4, <1>5, Places
  <1> HIDE DEF q
  <1>16. /\ After(cells, p + 1) = q
         /\ cells[After(cells, q)] = h
         /\ After(cells, q) + 1 = p + data_len(o)
    BY <1>3, <1>12, <1>13, <1>14, <1>15
  <1> QED  BY <1>13, <1>14, <1>16 DEF deserialize_add_employee_option, h

-----------------------------------------------------------------------------
(* Buffers that are filled piece by piece. *)

Buffer == {b \in [cells : Seq(Nat), capacity : Nat] : Len(b.cells) <= b.capacity}

Grow(b, xs) == Write(resize_buffer(b, Len(xs)), xs)

\* There is room for every piece, whether the buffer grew for it or not.
LEMMA GrowFits ==
  ASSUME NEW b \in Buffer, NEW xs \in Seq(Nat)
  PROVE  Grow(b, xs) \in Buffer /\ Grow(b, xs).cells = b.cells \o xs
  <1> DEFINE c == b.cells
             m == b.capacity
             n == Len(xs)
             m2 == resize_buffer(b, n).capacity
  <1>1. /\ b = [cells |-> c, capacity |-> m] /\ c \in Seq(Nat) /\ m \in Nat
        /\ Len(c) \in Nat /\ n \in Nat /\ Len(c) <= m
    BY DEF Buffer
  <1>2. /\ resize_buffer(b, n) = [cells |-> c, capacity |-> m2]
        /\ m2 = IF m - Len(c) < n THEN m + n - (m - Len(c)) ELSE m
    BY <1>1 DEF resize_buffer, Room
  <1> HIDE DEF m2
  <1>3. Grow(b, xs) = [cells |-> c \o xs, capacity |-> m2]
    <2>1. \A x, y, z : [[cells |-> x, capacity |-> y] EXCEPT !.cells = z]
                         = [cells |-> z, capacity |-> y]
      OBVIOUS
    <2>2. Grow(b, xs) = [[cells |-> c, capacity |-> m2] EXCEPT !.cells = c \o xs]
      BY <1>2 DEF Grow, Write
    <2> QED  BY <2>1, <2>2, Zenon
  <1>4. c \o xs \in Seq(Nat) /\ Len(c \o xs) = Len(c) + n
    BY <1>1, ConcatProperties
  <1> HIDE DEF c, m, n
  <1>5. m2 \in Nat /\ Len(c) + n <= m2
    BY <1>1, <1>2
  <1> QED  BY <1>3, <1>4, <1>5 DEF Buffer, c

Filled(xs, f) ==
  /\ f \in [0 .. Len(xs) -> Buffer]
  /\ f[0] = Empty
  /\ \A k \in 1 .. Len(xs) : f[k] = Grow(f[k - 1], xs[k])

\* Pieces fill a buffer, and there is only one function that says how.
LEMMA FillsUp ==
  ASSUME NEW xs \in Seq(Seq(Nat))
  PROVE  \E f : /\ Filled(xs, f)
                /\ \A h : (h[0] = Empty /\ \A k \in 1 .. Len(xs) :
                             h[k - 1] \in Buffer => h[k] = Grow(h[k - 1], xs[k]))
                          => \A k \in 0 .. Len(xs) : h[k] = f[k]
  <1> DEFINE n == Len(xs)
             g == [x \in (1 .. n) \X Buffer |-> Grow(x[2], xs[x[1]])]
  <1>1. n \in Nat /\ \A k \in 1 .. n : xs[k] \in Seq(Nat)
    OBVIOUS
  <1>2. Empty \in Buffer
    BY DEF Empty, Buffer
  <1>3. g \in [(1 .. n) \X Buffer -> Buffer]
    <2>1. ASSUME NEW x \in (1 .. n) \X Buffer PROVE Grow(x[2], xs[x[1]]) \in Buffer
      <3>1. x[1] \in 1 .. n /\ x[2] \in Buffer
        OBVIOUS
      <3> QED  BY <1>1, <3>1, GrowFits
    <2> QED  BY <2>1
  <1>4. \A k \in 1 .. n : \A b \in Buffer : g[<<k, b>>] = Grow(b, xs[k])
    OBVIOUS
  <1> HIDE DEF g
  <1>5. PICK f \in [0 .. n -> Buffer] : Follows(n, Empty, g, f)
    BY <1>1, <1>2, <1>3, Recursive, Zenon
  <1>6. Filled(xs, f)
    <2>1. \A k \in 1 .. n : k - 1 \in 0 .. n
      BY <1>1
    <2>2. \A k \in 1 .. n : f[k] = Grow(f[k - 1], xs[k])
      BY <1>4, <1>5, <2>1 DEF Follows
    <2> QED  BY <1>5, <2>2 DEF Filled, Follows
  <1>7. ASSUME NEW h, h[0] = Empty,
               \A k \in 1 .. n : h[k - 1] \in Buffer => h[k] = Grow(h[k - 1], xs[k])
        PROVE  \A k \in 0 .. n : h[k] = f[k]
    <2>1. Obeys(n, Buffer, Empty, g, h)
      BY <1>4, <1>7, Zenon DEF Obeys
    <2>2. f \in [0 .. n -> Buffer] /\ Follows(n, Empty, g, f) /\ n \in Nat
      BY <1>1, <1>5
    <2> HIDE DEF n
    <2>3. Agree(n, h, f)
      BY <2>1, <2>2, OneFollows, Zenon
    <2> QED  BY <2>3 DEF Agree
  <1> QED  BY <1>6, <1>7, Zenon

\* Where the pieces stand.
Layout(cells, xs, g) ==
  /\ g \in [0 .. Len(xs) -> 1 .. Len(cells) + 1]
  /\ g[0] = 1 /\ g[Len(xs)] = Len(cells) + 1
  /\ \A k \in 1 .. Len(xs) : g[k] = g[k - 1] + Len(xs[k]) /\ Holds(cells, g[k - 1], xs[k])

Starts(s, t) == Len(s) <= Len(t) /\ \A i \in 1 .. Len(s) : t[i] = s[i]

LEMMA FilledLayout ==
  ASSUME NEW xs \in Seq(Seq(Nat)), NEW f, Filled(xs, f)
  PROVE  \E g : Layout(f[Len(xs)].cells, xs, g)
  <1> DEFINE n == Len(xs)
             cs(k) == f[k].cells
  <1>1. n \in Nat /\ \A k \in 1 .. n : xs[k] \in Seq(Nat) /\ Len(xs[k]) \in Nat
    OBVIOUS
  <1>2. \A k \in 0 .. n : f[k] \in Buffer /\ cs(k) \in Seq(Nat) /\ Len(cs(k)) \in Nat
    BY DEF Filled, Buffer
  <1>3. cs(0) = <<>>
    BY DEF Filled, Empty
  <1>4. ASSUME NEW k \in 1 .. n
        PROVE  /\ Len(cs(k)) = Len(cs(k - 1)) + Len(xs[k])
               /\ \A i \in 1 .. Len(cs(k - 1)) : cs(k)[i] = cs(k - 1)[i]
               /\ \A i \in 1 .. Len(xs[k]) : cs(k)[Len(cs(k - 1)) + i] = xs[k][i]
    <2>1. k - 1 \in 0 .. n
      BY <1>1
    <2>2. cs(k) = cs(k - 1) \o xs[k]
      BY <1>1, <1>2, <2>1, GrowFits DEF Filled
    <2>3. cs(k - 1) \in Seq(Nat) /\ xs[k] \in Seq(Nat)
      BY <1>1, <1>2, <2>1
    <2> HIDE DEF cs
    <2>4. \A a, b \in Seq(Nat) :
            /\ Len(a \o b) = Len(a) + Len(b)
            /\ \A i \in 1 .. Len(a) : (a \o b)[i] = a[i]
            /\ \A i \in 1 .. Len(b) : (a \o b)[Len(a) + i] = b[i]
      OBVIOUS
    <2> DEFINE a == cs(k - 1)
               b == xs[k]
    <2> HIDE DEF a, b
    <2>5. a \in Seq(Nat) /\ b \in Seq(Nat) /\ cs(k) = a \o b
      BY <2>2, <2>3 DEF a, b
    <2>6. /\ Len(a \o b) = Len(a) + Len(b)
          /\ \A i \in 1 .. Len(a) : (a \o b)[i] = a[i]
          /\ \A i \in 1 .. Len(b) : (a \o b)[Len(a) + i] = b[i]
      BY <2>4, <2>5, Zenon
    <2> QED  BY <2>5, <2>6, Zenon DEF a, b
  <1> HIDE DEF cs
  <1> DEFINE T == {j \in 0 .. n : \A k \in 0 .. j : Starts(cs(k), cs(j))}
  <1>5. 0 \in T
    BY <1>1, <1>3 DEF Starts
  <1>6. ASSUME NEW j \in 0 .. n - 1, j \in T PROVE j + 1 \in T
    <2>1. j + 1 \in 1 .. n /\ j + 1 \in 0 .. n /\ j \in 0 .. n /\ (j + 1) - 1 = j
      BY <1>1
    <2>2. /\ Len(cs(j + 1)) = Len(cs(j)) + Len(xs[j + 1])
          /\ \A i \in 1 .. Len(cs(j)) : cs(j + 1)[i] = cs(j)[i]
      BY <1>4, <2>1, Zenon
    <2>3. ASSUME NEW k \in 0 .. j PROVE Starts(cs(k), cs(j + 1))
      <3>1. Starts(cs(k), cs(j)) /\ k \in 0 .. n
        BY <1>6
      <3>2. Len(cs(k)) \in Nat /\ Len(cs(j)) \in Nat /\ Len(xs[j + 1]) \in Nat
        BY <1>1, <1>2, <2>1, <3>1
      <3> QED  BY <2>2, <3>1, <3>2 DEF Starts
    <2>4. Starts(cs(j + 1), cs(j + 1))
      BY <1>2, <2>1 DEF Starts
    <2>5. \A k \in 0 .. j + 1 : k \in 0 .. j \/ k = j + 1
      OBVIOUS
    <2>6. \A k \in 0 .. j + 1 : Starts(cs(k), cs(j + 1))
      BY <2>3, <2>4, <2>5, Zenon
    <2> QED  BY <2>1, <2>6
  <1>7. \A k \in 0 .. n : Starts(cs(k), cs(n))
    <2>1. \A j \in 0 .. n : j \in T
      <3> HIDE DEF T
      <3> QED  BY <1>1, <1>5, <1>6, UptoSet, Zenon
    <2>2. n \in 0 .. n
      BY <1>1
    <2> QED  BY <2>1, <2>2
  <1> DEFINE g == [k \in 0 .. n |-> Len(cs(k)) + 1]
  <1>8. g \in [0 .. n -> 1 .. Len(cs(n)) + 1] /\ g[0] = 1 /\ g[n] = Len(cs(n)) + 1
    <2>1. n \in 0 .. n /\ 0 \in 0 .. n /\ Len(cs(0)) = 0
      BY <1>1, <1>3
    <2>2. ASSUME NEW k \in 0 .. n PROVE Len(cs(k)) + 1 \in 1 .. Len(cs(n)) + 1
      <3>1. Len(cs(k)) \in Nat /\ Len(cs(n)) \in Nat /\ Len(cs(k)) <= Len(cs(n))
        BY <1>2, <1>7, <2>1 DEF Starts
      <3> QED  BY <3>1
    <2> QED  BY <2>1, <2>2
  <1>9. ASSUME NEW k \in 1 .. n
        PROVE  g[k] = g[k - 1] + Len(xs[k]) /\ Holds(cs(n), g[k - 1], xs[k])
    <2>1. k \in 0 .. n /\ k - 1 \in 0 .. n
      BY <1>1
    <2> DEFINE l == Len(cs(k - 1))
               m == Len(xs[k])
    <2>2. l \in Nat /\ m \in Nat /\ Len(cs(k)) = l + m
      BY <1>1, <1>2, <1>4, <2>1
    <2>3. g[k - 1] = l + 1 /\ g[k] = (l + m) + 1
      BY <2>1, <2>2
    <2>4. ASSUME NEW i \in 1 .. m PROVE cs(n)[l + 1 + i - 1] = xs[k][i]
      <3>1. cs(k)[l + i] = xs[k][i]
        BY <1>4, Zenon
      <3> HIDE DEF l, m
      <3>2. l + 1 + i - 1 = l + i /\ l + i \in 1 .. Len(cs(k))
        BY <2>2
      <3>3. cs(n)[l + i] = cs(k)[l + i]
        BY <1>7, <2>1, <3>2, Zenon DEF Starts
      <3> QED  BY <3>1, <3>2, <3>3, Zenon
    <2>5. xs[k] \in Seq(Int)
      BY <1>1
    <2> HIDE DEF l
    <2> HIDE DEF g
    <2>6. Holds(cs(n), l + 1, xs[k])
      BY <2>4, <2>5, Zenon DEF Holds, m
    <2> HIDE DEF m
    <2>7. g[k] = g[k - 1] + m
      BY <2>2, <2>3
    <2> QED  BY <2>3, <2>6, <2>7 DEF m
  <1> HIDE DEF g
  <1>10. Layout(cs(n), xs, g)
    BY <1>8, <1>9, Zenon DEF Layout
  <1> QED  BY <1>10 DEF cs

-----------------------------------------------------------------------------
(* The body of a request. *)

\* Strings with their lengths are bytes.
LEMMA StrIsNat ==
  ASSUME OptionsAssumption, NEW s \in Seq(Nat)
  PROVE  Str(s) \in Seq(Nat) /\ Len(Str(s)) = Len(s) + 1 /\ Len(s) \in Nat
  <1> DEFINE l == Len(s) % LenLimit
  <1>1. Len(s) \in Nat
    OBVIOUS
  <1>2. l \in Nat
    BY <1>1 DEF OptionsAssumption
  <1> HIDE DEF l
  <1>3. <<l>> \in Seq(Nat) /\ Len(<<l>>) = 1
    BY <1>2
  <1>4. <<l>> \o s \in Seq(Nat) /\ Len(<<l>> \o s) = 1 + Len(s)
    BY <1>3, ConcatProperties
  <1> QED  BY <1>1, <1>4 DEF Str, l

LEMMA HoursInRange ==
  ASSUME OptionsAssumption, NEW h \in Int
  PROVE  parse_employee_hours(h) \in 0 .. HoursLimit - 1
  BY DEF parse_employee_hours, OptionsAssumption

Piece(o) == <<Letter[o.op]>> \o Fields(o)

\* The fields of an option are bytes, as many as data_len counts (proto.c
\* serialize_*_option).
LEMMA FieldsAreBytes ==
  ASSUME OptionsAssumption, NEW o \in TypedOptions
  PROVE  Fields(o) \in Seq(Nat) /\ Len(Fields(o)) = NoLetter(o) /\ Letter[o.op] \in Nat
  <1>0. ASSUME NEW x \in Nat, NEW xs \in Seq(Nat)
        PROVE  xs \o <<x>> \in Seq(Nat) /\ Len(xs \o <<x>>) = Len(xs) + 1
    <2>1. <<x>> \in Seq(Nat) /\ Len(<<x>>) = 1 /\ Len(xs) \in Nat
      OBVIOUS
    <2> QED  BY <2>1, ConcatProperties
  <1> DEFINE h == parse_employee_hours(o.hours)
  <1>1. CASE o \in [op : {"add"}, name : Seq(Nat), address : Seq(Nat), hours : Int]
    <2> DEFINE a == Str(o.name)
               b == Str(o.address)
    <2>1. /\ a \in Seq(Nat) /\ Len(a) = Len(o.name) + 1 /\ Len(o.name) \in Nat
          /\ b \in Seq(Nat) /\ Len(b) = Len(o.address) + 1 /\ Len(o.address) \in Nat
      BY <1>1, StrIsNat
    <2>2. h \in Nat
      BY <1>1, HoursInRange
    <2>3. o.op = "add"
      BY <1>1
    <2>4. Fields(o) = (a \o b) \o <<h>>
      BY <2>3 DEF Fields
    <2>5. Letter[o.op] = 1 /\ NoLetter(o) = Len(o.name) + Len(o.address) + 2 + 1
      BY <2>3 DEF Letter, NoLetter
    <2> HIDE DEF a, b, h
    <2>6. a \o b \in Seq(Nat) /\ Len(a \o b) = Len(a) + Len(b)
      BY <2>1, ConcatProperties
    <2>7. (a \o b) \o <<h>> \in Seq(Nat) /\ Len((a \o b) \o <<h>>) = Len(a \o b) + 1
      BY <1>0, <2>2, <2>6
    <2>8. Len(a \o b) + 1 = Len(o.name) + Len(o.address) + 2 + 1
      <3> DEFINE i == Len(o.name)
                 j == Len(o.address)
                 k == Len(a)
                 l == Len(b)
                 m == Len(a \o b)
      <3>1. i \in Nat /\ j \in Nat /\ k = i + 1 /\ l = j + 1 /\ m = k + l
        BY <2>1, <2>6, Zenon
      <3> HIDE DEF i, j, k, l, m
      <3>2. m + 1 = i + j + 2 + 1
        BY <3>1
      <3> QED  BY <3>2, Zenon DEF i, j, m
    <2>9. Len(Fields(o)) = NoLetter(o)
      BY <2>4, <2>5, <2>7, <2>8, Zenon
    <2>10. Fields(o) \in Seq(Nat)
      BY <2>4, <2>7, Zenon
    <2>11. Letter[o.op] \in Nat
      BY <2>5
    <2> QED  BY <2>9, <2>10, <2>11, Zenon
  <1>2. CASE o \in [op : {"update"}, name : Seq(Nat), hours : Int]
    <2> DEFINE a == Str(o.name)
    <2>1. a \in Seq(Nat) /\ Len(a) = Len(o.name) + 1 /\ Len(o.name) \in Nat
      BY <1>2, StrIsNat
    <2>2. h \in Nat
      BY <1>2, HoursInRange
    <2>3. /\ Fields(o) = a \o <<h>> /\ Letter[o.op] = 2
          /\ NoLetter(o) = Len(o.name) + 1 + 1
      BY <1>2 DEF Fields, Letter, NoLetter
    <2> HIDE DEF a, h
    <2>4. a \o <<h>> \in Seq(Nat) /\ Len(a \o <<h>>) = Len(a) + 1
      BY <1>0, <2>1, <2>2
    <2> QED  BY <2>1, <2>3, <2>4
  <1>3. CASE o \in [op : {"delete"}, name : Seq(Nat)]
    <2>1. Fields(o) = Str(o.name) /\ Letter[o.op] = 3 /\ NoLetter(o) = Len(o.name) + 1
      BY <1>3 DEF Fields, Letter, NoLetter
    <2> QED  BY <1>3, <2>1, StrIsNat
  <1>4. CASE o \in [op : {"list"}]
    <2>1. Fields(o) = <<>> /\ Letter[o.op] = 4 /\ NoLetter(o) = 0
      BY <1>4 DEF Fields, Letter, NoLetter
    <2> QED  BY <2>1
  <1> QED  BY <1>1, <1>2, <1>3, <1>4 DEF TypedOptions

\* data_len is what is written (proto.c serialize_*_option).
LEMMA PieceFits ==
  ASSUME OptionsAssumption, NEW o \in TypedOptions
  PROVE  /\ Piece(o) \in Seq(Nat) /\ Len(Piece(o)) = data_len(o)
         /\ Len(Piece(o)) >= 1 /\ Piece(o)[1] = Letter[o.op]
  <1>1. ASSUME NEW x \in Nat, NEW xs \in Seq(Nat)
        PROVE  /\ <<x>> \o xs \in Seq(Nat) /\ Len(<<x>> \o xs) = Len(xs) + 1
               /\ Len(<<x>> \o xs) >= 1 /\ (<<x>> \o xs)[1] = x
    <2>1. <<x>> \in Seq(Nat) /\ Len(<<x>>) = 1 /\ Len(xs) \in Nat /\ <<x>>[1] = x
      OBVIOUS
    <2> QED  BY <2>1, ConcatProperties
  <1> QED  BY <1>1, FieldsAreBytes DEF Piece, data_len

LEMMA SerializeGrows ==
  ASSUME OptionsAssumption, NEW o \in TypedOptions, NEW b
  PROVE  serialize_option(b, o) = Grow(b, Piece(o))
  BY PieceFits DEF serialize_option, Grow, Piece

Pieces(opts) == [k \in 1 .. Len(opts) |-> Piece(opts[k])]

\* A request is a buffer that holds what is written into it, and its options
\* stand in it one behind the other (client.c, proto.c resize_buffer and
\* serialize_*_option).
THEOREM BodyFits ==
  ASSUME OptionsAssumption, NEW opts \in Seq(TypedOptions)
  PROVE  /\ Body(opts) \in Buffer
         /\ \E g : Layout(Body(opts).cells, Pieces(opts), g)
  <1> DEFINE n == Len(opts)
             xs == Pieces(opts)
             Next(u, k) == IF k = 0 THEN Empty ELSE serialize_option(u[k - 1], opts[k])
             Is(u) == u = [k \in 0 .. Len(opts) |-> Next(u, k)]
             w == CHOOSE u : Is(u)
  <1>1. n \in Nat /\ \A k \in 1 .. n : opts[k] \in TypedOptions
    OBVIOUS
  <1>2. xs \in Seq(Seq(Nat)) /\ Len(xs) = n /\ \A k \in 1 .. n : xs[k] = Piece(opts[k])
    <2>1. \A k \in 1 .. n : Piece(opts[k]) \in Seq(Nat)
      BY <1>1, PieceFits
    <2>2. xs \in [1 .. n -> Seq(Nat)]
      BY <2>1 DEF Pieces
    <2>3. \A k \in 1 .. n : xs[k] = Piece(opts[k])
      BY DEF Pieces
    <2> HIDE DEF xs
    <2> QED  BY <1>1, <2>2, <2>3
  <1>3. \A k \in 1 .. n : \A b : serialize_option(b, opts[k]) = Grow(b, xs[k])
    BY <1>1, <1>2, SerializeGrows
  <1> HIDE DEF xs
  <1>4. PICK f : /\ Filled(xs, f)
                 /\ \A h : (h[0] = Empty /\ \A k \in 1 .. Len(xs) :
                              h[k - 1] \in Buffer => h[k] = Grow(h[k - 1], xs[k]))
                           => \A k \in 0 .. Len(xs) : h[k] = f[k]
    BY <1>2, FillsUp, Zenon
  <1>5. Is(f)
    <2>1. f \in [0 .. n -> Buffer] /\ f[0] = Empty /\ \A k \in 1 .. n : f[k] = Grow(f[k - 1], xs[k])
      BY <1>2, <1>4 DEF Filled
    <2>2. \A k \in 0 .. n : k = 0 \/ (k # 0 /\ k \in 1 .. n)
      BY <1>1
    <2>3. \A k \in 0 .. n : f[k] = Next(f, k)
      BY <1>3, <2>1, <2>2, Zenon
    <2> HIDE DEF Next
    <2> QED  BY <2>1, <2>3
  <1>6. Is(w)
    <2> HIDE DEF Is
    <2> QED  BY <1>5, Zenon
  <1>7. Body(opts) = w[Len(opts)]
    BY Zenon DEF Body
  <1> HIDE DEF w
  <1>8. \A k \in 0 .. n : w[k] = Next(w, k)
    <2> HIDE DEF Next
    <2> QED  BY <1>6, Zenon
  <1>9. w[0] = Empty /\ \A k \in 1 .. n : w[k] = Grow(w[k - 1], xs[k])
    <2>1. 0 \in 0 .. n /\ \A k \in 1 .. n : k \in 0 .. n /\ k # 0
      BY <1>1
    <2> QED  BY <1>3, <1>8, <2>1, Zenon
  <1>10. \A k \in 0 .. n : w[k] = f[k]
    BY <1>2, <1>4, <1>9, Zenon
  <1>11. n \in 0 .. n
    BY <1>1
  <1>12. Body(opts) = f[n] /\ f[n] \in Buffer
    BY <1>2, <1>4, <1>7, <1>10, <1>11 DEF Filled
  <1> QED  BY <1>2, <1>4, <1>12, FilledLayout DEF xs

-----------------------------------------------------------------------------
(* The rows of a listing. *)

\* The length of a string with its terminator, as much of it as is kept.
LEMMA FieldFits ==
  ASSUME OptionsAssumption, NEW s \in Seq(Nat)
  PROVE  /\ FieldLen(s) \in Nat /\ FieldLen(s) <= Len(s) + 1
         /\ FieldStr(s) \in Seq(Nat) /\ Len(FieldStr(s)) = FieldLen(s) + 1
         /\ FieldStr(s)[1] = FieldLen(s)
         /\ FieldCells(s) \in Seq(Nat) /\ Len(FieldCells(s)) = FieldLen(s)
  <1> DEFINE l == FieldLen(s)
             t == Append(s, 0)
  <1>1. t \in Seq(Nat) /\ Len(t) = Len(s) + 1 /\ Len(s) \in Nat
    OBVIOUS
  <1>2. \A n, m \in Nat : m # 0 => n % m \in Nat /\ n % m <= n
    OBVIOUS
  <1>3. l \in Nat /\ l <= Len(s) + 1
    <2>1. Len(s) + 1 \in Nat /\ LenLimit \in Nat /\ LenLimit # 0
      BY <1>1 DEF OptionsAssumption
    <2> QED  BY <1>2, <2>1, Zenon DEF FieldLen
  <1> HIDE DEF l, t
  <1>4. SubSeq(t, 1, l) \in Seq(Nat) /\ Len(SubSeq(t, 1, l)) = l
    BY <1>1, <1>3
  <1>5. FieldStr(s) = <<l>> \o SubSeq(t, 1, l)
    BY DEF FieldStr, FieldCells, l, t
  <1>8. FieldCells(s) \in Seq(Nat) /\ Len(FieldCells(s)) = l
    BY <1>4 DEF FieldCells, l, t
  <1>6. \A x \in Nat : \A y \in Seq(Nat) :
          <<x>> \o y \in Seq(Nat) /\ Len(<<x>> \o y) = Len(y) + 1 /\ (<<x>> \o y)[1] = x
    OBVIOUS
  <1>7. FieldStr(s) \in Seq(Nat) /\ Len(FieldStr(s)) = l + 1 /\ FieldStr(s)[1] = l
    <2> DEFINE y == SubSeq(t, 1, l)
    <2> HIDE DEF y
    <2>1. y \in Seq(Nat) /\ Len(y) = l /\ FieldStr(s) = <<l>> \o y
      BY <1>4, <1>5 DEF y
    <2>2. <<l>> \o y \in Seq(Nat) /\ Len(<<l>> \o y) = Len(y) + 1 /\ (<<l>> \o y)[1] = l
      BY <1>3, <1>6, <2>1, Zenon
    <2> QED  BY <2>1, <2>2, Zenon
  <1> QED  BY <1>3, <1>7, <1>8 DEF l

LEMMA RowFits ==
  ASSUME OptionsAssumption, NEW e \in Employees
  PROVE  /\ Row(e) \in Seq(Nat)
         /\ Len(Row(e)) = (FieldLen(e.name) + 1) + (FieldLen(e.address) + 1) + 1
  <1> DEFINE a == FieldStr(e.name)
             b == FieldStr(e.address)
             c == <<e.hours>>
  <1>1. e.name \in Seq(Nat) /\ e.address \in Seq(Nat) /\ e.hours \in Nat
    BY DEF Employees, OptionsAssumption
  <1>2. /\ a \in Seq(Nat) /\ Len(a) = FieldLen(e.name) + 1
        /\ b \in Seq(Nat) /\ Len(b) = FieldLen(e.address) + 1
    BY <1>1, FieldFits
  <1>3. c \in Seq(Nat) /\ Len(c) = 1
    BY <1>1
  <1> HIDE DEF a, b, c
  <1>4. a \o b \in Seq(Nat) /\ Len(a \o b) = Len(a) + Len(b)
    BY <1>2, ConcatProperties
  <1>5. (a \o b) \o c \in Seq(Nat) /\ Len((a \o b) \o c) = Len(a \o b) + Len(c)
    BY <1>3, <1>4, ConcatProperties
  <1>6. Row(e) = (a \o b) \o c
    BY DEF Row, a, b, c
  <1> QED  BY <1>2, <1>3, <1>4, <1>5, <1>6, Zenon

RowsOf(es) == [k \in 1 .. Len(es) |-> Row(es[k])]

\* A listing is a buffer that holds what is written into it, and its rows
\* stand in it one behind the other (proto.c
\* serialize_list_employee_response).
THEOREM ListingFits ==
  ASSUME OptionsAssumption, NEW es \in Seq(Employees)
  PROVE  /\ serialize_list_employee_response(es) \in Buffer
         /\ \E g : Layout(serialize_list_employee_response(es).cells, RowsOf(es), g)
  <1> DEFINE n == Len(es)
             xs == RowsOf(es)
             Next(u, k) ==
               IF k = 0 THEN Empty
               ELSE Write(resize_buffer(u[k - 1], Len(Row(es[k]))), Row(es[k]))
             Is(u) == u = [k \in 0 .. Len(es) |-> Next(u, k)]
             w == CHOOSE u : Is(u)
  <1>1. n \in Nat /\ \A k \in 1 .. n : es[k] \in Employees
    OBVIOUS
  <1>2. xs \in Seq(Seq(Nat)) /\ Len(xs) = n /\ \A k \in 1 .. n : xs[k] = Row(es[k])
    <2>1. \A k \in 1 .. n : Row(es[k]) \in Seq(Nat)
      BY <1>1, RowFits
    <2>2. xs \in [1 .. n -> Seq(Nat)]
      BY <2>1 DEF RowsOf
    <2>3. \A k \in 1 .. n : xs[k] = Row(es[k])
      BY DEF RowsOf
    <2> HIDE DEF xs
    <2> QED  BY <1>1, <2>2, <2>3
  <1>3. \A k \in 1 .. n : \A b :
          Write(resize_buffer(b, Len(Row(es[k]))), Row(es[k])) = Grow(b, xs[k])
    BY <1>2 DEF Grow
  <1> HIDE DEF xs
  <1>4. PICK f : /\ Filled(xs, f)
                 /\ \A h : (h[0] = Empty /\ \A k \in 1 .. Len(xs) :
                              h[k - 1] \in Buffer => h[k] = Grow(h[k - 1], xs[k]))
                           => \A k \in 0 .. Len(xs) : h[k] = f[k]
    BY <1>2, FillsUp, Zenon
  <1>5. Is(f)
    <2>1. f \in [0 .. n -> Buffer] /\ f[0] = Empty /\ \A k \in 1 .. n : f[k] = Grow(f[k - 1], xs[k])
      BY <1>2, <1>4 DEF Filled
    <2>2. \A k \in 0 .. n : k = 0 \/ (k # 0 /\ k \in 1 .. n)
      BY <1>1
    <2>3. \A k \in 0 .. n : f[k] = Next(f, k)
      BY <1>3, <2>1, <2>2, Zenon
    <2> HIDE DEF Next
    <2> QED  BY <2>1, <2>3
  <1>6. Is(w)
    <2> HIDE DEF Is
    <2> QED  BY <1>5, Zenon
  <1>7. serialize_list_employee_response(es) = w[Len(es)]
    BY Zenon DEF serialize_list_employee_response
  <1> HIDE DEF w
  <1>8. \A k \in 0 .. n : w[k] = Next(w, k)
    <2> HIDE DEF Next
    <2> QED  BY <1>6, Zenon
  <1>9. w[0] = Empty /\ \A k \in 1 .. n : w[k] = Grow(w[k - 1], xs[k])
    <2>1. 0 \in 0 .. n /\ \A k \in 1 .. n : k \in 0 .. n /\ k # 0
      BY <1>1
    <2> QED  BY <1>3, <1>8, <2>1, Zenon
  <1>10. \A k \in 0 .. n : w[k] = f[k]
    BY <1>2, <1>4, <1>9, Zenon
  <1>11. n \in 0 .. n
    BY <1>1
  <1>12. serialize_list_employee_response(es) = f[n] /\ f[n] \in Buffer
    BY <1>2, <1>4, <1>7, <1>10, <1>11 DEF Filled
  <1> QED  BY <1>2, <1>4, <1>12, FilledLayout DEF xs

\* Strings that fit their field with their terminator, and those whose length
\* it makes zero.
Fills(s) == FieldLen(s) = 0
Kept(s) == ~Fills(s) /\ ~TooLong(s)

LEMMA ReadBack ==
  ASSUME OptionsAssumption, NEW s \in Seq(Nat), NEW u \in Seq(Nat)
  PROVE  /\ Reread(s, u) \in Seq(Nat)
         /\ Kept(s) => Reread(s, u) = s
         /\ Fills(s) => Reread(s, u) = u
  <1> DEFINE f == FieldCells(s)
             l == FieldLen(s)
             t == Append(s, 0)
  <1>1. f \in Seq(Nat) /\ Len(f) = l /\ l \in Nat
    BY FieldFits
  <1>2. /\ t \in Seq(Nat) /\ Len(s) \in Nat /\ Len(t) = Len(s) + 1
        /\ t[Len(s) + 1] = 0 /\ SubSeq(t, 1, Len(s)) = s /\ SubSeq(t, 1, Len(s) + 1) = t
    OBVIOUS
  <1>3. Kept(s) => l = Len(s) + 1
    <2>1. LenLimit \in Nat \ {0} /\ Len(s) \in Nat
      BY DEF OptionsAssumption
    <2>2. Kept(s) => Len(s) + 1 <= LenLimit
      BY <2>1 DEF Kept, TooLong
    <2>3. CASE Len(s) + 1 = LenLimit
      <3>1. LenLimit % LenLimit = 0
        BY <2>1
      <3> QED  BY <2>3, <3>1, Zenon DEF Kept, Fills, FieldLen
    <2>4. CASE Len(s) + 1 < LenLimit
      <3>1. (Len(s) + 1) % LenLimit = Len(s) + 1
        BY <2>1, <2>4, FitsUncut
      <3> QED  BY <3>1 DEF l, FieldLen
    <2> QED  BY <2>1, <2>2, <2>3, <2>4
  <1>4. f = SubSeq(t, 1, l)
    BY DEF FieldCells
  <1>5. Reread(s, u) = InMemory(f, u)
    BY DEF Reread
  <1>6. Fills(s) <=> l = 0
    BY DEF Fills
  <1> HIDE DEF f, l, t
  <1>7. Reread(s, u) \in Seq(Nat)
    <2>1. CASE f # <<>> /\ f[Len(f)] = 0
      <3>1. 1 <= Len(f) + 1 /\ Len(f) - 1 \in 0 .. Len(f)
        BY <1>1, <2>1
      <3>2. SubSeq(f, 1, Len(f) - 1) \in Seq(Nat)
        BY <1>1, <3>1
      <3> QED  BY <1>5, <2>1, <3>2, Zenon DEF InMemory
    <2>2. CASE ~ (f # <<>> /\ f[Len(f)] = 0)
      <3>1. f \o u \in Seq(Nat)
        BY <1>1
      <3> QED  BY <1>5, <2>2, <3>1, Zenon DEF InMemory
    <2> QED  BY <2>1, <2>2, Zenon
  <1>8. ASSUME Kept(s) PROVE Reread(s, u) = s
    <2>1. f = t
      BY <1>2, <1>3, <1>4, <1>8
    <2>2. f # <<>> /\ f[Len(f)] = 0 /\ SubSeq(f, 1, Len(f) - 1) = s
      BY <1>2, <2>1
    <2> QED  BY <1>5, <2>2, Zenon DEF InMemory
  <1>9. ASSUME Fills(s) PROVE Reread(s, u) = u
    <2>1. f = <<>>
      BY <1>1, <1>6, <1>9
    <2>2. <<>> \o u = u
      OBVIOUS
    <2>3. InMemory(f, u) = f \o u
      BY <2>1, Zenon DEF InMemory
    <2> QED  BY <1>5, <2>1, <2>2, <2>3, Zenon
  <1> QED  BY <1>7, <1>8, <1>9

\* Whatever fresh memory held, a name or address is read from a row of a
\* listing as it would be read from the file, and the cursor is left behind it
\* (proto.c serialize_/deserialize_list_employee_response): whole if its
\* terminator fits the length too, and not at all if that is one too many.
THEOREM FieldSurvives ==
  ASSUME OptionsAssumption, NEW s \in Seq(Nat), NEW u \in Seq(Nat),
         NEW cells, NEW p \in Int, Holds(cells, p, FieldStr(s))
  PROVE  /\ FieldAt(cells, p, u) = Reread(s, u)
         /\ After(cells, p) = p + FieldLen(s) + 1
         /\ Kept(s) => Reread(s, u) = s
         /\ Fills(s) => Reread(s, u) = u
  <1> DEFINE f == FieldCells(s)
             l == FieldLen(s)
  <1>1. f \in Seq(Nat) /\ Len(f) = l /\ l \in Nat
    BY FieldFits
  <1>2. f \in Seq(Int)
    BY <1>1
  <1>3. Holds(cells, p, <<l>> \o f)
    BY DEF FieldStr
  <1> HIDE DEF f, l
  <1>4. l \in Int
    BY <1>1
  <1>5. cells[p] = l /\ Holds(cells, p + 1, f)
    BY <1>2, <1>3, <1>4, HoldsFirst
  <1>6. SubSeq(cells, p + 1, p + 1 + Len(f) - 1) = f
    <2>1. p + 1 \in Int
      OBVIOUS
    <2> QED  BY <1>2, <1>5, <2>1, HoldsSequence
  <1>7. p + 1 + Len(f) - 1 = p + l /\ p + l + 1 = p + cells[p] + 1
    BY <1>1, <1>5
  <1>8. StrAt(cells, p) = f
    BY <1>5, <1>6, <1>7, Zenon DEF StrAt
  <1>9. FieldAt(cells, p, u) = Reread(s, u)
    BY <1>8, Zenon DEF FieldAt, Reread, f
  <1>10. After(cells, p) = p + l + 1
    BY <1>7, Zenon DEF After
  <1> QED  BY <1>9, <1>10, ReadBack DEF l

\* A field of a row is read to its end, and whole if it was written whole.
LEMMA FieldRead ==
  ASSUME OptionsAssumption, NEW s \in Seq(Nat), NEW u \in Seq(Nat),
         NEW cells, NEW p \in Int, Holds(cells, p, FieldStr(s))
  PROVE  /\ After(cells, p) = p + FieldLen(s) + 1
         /\ FieldAt(cells, p, u) \in Seq(Nat)
         /\ Kept(s) => FieldAt(cells, p, u) = s
  <1>1. /\ FieldAt(cells, p, u) = Reread(s, u)
        /\ After(cells, p) = p + FieldLen(s) + 1
        /\ Kept(s) => Reread(s, u) = s
    BY FieldSurvives
  <1> QED  BY <1>1, ReadBack

\* One round of the client's loop reads one row.
RowsBefore(r, u) ==
  IF Len(r.rows) = r.size THEN [k \in 1 .. r.size |-> NoRow(u)] ELSE r.rows
SizeAfter(r) == IF Len(r.rows) = r.size THEN 2 * r.size ELSE r.size

Appends(cells, r, u, e) ==
  \E x \in Employees :
    /\ NextRow(cells, r, u) =
         [next |-> r.next + Len(Row(e)), rows |-> Append(RowsBefore(r, u), x),
          size |-> SizeAfter(r)]
    /\ Kept(e.name) /\ Kept(e.address) => x = e

LEMMA RowRead ==
  ASSUME OptionsAssumption, NEW e \in Employees, NEW u \in Seq(Nat),
         NEW cells \in Seq(Nat), NEW r, r.next \in Nat \ {0}, Holds(cells, r.next, Row(e)),
         r.next + Len(Row(e)) <= Len(cells) + 1
  PROVE  Appends(cells, r, u, e)
  <1> DEFINE p == r.next
             q == After(cells, p)
             a == FieldStr(e.name)
             b == FieldStr(e.address)
             l == FieldLen(e.name)
             m == FieldLen(e.address)
             x == [name |-> FieldAt(cells, p, u), address |-> FieldAt(cells, q, u),
                   hours |-> cells[After(cells, q)]]
  <1>1. /\ e.name \in Seq(Nat) /\ e.address \in Seq(Nat) /\ e.hours \in 0 .. HoursLimit - 1
        /\ e.hours \in Int
        /\ e = [name |-> e.name, address |-> e.address, hours |-> e.hours]
    BY DEF Employees, OptionsAssumption
  <1>2. /\ l \in Nat /\ m \in Nat
        /\ a \in Seq(Nat) /\ Len(a) = l + 1 /\ b \in Seq(Nat) /\ Len(b) = m + 1
    BY <1>1, FieldFits
  <1>3. Row(e) = (a \o b) \o <<e.hours>> /\ Len(Row(e)) = (l + 1) + (m + 1) + 1
    BY RowFits DEF Row
  <1>4. p \in Nat \ {0} /\ p + ((l + 1) + (m + 1) + 1) <= Len(cells) + 1 /\ Len(cells) \in Nat
    BY <1>3
  <1> HIDE DEF a, b, l, m, q, x, p
  <1>5. /\ Holds(cells, p, a)
        /\ Holds(cells, p + Len(a), b)
        /\ cells[p + Len(a) + Len(b)] = e.hours
    <2>1. Holds(cells, p, (a \o b) \o <<e.hours>>)
      BY <1>3 DEF p
    <2>2. \A s \in Seq(Nat) : s \in Seq(Int)
      OBVIOUS
    <2>3. a \in Seq(Int) /\ b \in Seq(Int)
      BY <1>2, <2>2, Zenon
    <2>4. p \in Int /\ e.hours \in Int
      BY <1>1, <1>4
    <2> DEFINE ab == a \o b
               h == e.hours
    <2>5. ab \in Seq(Int) /\ Len(ab) = Len(a) + Len(b)
      BY <2>3, ConcatProperties
    <2>6. Holds(cells, p, ab) => Holds(cells, p, a) /\ Holds(cells, p + Len(a), b)
      BY <2>3, <2>4, HoldsParts
    <2>7. Holds(cells, p, ab \o <<h>>) /\ h \in Int
      BY <2>1, <2>4
    <2> HIDE DEF ab, h
    <2>8. Holds(cells, p, ab) /\ cells[p + Len(ab)] = h
      BY <2>4, <2>5, <2>7, HoldsLast
    <2>9. Len(a) \in Nat /\ Len(b) \in Nat
      BY <2>3
    <2>10. p + (Len(a) + Len(b)) = p + Len(a) + Len(b)
      BY <2>4, <2>9
    <2> QED  BY <2>5, <2>6, <2>8, <2>10, Zenon DEF h
  <1>6. /\ q = p + l + 1
        /\ FieldAt(cells, p, u) \in Seq(Nat)
        /\ Kept(e.name) => FieldAt(cells, p, u) = e.name
    <2>1. p + l <= Len(cells)
      BY <1>2, <1>4
    <2>2. Holds(cells, p, FieldStr(e.name)) /\ p + FieldLen(e.name) <= Len(cells)
      BY <1>5, <2>1 DEF a, l
    <2> QED  BY <1>1, <1>4, <2>2, FieldRead DEF q, l
  <1>7. /\ q \in Nat \ {0} /\ p + Len(a) = q /\ q + m <= Len(cells)
        /\ p + Len(a) + Len(b) = q + m + 1
        /\ q + m + 1 + 1 = p + ((l + 1) + (m + 1) + 1)
    <2>1. Len(a) = l + 1 /\ Len(b) = m + 1 /\ l \in Nat /\ m \in Nat
      BY <1>2
    <2> QED  BY <1>4, <1>6, <2>1
  <1>8. /\ After(cells, q) = q + m + 1
        /\ FieldAt(cells, q, u) \in Seq(Nat)
        /\ Kept(e.address) => FieldAt(cells, q, u) = e.address
    <2>1. Holds(cells, q, FieldStr(e.address)) /\ q + FieldLen(e.address) <= Len(cells)
      BY <1>5, <1>7 DEF b, m
    <2> QED  BY <1>1, <1>7, <2>1, FieldRead DEF m
  <1>9. cells[After(cells, q)] = e.hours
    BY <1>5, <1>7, <1>8
  <1>10. x \in Employees /\ (Kept(e.name) /\ Kept(e.address) => x = e)
    BY <1>1, <1>6, <1>8, <1>9 DEF x, Employees
  <1>11. After(cells, q) + 1 = p + Len(Row(e))
    BY <1>3, <1>7, <1>8
  <1>12. NextRow(cells, r, u) =
           [next |-> p + Len(Row(e)), rows |-> Append(RowsBefore(r, u), x),
            size |-> SizeAfter(r)]
    BY <1>11 DEF NextRow, RowsBefore, SizeAfter, p, q, x
  <1> QED  BY <1>10, <1>12 DEF Appends, p

Began == [next |-> 1, rows |-> <<>>, size |-> InitRows]
Goes(cells, r, u) == IF r.next > Len(cells) THEN r ELSE NextRow(cells, r, u)

\* The loop in between two rows, and what it has read if nothing is lost.
Between(es, g, r, j) ==
  /\ r \in [next : Nat, rows : Seq(Employees), size : Nat]
  /\ r.next = g[j]
  /\ (Len(es) <= InitRows /\ \A k \in 1 .. Len(es) : Kept(es[k].name) /\ Kept(es[k].address))
     => r.rows = SubSeq(es, 1, j) /\ r.size = InitRows

LEMMA GoesOn ==
  ASSUME OptionsAssumption, NEW es \in Seq(Employees), NEW u \in Seq(Nat),
         NEW cells \in Seq(Nat), NEW g, Layout(cells, RowsOf(es), g),
         NEW r, NEW j \in 0 .. Len(es), Between(es, g, r, j)
  PROVE  IF j = Len(es) THEN Goes(cells, r, u) = r
         ELSE Between(es, g, Goes(cells, r, u), j + 1)
  <1> DEFINE n == Len(es)
             All == n <= InitRows /\ \A k \in 1 .. n : Kept(es[k].name) /\ Kept(es[k].address)
  <1>1. n \in Nat /\ Len(cells) \in Nat /\ \A k \in 1 .. n : es[k] \in Employees
    OBVIOUS
  <1>2. Len(RowsOf(es)) = n /\ \A k \in 1 .. n : RowsOf(es)[k] = Row(es[k])
    BY <1>1 DEF RowsOf
  <1>3. /\ g \in [0 .. n -> 1 .. Len(cells) + 1] /\ g[n] = Len(cells) + 1
        /\ \A k \in 1 .. n : g[k] = g[k - 1] + Len(Row(es[k])) /\ Holds(cells, g[k - 1], Row(es[k]))
    BY <1>2 DEF Layout
  <1>4. r.next = g[j] /\ r.next \in Nat /\ r.rows \in Seq(Employees) /\ r.size \in Nat
    BY DEF Between
  <1>5. CASE j = n
    <2>1. r.next > Len(cells)
      BY <1>1, <1>3, <1>4, <1>5
    <2> QED  BY <1>5, <2>1 DEF Goes
  <1>6. CASE j # n
    <2> DEFINE e == es[j + 1]
    <2>1. j + 1 \in 1 .. n /\ j + 1 \in 0 .. n /\ (j + 1) - 1 = j /\ j < n /\ j \in Nat
      BY <1>1, <1>6
    <2>2. e \in Employees /\ g[j + 1] = g[j] + Len(Row(e)) /\ Holds(cells, g[j], Row(e))
      BY <1>1, <1>3, <2>1
    <2>3. g[j] \in 1 .. Len(cells) + 1 /\ g[j + 1] \in 1 .. Len(cells) + 1
      BY <1>3, <2>1
    <2>4. Len(Row(e)) \in Nat /\ Len(Row(e)) >= 3
      <3>1. Len(Row(e)) = (FieldLen(e.name) + 1) + (FieldLen(e.address) + 1) + 1
        BY <2>2, RowFits
      <3>2. FieldLen(e.name) \in Nat /\ FieldLen(e.address) \in Nat
        BY <2>2, FieldFits DEF Employees
      <3> QED  BY <3>1, <3>2
    <2> HIDE DEF e
    <2>5. r.next \in Nat \ {0} /\ Holds(cells, r.next, Row(e)) /\ r.next + Len(Row(e)) = g[j + 1]
      BY <1>4, <2>2, <2>3
    <2>6. r.next + Len(Row(e)) <= Len(cells) + 1 /\ ~(r.next > Len(cells))
      BY <1>1, <2>3, <2>4, <2>5
    <2> DEFINE old == RowsBefore(r, u)
               size == SizeAfter(r)
    <2>7. Appends(cells, r, u, e)
      BY <2>2, <2>5, <2>6, RowRead
    <2> HIDE DEF size, old
    <2>8. PICK x \in Employees :
            /\ NextRow(cells, r, u) =
                 [next |-> g[j + 1], rows |-> Append(old, x), size |-> size]
            /\ Kept(e.name) /\ Kept(e.address) => x = e
      BY <2>5, <2>7 DEF Appends, old, size
    <2>9. Goes(cells, r, u) = NextRow(cells, r, u)
      BY <2>6 DEF Goes
    <2>10. old \in Seq(Employees)
      <3>1. NoRow(u) \in Employees
        BY DEF NoRow, Employees, OptionsAssumption
      <3>2. \A S : \A m \in Nat, y \in S : [k \in 1 .. m |-> y] \in Seq(S)
        OBVIOUS
      <3>3. [k \in 1 .. r.size |-> NoRow(u)] \in Seq(Employees)
        BY <1>4, <3>1, <3>2, Zenon
      <3> QED  BY <1>4, <3>3 DEF old, RowsBefore
    <2>11. Goes(cells, r, u) \in [next : Nat, rows : Seq(Employees), size : Nat]
      <3>1. Append(old, x) \in Seq(Employees) /\ g[j + 1] \in Nat
        BY <2>3, <2>10
      <3>2. size \in Nat
        BY <1>4 DEF size, SizeAfter
      <3> QED  BY <1>4, <2>8, <2>9, <3>1, <3>2
    <2>12. ASSUME All
           PROVE  /\ Goes(cells, r, u).rows = SubSeq(es, 1, j + 1)
                  /\ Goes(cells, r, u).size = InitRows
      <3>1. r.rows = SubSeq(es, 1, j) /\ r.size = InitRows
        BY <2>12 DEF Between
      <3>2. Len(r.rows) = j
        BY <2>1, <3>1
      <3>3. Len(r.rows) # r.size
        BY <1>1, <2>1, <2>12, <3>1, <3>2 DEF OptionsAssumption
      <3>4. old = r.rows
        BY <3>3 DEF old, RowsBefore
      <3>5. x = e
        BY <2>1, <2>8, <2>12 DEF e
      <3>6. SubSeq(es, 1, j + 1) = Append(SubSeq(es, 1, j), es[j + 1])
        BY <2>1
      <3> QED  BY <2>8, <2>9, <3>1, <3>3, <3>4, <3>5, <3>6 DEF e, size, SizeAfter
    <2>13. Goes(cells, r, u).next = g[j + 1]
      BY <2>8, <2>9
    <2>14. Between(es, g, Goes(cells, r, u), j + 1)
      BY <2>11, <2>12, <2>13 DEF Between
    <2> QED  BY <1>6, <2>14
  <1> QED  BY <1>5, <1>6

\* A listing is read to its end, and its rows are employees whatever they
\* are; one of at most InitRows rows whose strings all fit is shown as the
\* server had it (client.c and proto.c deserialize_list_employee_response).
THEOREM ListingSurvives ==
  ASSUME OptionsAssumption, NEW es \in Seq(Employees), NEW u \in Uninit,
         NEW rows, rows = deserialize_list_employee_response(
                            serialize_list_employee_response(es).cells, u)
  PROVE  /\ rows \in Seq(Employees)
         /\ (Len(es) <= InitRows /\ \A k \in 1 .. Len(es) : Kept(es[k].name) /\ Kept(es[k].address))
            => rows = es
  <1> DEFINE n == Len(es)
             cells == serialize_list_employee_response(es).cells
             m == Len(cells)
  <1>1. /\ n \in Nat /\ cells \in Seq(Nat) /\ m \in Nat /\ u \in Seq(Nat)
        /\ \A k \in 1 .. n : es[k] \in Employees
    <2>1. serialize_list_employee_response(es) \in Buffer
      BY ListingFits
    <2> QED  BY <2>1 DEF Buffer, OptionsAssumption
  <1>2. PICK g : Layout(cells, RowsOf(es), g)
    BY ListingFits
  <1> DEFINE Is(v) == v = [k \in 0 .. Len(cells) |->
                            IF k = 0 THEN [next |-> 1, rows |-> <<>>, size |-> InitRows]
                            ELSE LET before == v[k - 1]
                                 IN  IF before.next > Len(cells) THEN before
                                     ELSE NextRow(cells, before, u)]
             w == CHOOSE v : Is(v)
  <1>3. rows = w[m].rows
    BY Zenon DEF deserialize_list_employee_response
  <1> HIDE DEF cells
  <1>4. /\ Len(RowsOf(es)) = n /\ \A k \in 1 .. n : RowsOf(es)[k] = Row(es[k])
    BY <1>1 DEF RowsOf
  <1>5. /\ g \in [0 .. n -> 1 .. m + 1] /\ g[0] = 1 /\ g[n] = m + 1
        /\ \A k \in 1 .. n : g[k] = g[k - 1] + Len(Row(es[k]))
    BY <1>4, <1>2 DEF Layout
  <1>6. n <= m
    <2> DEFINE T == {k \in 0 .. n : g[k] >= k + 1}
    <2>1. 0 \in T
      BY <1>1, <1>5
    <2>2. ASSUME NEW k \in 0 .. n - 1, k \in T PROVE k + 1 \in T
      <3>1. k + 1 \in 1 .. n /\ k + 1 \in 0 .. n /\ k \in 0 .. n /\ (k + 1) - 1 = k
        BY <1>1
      <3>2. g[k] \in Nat /\ g[k + 1] = g[k] + Len(Row(es[k + 1])) /\ g[k] >= k + 1
        <4>1. g[k + 1] = g[(k + 1) - 1] + Len(Row(es[k + 1]))
          BY <1>5, <3>1, Zenon
        <4>2. g[k] \in 1 .. m + 1
          BY <1>5, <3>1, Zenon
        <4>3. \A x \in 1 .. m + 1 : x \in Nat
          BY <1>1
        <4>4. g[k] >= k + 1
          BY <2>2
        <4> QED  BY <3>1, <4>1, <4>2, <4>3, <4>4, Zenon
      <3>3. Len(Row(es[k + 1])) \in Nat /\ Len(Row(es[k + 1])) >= 1
        <4> DEFINE e == es[k + 1]
        <4>1. e \in Employees
          BY <1>1, <3>1
        <4> HIDE DEF e
        <4>2. Len(Row(e)) = (FieldLen(e.name) + 1) + (FieldLen(e.address) + 1) + 1
          BY <4>1, RowFits
        <4>3. FieldLen(e.name) \in Nat /\ FieldLen(e.address) \in Nat
          BY <4>1, FieldFits DEF Employees
        <4>4. Len(Row(e)) \in Nat /\ Len(Row(e)) >= 1
          BY <4>2, <4>3
        <4> QED  BY <4>4 DEF e
      <3>4. g[k + 1] >= (k + 1) + 1
        BY <3>2, <3>3
      <3> QED  BY <3>1, <3>4
    <2>3. \A k \in 0 .. n : k \in T
      <3> HIDE DEF T
      <3> QED  BY <1>1, <2>1, <2>2, UptoSet, Zenon
    <2>4. n \in 0 .. n
      BY <1>1
    <2>5. g[n] >= n + 1
      BY <2>3, <2>4
    <2> QED  BY <1>1, <1>5, <2>5
  <1>7. Between(es, g, Began, 0)
    <2>1. SubSeq(es, 1, 0) = <<>> /\ <<>> \in Seq(Employees) /\ InitRows \in Nat
      BY SubSeqEmpty DEF OptionsAssumption
    <2>2. Began.next = 1 /\ Began.rows = <<>> /\ Began.size = InitRows
      BY DEF Began
    <2>3. Began \in [next : Nat, rows : Seq(Employees), size : Nat]
      BY <2>1 DEF Began
    <2> QED  BY <1>5, <2>1, <2>2, <2>3 DEF Between
  <1> DEFINE S == {r \in [next : Nat, rows : Seq(Employees), size : Nat] :
                     \E j \in 0 .. n : Between(es, g, r, j)}
             step == [x \in (1 .. m) \X S |-> Goes(cells, x[2], u)]
             Min(k) == IF k <= n THEN k ELSE n
  <1>8. ASSUME NEW r, NEW j \in 0 .. n, Between(es, g, r, j)
        PROVE  IF j = n THEN Goes(cells, r, u) = r
               ELSE Between(es, g, Goes(cells, r, u), j + 1)
    BY <1>1, <1>2, <1>8, GoesOn
  <1>9. ASSUME NEW r \in S PROVE Goes(cells, r, u) \in S
    <2>1. PICK j \in 0 .. n : Between(es, g, r, j)
      OBVIOUS
    <2>2. CASE j = n
      BY <1>8, <2>1, <2>2
    <2>3. CASE j # n
      <3>1. Between(es, g, Goes(cells, r, u), j + 1) /\ j + 1 \in 0 .. n
        BY <1>1, <1>8, <2>1, <2>3
      <3>2. Goes(cells, r, u) \in [next : Nat, rows : Seq(Employees), size : Nat]
        BY <3>1 DEF Between
      <3> QED  BY <3>1, <3>2, Zenon
    <2> QED  BY <2>2, <2>3
  <1>10. Began \in S
    <2>1. 0 \in 0 .. n /\ Began \in [next : Nat, rows : Seq(Employees), size : Nat]
      BY <1>1, <1>7 DEF Between
    <2> QED  BY <1>7, <2>1, Zenon
  <1> HIDE DEF S
  <1>11. /\ step \in [(1 .. m) \X S -> S]
         /\ \A k \in 1 .. m : \A r \in S : step[<<k, r>>] = Goes(cells, r, u)
    BY <1>9
  <1> HIDE DEF step, m
  <1>12. PICK f \in [0 .. m -> S] : Follows(m, Began, step, f)
    BY <1>1, <1>10, <1>11, Recursive, Zenon
  <1>13. f[0] = Began /\ \A k \in 1 .. m : f[k] = Goes(cells, f[k - 1], u)
    <2>1. \A k \in 1 .. m : k - 1 \in 0 .. m
      BY <1>1
    <2>2. \A k \in 1 .. m : f[k - 1] \in S
      BY <2>1
    <2> QED  BY <1>11, <1>12, <2>2, Zenon DEF Follows
  <1> DEFINE Next(v, k) == IF k = 0 THEN Began ELSE Goes(cells, v[k - 1], u)
  <1>14. \A v : Is(v) <=> v = [k \in 0 .. m |-> Next(v, k)]
    BY DEF Began, Goes, m
  <1> HIDE DEF Is
  <1>15. Is(f)
    <2>1. \A k \in 0 .. m : k = 0 \/ (k # 0 /\ k \in 1 .. m)
      BY <1>1
    <2>2. \A k \in 0 .. m : f[k] = Next(f, k)
      BY <1>13, <2>1, Zenon
    <2> HIDE DEF Next
    <2>3. f = [k \in 0 .. m |-> Next(f, k)]
      BY <2>2
    <2> QED  BY <1>14, <2>3, Zenon
  <1>16. Is(w)
    BY <1>15, Zenon
  <1> HIDE DEF w
  <1>17. w[0] = Began /\ \A k \in 1 .. m : w[k] = Goes(cells, w[k - 1], u)
    <2>1. 0 \in 0 .. m /\ \A k \in 1 .. m : k \in 0 .. m /\ k # 0
      BY <1>1
    <2>2. \A k \in 0 .. m : w[k] = Next(w, k)
      <3>1. w = [k \in 0 .. m |-> Next(w, k)]
        BY <1>14, <1>16, Zenon
      <3> HIDE DEF Next
      <3> QED  BY <3>1, Zenon
    <2> QED  BY <2>1, <2>2, Zenon
  <1> HIDE DEF Next
  <1> DEFINE T == {k \in 0 .. m : Between(es, g, w[k], Min(k))}
  <1>18. 0 \in T
    <2>1. Min(0) = 0 /\ 0 \in 0 .. m
      BY <1>1
    <2> HIDE DEF Min
    <2> QED  BY <1>7, <1>17, <2>1
  <1>19. ASSUME NEW k \in 0 .. m - 1, k \in T PROVE k + 1 \in T
    <2>1. k + 1 \in 1 .. m /\ k + 1 \in 0 .. m /\ (k + 1) - 1 = k /\ Min(k) \in 0 .. n
      BY <1>1
    <2>2. Between(es, g, w[k], Min(k))
      BY <1>19
    <2>3. w[k + 1] = Goes(cells, w[k], u)
      BY <1>17, <2>1, Zenon
    <2>4. CASE Min(k) = n
      <3>1. Min(k + 1) = n
        BY <1>1, <2>4
      <3>2. Goes(cells, w[k], u) = w[k]
        BY <1>8, <2>1, <2>2, <2>4, Zenon
      <3> HIDE DEF Min
      <3> QED  BY <2>1, <2>2, <2>3, <2>4, <3>1, <3>2
    <2>5. CASE Min(k) # n
      <3>1. Min(k + 1) = Min(k) + 1
        BY <1>1, <2>5
      <3> HIDE DEF Min
      <3>2. Between(es, g, Goes(cells, w[k], u), Min(k) + 1)
        BY <1>8, <2>1, <2>2, <2>5, Zenon
      <3> QED  BY <2>1, <2>3, <3>1, <3>2
    <2> QED  BY <2>4, <2>5
  <1>20. Between(es, g, w[m], n)
    <2>1. \A k \in 0 .. m : k \in T
      <3> HIDE DEF T
      <3> QED  BY <1>1, <1>18, <1>19, UptoSet, Zenon
    <2>2. m \in 0 .. m /\ Min(m) = n
      BY <1>1, <1>6
    <2> HIDE DEF Min
    <2> QED  BY <2>1, <2>2
  <1>21. SubSeq(es, 1, n) = es
    BY <1>1, SubSeqFull
  <1> QED  BY <1>3, <1>20, <1>21 DEF Between
=============================================================================
