---------------------------- MODULE DbFileProofs ----------------------------
(***************************************************************************)
(* What a later open finds in the database file, for every set of names,   *)
(* too long for their fields or not, of hours and every number of          *)
(* employees: the format is read back as it was written, a finished save   *)
(* leaves the file with what the fields have room for of the employees in  *)
(* memory, and a save of one add or one update that ends anywhere leaves   *)
(* the old employees, the new ones, or a file that does not open.          *)
(***************************************************************************)
EXTENDS DbFile, Recursion, SequenceTheorems

\* An employee in memory, and one as he is written.
Emp == [name : Seq(Nat \ {0}), hours : Nat]
Rec == [name : Seq(Nat), hours : Nat]

\* s is the beginning of t.
Begins(s, t) == Len(s) <= Len(t) /\ \A i \in 1 .. Len(s) : t[i] = s[i]

LEMMA Cat ==
  \A a, b \in Seq(Nat) :
    /\ a \o b \in Seq(Nat) /\ Len(a \o b) = Len(a) + Len(b)
    /\ \A i \in 1 .. Len(a) : (a \o b)[i] = a[i]
    /\ \A i \in 1 .. Len(b) : (a \o b)[Len(a) + i] = b[i]
  OBVIOUS

-----------------------------------------------------------------------------
(* Strings and their fields. *)

\* A field is the beginning of its string and the null.
LEMMA FieldIs ==
  ASSUME NEW s \in Seq(Nat \ {0})
  PROVE  /\ Field(s) \in Seq(Nat)
         /\ Len(Field(s)) <= Len(s) + 1
         /\ \A i \in 1 .. Len(Field(s)) : Field(s)[i] = Append(s, 0)[i]
<1> DEFINE t == Append(s, 0)
           m == (Len(s) + 1) % LenLimit
<1>1. t \in Seq(Nat) /\ Len(t) = Len(s) + 1 /\ Len(s) \in Nat
  OBVIOUS
<1>2. m \in Nat /\ m <= Len(s) + 1
  <2>1. \A l \in Nat, d \in Nat \ {0} : (l + 1) % d \in Nat /\ (l + 1) % d <= l + 1
    OBVIOUS
  <2> QED
    BY <1>1, <2>1, DbFileAssumption DEF DbFileAssumption
<1>3. Field(s) = SubSeq(t, 1, m)
  BY DEF Field
<1> HIDE DEF t, m
<1>4. SubSeq(t, 1, m) = [i \in 1 .. m |-> t[i]]
  BY <1>1, <1>2
<1>5. \A i \in 1 .. m : t[i] \in Nat
  BY <1>1, <1>2
<1>6. SubSeq(t, 1, m) \in [1 .. m -> Nat]
  BY <1>4, <1>5
<1>7. SubSeq(t, 1, m) \in Seq(Nat) /\ Len(SubSeq(t, 1, m)) = m
  BY <1>1, <1>2
<1> QED
  BY <1>2, <1>3, <1>4, <1>7 DEF t

\* Each employee as he is written.
LEMMA WrittenAs ==
  ASSUME NEW es \in Seq(Emp)
  PROVE  /\ AsWritten(es) \in Seq(Rec) /\ Len(AsWritten(es)) = Len(es)
         /\ \A k \in 1 .. Len(es) : AsWritten(es)[k] = Cut(es[k]) /\ Cut(es[k]) \in Rec
<1>1. ASSUME NEW k \in 1 .. Len(es) PROVE Cut(es[k]) \in Rec
  <2>1. es[k] \in Emp
    OBVIOUS
  <2> QED
    BY <2>1, FieldIs DEF Cut, Emp, Rec
<1>2. AsWritten(es) \in [1 .. Len(es) -> Rec] /\ Len(es) \in Nat
  BY <1>1 DEF AsWritten
<1>3. AsWritten(es) \in Seq(Rec)
  BY <1>2, SeqDef
<1>4. Len(AsWritten(es)) = Len(es)
  BY <1>2, <1>3, LenProperties
<1> QED
  BY <1>1, <1>3, <1>4 DEF AsWritten

LEMMA WrittenAsAppend ==
  ASSUME NEW es \in Seq(Emp), NEW e \in Emp
  PROVE  Cut(e) \in Rec /\ AsWritten(Append(es, e)) = Append(AsWritten(es), Cut(e))
<1> DEFINE new == Append(es, e)
           n == Len(es)
<1>1. /\ new \in Seq(Emp) /\ Len(new) = n + 1 /\ n \in Nat
      /\ new[n + 1] = e /\ \A k \in 1 .. n : new[k] = es[k]
  OBVIOUS
<1> HIDE DEF new
<1>2. /\ AsWritten(new) \in Seq(Rec) /\ Len(AsWritten(new)) = n + 1
      /\ \A k \in 1 .. n + 1 : AsWritten(new)[k] = Cut(new[k]) /\ Cut(new[k]) \in Rec
  BY <1>1, WrittenAs
<1>3. /\ AsWritten(es) \in Seq(Rec) /\ Len(AsWritten(es)) = n
      /\ \A k \in 1 .. n : AsWritten(es)[k] = Cut(es[k])
  BY WrittenAs
<1>4. Cut(e) \in Rec
  BY <1>1, <1>2
<1> DEFINE a == AsWritten(new)
           b == Append(AsWritten(es), Cut(e))
<1>5. b \in Seq(Rec) /\ Len(b) = n + 1 /\ b[n + 1] = Cut(e)
      /\ \A k \in 1 .. n : b[k] = AsWritten(es)[k]
  BY <1>3, <1>4
<1>6. \A k \in 1 .. n + 1 : a[k] = b[k]
  <2>1. \A k \in 1 .. n + 1 : k \in 1 .. n \/ k = n + 1
    BY <1>1
  <2> HIDE DEF a, b
  <2> QED
    BY <1>1, <1>2, <1>3, <1>5, <2>1 DEF a
<1> HIDE DEF a, b
<1>7. a = b
  BY <1>2, <1>5, <1>6, SeqEqual DEF a
<1> QED
  BY <1>4, <1>7 DEF a, b, new

Timed(es, k, x) == [es EXCEPT ![k].hours = x]

LEMMA WrittenAsUpdate ==
  ASSUME NEW es \in Seq(Emp), NEW k \in 1 .. Len(es), NEW x \in Nat
  PROVE  /\ Timed(es, k, x) \in Seq(Emp)
         /\ AsWritten(Timed(es, k, x)) = Timed(AsWritten(es), k, x)
<1> DEFINE new == [es EXCEPT ![k].hours = x]
           n == Len(es)
<1>1. n \in Nat /\ \A j \in 1 .. n : es[j] \in Emp
  OBVIOUS
<1>2. /\ new \in Seq(Emp) /\ Len(new) = n
      /\ \A j \in 1 .. n : j # k => new[j] = es[j]
      /\ new[k].name = es[k].name /\ new[k].hours = x
  <2>1. [es[k] EXCEPT !.hours = x] \in Emp
        /\ [es[k] EXCEPT !.hours = x].name = es[k].name
        /\ [es[k] EXCEPT !.hours = x].hours = x
    BY <1>1 DEF Emp
  <2>2. new = [es EXCEPT ![k] = [es[k] EXCEPT !.hours = x]]
    OBVIOUS
  <2> HIDE DEF new
  <2> QED
    BY <1>1, <2>1, <2>2
<1> HIDE DEF new
<1>3. /\ AsWritten(new) = [j \in 1 .. n |-> Cut(new[j])]
      /\ AsWritten(es) = [j \in 1 .. n |-> Cut(es[j])]
  BY <1>2 DEF AsWritten
<1>4. Cut(new[k]) = [Cut(es[k]) EXCEPT !.hours = x]
  BY <1>2 DEF Cut
<1>5. \A j \in 1 .. n : j # k => Cut(new[j]) = Cut(es[j])
  BY <1>2
<1> DEFINE c == [Cut(es[k]) EXCEPT !.hours = x]
<1>6. AsWritten(new) = [AsWritten(es) EXCEPT ![k] = c]
  <2>1. AsWritten(new) = [j \in 1 .. n |-> IF j = k THEN c ELSE Cut(es[j])]
    BY <1>3, <1>4, <1>5
  <2> HIDE DEF c
  <2>2. [AsWritten(es) EXCEPT ![k] = c] = [j \in 1 .. n |-> IF j = k THEN c ELSE Cut(es[j])]
    BY <1>3
  <2> QED
    BY <2>1, <2>2
<1>7. AsWritten(es)[k] = Cut(es[k])
  BY <1>3
<1>8. AsWritten(new) = [AsWritten(es) EXCEPT ![k].hours = x]
  BY <1>6, <1>7
<1> QED
  BY <1>2, <1>8, Zenon DEF new, Timed

\* Memory up to its first null is a string, and the field that starts the
\* memory agrees with it.
LEMMA StringIs ==
  ASSUME NEW f \in Seq(Nat), NEW u \in Seq(Nat \ {0})
  PROVE  CString(f \o u) \in Seq(Nat \ {0}) /\ SameString(f, CString(f \o u))
<1> DEFINE t == f \o u
           n == Len(t)
           First(z) == /\ z = n + 1 \/ t[z] = 0
                       /\ \A i \in 1 .. z - 1 : t[i] # 0
<1>1. t \in Seq(Nat) /\ n \in Nat /\ Len(f) \in Nat /\ Len(f) <= n
      /\ \A i \in 1 .. Len(f) : t[i] = f[i]
  BY Cat
<1> HIDE DEF t
<1>2. \E z \in 1 .. n + 1 : First(z)
  <2> DEFINE T == {k \in 0 .. n : \/ \A i \in 1 .. k : t[i] # 0
                                 \/ \E z \in 1 .. k : First(z)}
  <2>1. 0 \in T
    BY <1>1
  <2>2. ASSUME NEW k \in 0 .. n - 1, k \in T PROVE k + 1 \in T
    <3>1. k + 1 \in 0 .. n /\ k + 1 \in 1 .. k + 1 /\ (k + 1) - 1 = k
          /\ \A i \in 1 .. k + 1 : (i \in 1 .. k \/ i = k + 1)
          /\ \A j \in 1 .. k : j \in 1 .. k + 1
      BY <1>1
    <3>2. CASE \E z \in 1 .. k : First(z)
      BY <3>1, <3>2
    <3>3. CASE (\A i \in 1 .. k : t[i] # 0) /\ t[k + 1] = 0
      <4>1. First(k + 1)
        BY <3>1, <3>3
      <4> QED
        BY <3>1, <4>1
    <3>4. CASE (\A i \in 1 .. k : t[i] # 0) /\ t[k + 1] # 0
      BY <3>1, <3>4
    <3> QED
      BY <2>2, <3>2, <3>3, <3>4
  <2> HIDE DEF T
  <2>3. \A k \in 0 .. n : k \in T
    BY <1>1, <2>1, <2>2, UptoSet, Zenon
  <2>4. n \in T
    <3>1. n \in 0 .. n
      BY <1>1
    <3> QED
      BY <2>3, <3>1
  <2>5. CASE \A i \in 1 .. n : t[i] # 0
    <3>1. n + 1 \in 1 .. n + 1 /\ (n + 1) - 1 = n
      BY <1>1
    <3>2. First(n + 1)
      BY <2>5, <3>1
    <3> QED
      BY <3>1, <3>2
  <2>6. CASE \E z \in 1 .. n : First(z)
    <3>1. PICK z \in 1 .. n : First(z)
      BY <2>6
    <3>2. z \in 1 .. n + 1
      BY <1>1
    <3> QED
      BY <3>1, <3>2
  <2> QED
    BY <2>4, <2>5, <2>6 DEF T
<1> DEFINE z == CHOOSE z \in 1 .. n + 1 : First(z)
           s == CString(t)
<1>3. z \in 1 .. n + 1 /\ First(z)
  BY <1>2, Zenon
<1>4. s = SubSeq(t, 1, z - 1)
  BY Zenon DEF CString
<1> HIDE DEF z, s
<1>5. z - 1 \in 0 .. n
  BY <1>1, <1>3
<1>6. s = [i \in 1 .. z - 1 |-> t[i]]
  BY <1>1, <1>4, <1>5
<1>7. \A i \in 1 .. z - 1 : t[i] \in Nat \ {0}
  <2>1. \A i \in 1 .. z - 1 : i \in 1 .. n
    BY <1>1, <1>5
  <2> QED
    BY <1>1, <1>3, <2>1
<1>8. s \in [1 .. z - 1 -> Nat \ {0}] /\ z - 1 \in Nat
  BY <1>5, <1>6, <1>7
<1>9. s \in Seq(Nat \ {0})
  BY <1>8, SeqDef
<1>10. Len(s) = z - 1
  BY <1>8, <1>9, LenProperties
<1>11. ASSUME NEW i \in 1 .. Len(f), i <= Len(s) + 1
       PROVE  f[i] = Append(s, 0)[i]
  <2>1. i \in 1 .. z /\ t[i] = f[i] /\ i \in 1 .. n /\ z \in Nat
    BY <1>1, <1>3, <1>10, <1>11
  <2>2. CASE i = z
    <3>1. t[i] = 0
      BY <1>1, <1>3, <2>1, <2>2
    <3>2. Append(s, 0)[Len(s) + 1] = 0 /\ i = Len(s) + 1
      BY <1>9, <1>10, <2>1, <2>2
    <3> QED
      BY <2>1, <3>1, <3>2
  <2>3. CASE i # z
    <3>1. i \in 1 .. z - 1 /\ i \in 1 .. Len(s)
      BY <1>10, <2>1, <2>3
    <3>2. Append(s, 0)[i] = s[i]
      BY <1>9, <3>1
    <3> QED
      BY <1>6, <2>1, <3>1, <3>2
  <2> QED
    BY <2>2, <2>3
<1> QED
  BY <1>9, <1>11 DEF SameString, s, t

\* rs and es are the same employees, but for what does not fit a field.
Same(rs, es) ==
  /\ Len(rs) = Len(es)
  /\ \A k \in 1 .. Len(es) : rs[k].hours = es[k].hours /\ SameString(rs[k].name, es[k].name)

LEMMA WrittenIsSame ==
  ASSUME NEW es \in Seq(Emp)
  PROVE  Same(AsWritten(es), es)
<1>1. ASSUME NEW k \in 1 .. Len(es)
      PROVE  AsWritten(es)[k].hours = es[k].hours /\ SameString(AsWritten(es)[k].name, es[k].name)
  <2>1. es[k] \in Emp /\ es[k].name \in Seq(Nat \ {0})
    <3>1. es[k] \in Emp
      OBVIOUS
    <3> QED
      BY <3>1 DEF Emp
  <2>2. AsWritten(es)[k] = [name |-> Field(es[k].name), hours |-> es[k].hours]
    BY WrittenAs DEF Cut
  <2>3. SameString(Field(es[k].name), es[k].name)
    BY <2>1, FieldIs DEF SameString
  <2> QED
    BY <2>2, <2>3
<1> QED
  BY <1>1, WrittenAs DEF Same

LEMMA LoadedIsSame ==
  ASSUME NEW rs \in Seq(Rec), NEW u \in [1 .. Len(rs) -> Uninit]
  PROVE  InMemory(rs, u) \in Seq(Emp) /\ Same(rs, InMemory(rs, u))
<1> DEFINE es == InMemory(rs, u)
           n == Len(rs)
           S(k) == CString(rs[k].name \o u[k])
<1>1. n \in Nat /\ \A k \in 1 .. n : rs[k] \in Rec
  OBVIOUS
<1>2. ASSUME NEW k \in 1 .. n
      PROVE  S(k) \in Seq(Nat \ {0}) /\ SameString(rs[k].name, S(k)) /\ rs[k].hours \in Nat
  <2>1. rs[k].name \in Seq(Nat) /\ rs[k].hours \in Nat /\ u[k] \in Seq(Nat \ {0})
    BY <1>1, DbFileAssumption DEF Rec, DbFileAssumption
  <2> QED
    BY <2>1, StringIs
<1>3. es = [k \in 1 .. n |-> [name |-> S(k), hours |-> rs[k].hours]]
  BY DEF InMemory
<1> HIDE DEF es, S
<1>4. es \in [1 .. n -> Emp]
  BY <1>2, <1>3 DEF Emp
<1>5. es \in Seq(Emp)
  BY <1>1, <1>4, SeqDef
<1>6. Len(es) = n
  BY <1>1, <1>4, <1>5, LenProperties
<1>7. \A k \in 1 .. n : rs[k].hours = es[k].hours /\ SameString(rs[k].name, es[k].name)
  BY <1>2, <1>3
<1> QED
  BY <1>5, <1>6, <1>7 DEF Same, es

-----------------------------------------------------------------------------
(* What write_employees() writes. *)

LEMMA Cell ==
  ASSUME NEW e \in Rec
  PROVE  /\ fserialize_employee(e) \in Seq(Nat)
         /\ Len(fserialize_employee(e)) = Len(e.name) + 2
         /\ fserialize_employee(e)[1] = Len(e.name)
         /\ \A i \in 1 .. Len(e.name) : fserialize_employee(e)[1 + i] = e.name[i]
         /\ fserialize_employee(e)[Len(e.name) + 2] = e.hours
         /\ e = [name |-> e.name, hours |-> e.hours]
<1> DEFINE n == e.name
           l == <<Len(n)>>
           h == <<e.hours>>
<1>1. n \in Seq(Nat) /\ e.hours \in Nat /\ Len(n) \in Nat
  BY DEF Rec
<1>2. l \in Seq(Nat) /\ Len(l) = 1 /\ l[1] = Len(n) /\ h \in Seq(Nat) /\ Len(h) = 1 /\ h[1] = e.hours
  BY <1>1
<1>3. e = [name |-> e.name, hours |-> e.hours]
  BY DEF Rec
<1>4. fserialize_employee(e) = l \o n \o h
  BY DEF fserialize_employee
<1> HIDE DEF n, l, h
<1>5. /\ l \o n \in Seq(Nat) /\ Len(l \o n) = Len(n) + 1
      /\ (l \o n)[1] = l[1] /\ \A i \in 1 .. Len(n) : (l \o n)[1 + i] = n[i]
  <2>1. /\ l \o n \in Seq(Nat) /\ Len(l \o n) = Len(l) + Len(n)
        /\ \A i \in 1 .. Len(l) : (l \o n)[i] = l[i]
        /\ \A i \in 1 .. Len(n) : (l \o n)[Len(l) + i] = n[i]
    BY <1>1, <1>2, Cat, Zenon
  <2>2. 1 \in 1 .. Len(l) /\ Len(l) + Len(n) = Len(n) + 1
    BY <1>1, <1>2
  <2>3. \A i \in 1 .. Len(n) : (l \o n)[1 + i] = n[i]
    BY <1>2, <2>1, Zenon
  <2> QED
    BY <2>1, <2>2, <2>3, Zenon
<1>6. /\ l \o n \o h \in Seq(Nat) /\ Len(l \o n \o h) = Len(n) + 2
      /\ \A i \in 1 .. Len(n) + 1 : (l \o n \o h)[i] = (l \o n)[i]
      /\ (l \o n \o h)[Len(n) + 2] = h[1]
  BY <1>1, <1>2, <1>5
<1>7. \A i \in 1 .. Len(n) : (l \o n \o h)[1 + i] = n[i]
  BY <1>1, <1>5, <1>6
<1> QED
  BY <1>1, <1>2, <1>3, <1>4, <1>5, <1>6, <1>7 DEF n

\* The cells of the first k employees.
Upto(es, f) ==
  /\ f \in [0 .. Len(es) -> Seq(Nat)]
  /\ f[0] = <<>>
  /\ \A k \in 1 .. Len(es) : f[k] = f[k - 1] \o fserialize_employee(es[k])

LEMMA Written ==
  ASSUME NEW es \in Seq(Rec)
  PROVE  \E f : Upto(es, f) /\ write_employees(es) = f[Len(es)]
<1> DEFINE n == Len(es)
           ser == [k \in 1 .. n |-> fserialize_employee(es[k])]
           g == [x \in (1 .. n) \X Seq(Nat) |-> x[2] \o ser[x[1]]]
<1>1. n \in Nat /\ \A k \in 1 .. n : es[k] \in Rec
  OBVIOUS
<1>2. ser \in [1 .. n -> Seq(Nat)]
  BY <1>1, Cell
<1>3. g \in [(1 .. n) \X Seq(Nat) -> Seq(Nat)]
  <2> HIDE DEF ser
  <2> QED
    BY <1>2
<1>4. <<>> \in Seq(Nat)
  OBVIOUS
<1> HIDE DEF g
<1>5. PICK f \in [0 .. n -> Seq(Nat)] : Follows(n, <<>>, g, f)
  BY <1>1, <1>3, <1>4, Recursive, Zenon
<1>6. \A k \in 1 .. n : f[k] = f[k - 1] \o fserialize_employee(es[k])
  <2>1. ASSUME NEW k \in 1 .. n PROVE f[k] = f[k - 1] \o fserialize_employee(es[k])
    <3>1. k - 1 \in 0 .. n
      BY <1>1
    <3>2. f[k - 1] \in Seq(Nat)
      BY <3>1
    <3>3. g[<<k, f[k - 1]>>] = f[k - 1] \o ser[k]
      BY <3>2 DEF g
    <3> QED
      BY <1>5, <3>3 DEF Follows
  <2> QED
    BY <2>1
<1>7. f = [k \in 0 .. Len(es) |->
             IF k = 0 THEN <<>> ELSE f[k - 1] \o fserialize_employee(es[k])]
  <2>1. \A k \in 0 .. n : k = 0 \/ k \in 1 .. n
    BY <1>1
  <2> HIDE DEF ser
  <2>2. \A k \in 0 .. n : f[k] = IF k = 0 THEN <<>> ELSE f[k - 1] \o fserialize_employee(es[k])
    BY <1>5, <1>6, <2>1 DEF Follows
  <2> QED
    BY <2>2
<1> HIDE DEF ser
<1> DEFINE Is(u) == u = [k \in 0 .. Len(es) |->
                          IF k = 0 THEN <<>> ELSE u[k - 1] \o fserialize_employee(es[k])]
           w == CHOOSE u : Is(u)
<1>8. Is(w)
  BY <1>7
<1>9. write_employees(es) = w[Len(es)]
  BY Zenon DEF write_employees
<1> HIDE DEF w
<1>10. w[0] = <<>> /\ \A k \in 1 .. n : w[k] = w[k - 1] \o fserialize_employee(es[k])
  <2>1. \A k \in 0 .. n : w[k] = IF k = 0 THEN <<>> ELSE w[k - 1] \o fserialize_employee(es[k])
    BY <1>8, Zenon
  <2>2. 0 \in 0 .. n /\ \A k \in 1 .. n : k \in 0 .. n /\ k # 0
    BY <1>1
  <2> QED
    BY <2>1, <2>2, Zenon
<1>11. \A k \in 0 .. n : w[k] = f[k]
  <2> DEFINE T == {k \in 0 .. n : w[k] = f[k]}
  <2>1. 0 \in T
    BY <1>1, <1>5, <1>10 DEF Follows
  <2>2. ASSUME NEW k \in 0 .. n - 1, k \in T PROVE k + 1 \in T
    <3>1. k + 1 \in 1 .. n /\ k + 1 \in 0 .. n /\ (k + 1) - 1 = k
      BY <1>1
    <3>2. w[k + 1] = w[k] \o fserialize_employee(es[k + 1])
      BY <1>10, <3>1, Zenon
    <3>3. f[k + 1] = f[k] \o fserialize_employee(es[k + 1])
      BY <1>6, <3>1, Zenon
    <3> QED
      BY <2>2, <3>1, <3>2, <3>3, Zenon
  <2> HIDE DEF T
  <2>3. \A k \in 0 .. n : k \in T
    BY <1>1, <2>1, <2>2, UptoSet, Zenon
  <2> QED
    BY <2>3 DEF T
<1>12. n \in 0 .. n
  BY <1>1
<1> QED
  BY <1>5, <1>6, <1>9, <1>11, <1>12 DEF Upto, Follows

LEMMA WrittenType ==
  \A es \in Seq(Rec) : write_employees(es) \in Seq(Nat)
<1> SUFFICES ASSUME NEW es \in Seq(Rec) PROVE write_employees(es) \in Seq(Nat)
  OBVIOUS
<1>1. PICK f : Upto(es, f) /\ write_employees(es) = f[Len(es)]
  BY Written
<1>2. Len(es) \in 0 .. Len(es)
  OBVIOUS
<1> QED
  BY <1>1, <1>2 DEF Upto

LEMMA WrittenEmpty ==
  write_employees(<<>>) = <<>>
<1>1. <<>> \in Seq(Rec) /\ Len(<<>>) = 0
  OBVIOUS
<1> QED
  BY <1>1, Written DEF Upto

\* An employee who is added is written behind the others.
LEMMA WrittenAppend ==
  ASSUME NEW es \in Seq(Rec), NEW e \in Rec
  PROVE  write_employees(Append(es, e)) = write_employees(es) \o fserialize_employee(e)
<1> DEFINE new == Append(es, e)
           n == Len(es)
<1>1. /\ new \in Seq(Rec) /\ Len(new) = n + 1 /\ n \in Nat
      /\ new[n + 1] = e /\ \A k \in 1 .. n : new[k] = es[k]
  OBVIOUS
<1> HIDE DEF new
<1>2. PICK f : Upto(es, f) /\ write_employees(es) = f[n]
  BY Written
<1>3. PICK h : Upto(new, h) /\ write_employees(new) = h[Len(new)]
  BY <1>1, Written
<1> DEFINE T == {k \in 0 .. n : h[k] = f[k]}
<1>4. 0 \in T
  BY <1>1, <1>2, <1>3 DEF Upto
<1>5. ASSUME NEW k \in 0 .. n - 1, k \in T PROVE k + 1 \in T
  <2>1. /\ k + 1 \in 1 .. n /\ k + 1 \in 1 .. n + 1 /\ k + 1 \in 0 .. n
        /\ (k + 1) - 1 = k
    BY <1>1
  <2>2. f[k + 1] = f[k] \o fserialize_employee(es[k + 1])
    BY <1>2, <2>1 DEF Upto
  <2>3. h[k + 1] = h[k] \o fserialize_employee(new[k + 1])
    BY <1>1, <1>3, <2>1 DEF Upto
  <2>4. new[k + 1] = es[k + 1]
    BY <1>1, <2>1, Zenon
  <2> QED
    BY <1>5, <2>1, <2>2, <2>3, <2>4, Zenon
<1>6. \A k \in 0 .. n : k \in T
  <2> HIDE DEF T
  <2> QED
    BY <1>1, <1>4, <1>5, UptoSet, Zenon
<1>7. h[n] = f[n]
  <2>1. n \in 0 .. n
    BY <1>1
  <2> QED
    BY <1>6, <2>1
<1>8. h[n + 1] = h[n] \o fserialize_employee(new[n + 1])
  <2>1. n + 1 \in 1 .. n + 1 /\ (n + 1) - 1 = n
    BY <1>1
  <2> QED
    BY <1>1, <1>3, <2>1 DEF Upto
<1> QED
  BY <1>1, <1>2, <1>3, <1>7, <1>8, Zenon DEF new

\* t is s but perhaps for the cell at i.
Differs(s, t, i) ==
  /\ t \in Seq(Nat) /\ Len(t) = Len(s)
  /\ \A p \in 1 .. Len(s) : p # i => t[p] = s[p]

LEMMA DiffersCat ==
  ASSUME NEW a \in Seq(Nat), NEW b \in Seq(Nat), NEW c \in Seq(Nat), NEW d \in Seq(Nat),
         NEW i, Differs(a, b, i), Len(c) = Len(d),
         \A p \in 1 .. Len(c) : Len(a) + p # i => d[p] = c[p]
  PROVE  Differs(a \o c, b \o d, i)
<1>1. /\ a \o c \in Seq(Nat) /\ Len(a \o c) = Len(a) + Len(c)
      /\ \A p \in 1 .. Len(a) : (a \o c)[p] = a[p]
      /\ \A p \in 1 .. Len(c) : (a \o c)[Len(a) + p] = c[p]
  BY Cat, Zenon
<1>2. /\ b \o d \in Seq(Nat) /\ Len(b \o d) = Len(b) + Len(d)
      /\ \A p \in 1 .. Len(b) : (b \o d)[p] = b[p]
      /\ \A p \in 1 .. Len(d) : (b \o d)[Len(b) + p] = d[p]
  BY Cat, Zenon
<1>3. Len(a) \in Nat /\ Len(c) \in Nat /\ Len(b) = Len(a)
  BY DEF Differs
<1> DEFINE s == a \o c
           t == b \o d
<1> HIDE DEF s, t
<1>4. ASSUME NEW p \in 1 .. Len(a) + Len(c), p # i PROVE t[p] = s[p]
  <2>1. CASE p \in 1 .. Len(a)
    <3>1. s[p] = a[p] /\ t[p] = b[p] /\ b[p] = a[p]
      BY <1>1, <1>2, <1>3, <1>4, <2>1, Zenon DEF s, t, Differs
    <3> QED
      BY <3>1
  <2>2. CASE p - Len(a) \in 1 .. Len(c)
    <3> DEFINE q == p - Len(a)
    <3>1. p = Len(a) + q /\ q \in 1 .. Len(c)
      BY <1>3, <2>2
    <3> HIDE DEF q
    <3>2. s[Len(a) + q] = c[q] /\ t[Len(a) + q] = d[q]
      BY <1>1, <1>2, <1>3, <3>1, Zenon DEF s, t
    <3>3. d[q] = c[q]
      BY <1>4, <3>1, Zenon
    <3> QED
      BY <3>1, <3>2, <3>3, Zenon
  <2> QED
    BY <1>3, <2>1, <2>2
<1>5. Len(t) = Len(s) /\ Len(s) = Len(a) + Len(c) /\ t \in Seq(Nat)
  BY <1>1, <1>2, <1>3 DEF s, t
<1>6. Differs(s, t, i)
  BY <1>4, <1>5, Zenon DEF Differs
<1> QED
  BY <1>6 DEF s, t

\* Other hours of one employee are one other cell.
LEMMA WrittenUpdate ==
  ASSUME NEW es \in Seq(Rec), NEW k \in 1 .. Len(es), NEW x \in Nat
  PROVE  /\ [es EXCEPT ![k].hours = x] \in Seq(Rec)
         /\ \E i : Differs(write_employees(es), write_employees([es EXCEPT ![k].hours = x]), i)
<1> DEFINE new == [es EXCEPT ![k].hours = x]
           n == Len(es)
<1>1. n \in Nat /\ \A j \in 1 .. n : es[j] \in Rec
  OBVIOUS
<1>2. /\ new \in Seq(Rec) /\ Len(new) = n
      /\ \A j \in 1 .. n : j # k => new[j] = es[j]
      /\ new[k] \in Rec /\ new[k].name = es[k].name
  <2>1. [es[k] EXCEPT !.hours = x] \in Rec
        /\ [es[k] EXCEPT !.hours = x].name = es[k].name
    BY <1>1 DEF Rec
  <2>2. new = [es EXCEPT ![k] = [es[k] EXCEPT !.hours = x]]
    OBVIOUS
  <2> HIDE DEF new
  <2> QED
    BY <1>1, <2>1, <2>2
<1> HIDE DEF new
<1>3. PICK f : Upto(es, f) /\ write_employees(es) = f[n]
  BY Written
<1>4. PICK h : Upto(new, h) /\ write_employees(new) = h[n]
  BY <1>2, Written
<1>5. \A j \in 0 .. n : f[j] \in Seq(Nat) /\ h[j] \in Seq(Nat)
  BY <1>2, <1>3, <1>4 DEF Upto
<1> DEFINE i == Len(f[k])
           T == {j \in 0 .. n : Differs(f[j], h[j], i)}
<1>6. 0 \in T
  <2>1. f[0] = <<>> /\ h[0] = <<>> /\ 0 \in 0 .. n
    BY <1>1, <1>3, <1>4 DEF Upto
  <2>2. Differs(<<>>, <<>>, i)
    BY DEF Differs
  <2> QED
    BY <2>1, <2>2
<1>7. ASSUME NEW j \in 0 .. n - 1, j \in T PROVE j + 1 \in T
  <2>1. j + 1 \in 1 .. n /\ j + 1 \in 0 .. n /\ j \in 0 .. n /\ (j + 1) - 1 = j
    BY <1>1
  <2> DEFINE c == fserialize_employee(es[j + 1])
             d == fserialize_employee(new[j + 1])
  <2>2. f[j + 1] = f[j] \o c /\ h[j + 1] = h[j] \o d
    BY <1>2, <1>3, <1>4, <2>1 DEF Upto
  <2>3. es[j + 1] \in Rec /\ new[j + 1] \in Rec
    BY <1>1, <1>2, <2>1
  <2>4. c \in Seq(Nat) /\ d \in Seq(Nat) /\ Len(c) = Len(d)
        /\ \A p \in 1 .. Len(c) : Len(f[j]) + p # i => d[p] = c[p]
    <3>1. CASE j + 1 # k
      <4>1. d = c
        BY <1>2, <2>1, <3>1
      <4> QED
        BY <2>3, <4>1, Cell
    <3>2. CASE j + 1 = k
      <4> DEFINE m == Len(es[k].name)
      <4>1. /\ es[k] \in Rec /\ new[k] \in Rec /\ m \in Nat
            /\ es[k].name \in Seq(Nat) /\ new[k].name = es[k].name
        BY <1>1, <1>2 DEF Rec
      <4>2. /\ c \in Seq(Nat) /\ Len(c) = m + 2 /\ c[1] = m
            /\ \A p \in 1 .. m : c[1 + p] = es[k].name[p]
        BY <2>3, <3>2, Cell, Zenon
      <4>3. /\ d \in Seq(Nat) /\ Len(d) = m + 2 /\ d[1] = m
            /\ \A p \in 1 .. m : d[1 + p] = es[k].name[p]
        <5>1. /\ d \in Seq(Nat) /\ Len(d) = Len(new[k].name) + 2 /\ d[1] = Len(new[k].name)
              /\ \A p \in 1 .. Len(new[k].name) : d[1 + p] = new[k].name[p]
          BY <2>3, <3>2, Cell, Zenon
        <5> QED
          BY <4>1, <5>1, Zenon
      <4>4. i = Len(f[j]) + m + 2
        <5>1. Len(f[j] \o c) = Len(f[j]) + Len(c)
          BY <1>5, <2>1, <4>2, Cat, Zenon
        <5>2. Len(f[j]) \in Nat
          BY <1>5, <2>1
        <5>3. i = Len(f[j] \o c)
          BY <2>2, <3>2, Zenon
        <5> HIDE DEF i, c, m
        <5>4. \A l, q \in Nat : l + (q + 2) = l + q + 2
          OBVIOUS
        <5>5. Len(f[j]) + (m + 2) = Len(f[j]) + m + 2
          BY <4>1, <5>2, <5>4, Zenon
        <5> QED
          BY <4>2, <5>1, <5>3, <5>5, Zenon
      <4> HIDE DEF c, d, i, m
      <4>5. ASSUME NEW p \in 1 .. Len(c), Len(f[j]) + p # i PROVE d[p] = c[p]
        <5>1. Len(f[j]) \in Nat
          BY <1>5, <2>1
        <5>2. p \in Nat /\ p >= 1 /\ p <= m + 1
          <6>1. p \in 1 .. m + 2 /\ Len(f[j]) + p # Len(f[j]) + m + 2
            BY <4>2, <4>4, <4>5, Zenon
          <6>2. \A l \in Nat : \A q \in 1 .. m + 2 :
                  l + q # l + m + 2 => q \in Nat /\ q >= 1 /\ q <= m + 1
            BY <4>1
          <6> QED
            BY <5>1, <6>1, <6>2, Zenon
        <5>3. p = 1 \/ (p - 1 \in 1 .. m /\ p = 1 + (p - 1))
          BY <4>1, <5>2
        <5> QED
          BY <4>2, <4>3, <5>3
      <4> QED
        BY <4>2, <4>3, <4>5
    <3> QED
      BY <3>1, <3>2
  <2> HIDE DEF c, d, i
  <2>5. Differs(f[j] \o c, h[j] \o d, i)
    <3>1. f[j] \in Seq(Nat) /\ h[j] \in Seq(Nat) /\ Differs(f[j], h[j], i)
      BY <1>5, <1>7, <2>1
    <3> QED
      BY <2>4, <3>1, DiffersCat
  <2> QED
    BY <2>1, <2>2, <2>5
<1>8. \A j \in 0 .. n : j \in T
  <2> HIDE DEF T
  <2> QED
    BY <1>1, <1>6, <1>7, UptoSet, Zenon
<1>9. Differs(f[n], h[n], i)
  <2>1. n \in 0 .. n
    BY <1>1
  <2> QED
    BY <1>8, <2>1
<1> QED
  BY <1>2, <1>3, <1>4, <1>9 DEF new

-----------------------------------------------------------------------------
(* What read_employees() makes of the cells. *)

\* A record that is read: the cells it stands in are those it is written as.
LEMMA ReadCell ==
  ASSUME cells \in Seq(Nat), NEW p \in Nat \ {0}, fdeserialize_employee(p).ok
  PROVE  LET x == fdeserialize_employee(p)
             s == fserialize_employee(x.employee)
         IN  /\ x.employee \in Rec
             /\ x.next = p + Len(s) /\ x.next \in Nat \ {0} /\ p + Len(s) - 1 <= Len(cells)
             /\ \A q \in 1 .. Len(s) : cells[p - 1 + q] = s[q]
<1> DEFINE l == cells[p]
           e == [name |-> SubSeq(cells, p + 1, p + l), hours |-> cells[p + l + 1]]
<1>1. p <= Len(cells) /\ p + l < Len(cells)
  BY DEF fdeserialize_employee
<1>2. fdeserialize_employee(p) = [ok |-> TRUE, next |-> p + l + 2, employee |-> e]
  BY <1>1 DEF fdeserialize_employee
<1>3. l \in Nat /\ Len(cells) \in Nat
  BY <1>1
<1>4. p + l + 1 \in 1 .. Len(cells)
  BY <1>1, <1>3
<1>5. cells[p + l + 1] \in Nat
  BY <1>4
<1>6. /\ e.name \in Seq(Nat) /\ Len(e.name) = l /\ e.hours = cells[p + l + 1]
      /\ \A q \in 1 .. l : e.name[q] = cells[p + q]
  <2> DEFINE s == SubSeq(cells, p + 1, p + l)
  <2>1. s = [q \in 1 .. l |-> cells[p + q]]
    <3>1. (p + l) - (p + 1) + 1 = l
      BY <1>3
    <3>2. \A q \in 1 .. l : q + (p + 1) - 1 = p + q
      BY <1>3
    <3>3. s = [q \in 1 .. (p + l) - (p + 1) + 1 |-> cells[q + (p + 1) - 1]]
      BY <1>3
    <3> QED
      BY <3>1, <3>2, <3>3
  <2>2. \A q \in 1 .. l : cells[p + q] \in Nat
    <3>1. \A q \in 1 .. l : p + q \in 1 .. Len(cells)
      BY <1>1, <1>3
    <3> QED
      BY <3>1
  <2>3. s \in [1 .. l -> Nat]
    BY <2>1, <2>2
  <2> HIDE DEF s, l
  <2>4. s \in Seq(Nat)
    BY <1>3, <2>3, SeqDef
  <2>5. Len(s) = l
    BY <1>3, <2>3, <2>4, LenProperties
  <2>6. \A q \in 1 .. l : s[q] = cells[p + q]
    BY <2>1
  <2> QED
    BY <2>4, <2>5, <2>6 DEF s
<1>7. e \in Rec
  BY <1>5, <1>6 DEF Rec
<1> HIDE DEF e, l
<1>8. /\ fserialize_employee(e) \in Seq(Nat)
      /\ Len(fserialize_employee(e)) = l + 2 /\ fserialize_employee(e)[1] = l
      /\ \A i \in 1 .. l : fserialize_employee(e)[1 + i] = e.name[i]
      /\ fserialize_employee(e)[l + 2] = e.hours
  BY <1>6, <1>7, Cell
<1>9. ASSUME NEW q \in 1 .. l + 2 PROVE cells[p - 1 + q] = fserialize_employee(e)[q]
  <2>1. CASE q = 1
    <3>1. p - 1 + q = p
      BY <2>1
    <3> QED
      BY <1>8, <2>1, <3>1 DEF l
  <2>2. CASE q = l + 2
    <3>1. p - 1 + q = p + l + 1
      BY <1>3, <2>2
    <3> QED
      BY <1>6, <1>8, <2>2, <3>1
  <2>3. CASE q - 1 \in 1 .. l
    <3>1. p - 1 + q = p + (q - 1) /\ q = 1 + (q - 1)
      BY <1>3, <2>3
    <3>2. e.name[q - 1] = cells[p + (q - 1)]
      BY <1>6, <2>3, Zenon
    <3>3. fserialize_employee(e)[1 + (q - 1)] = e.name[q - 1]
      BY <1>8, <2>3, Zenon
    <3> QED
      BY <3>1, <3>2, <3>3, Zenon
  <2> QED
    BY <1>3, <2>1, <2>2, <2>3
<1>10. /\ p + l + 2 = p + (l + 2) /\ p + l + 2 \in Nat \ {0}
       /\ p + (l + 2) - 1 <= Len(cells)
  BY <1>1, <1>3
<1> DEFINE x == fdeserialize_employee(p)
<1>11. x.employee = e /\ x.next = p + l + 2
  BY <1>2
<1> HIDE DEF x
<1> QED
  BY <1>7, <1>8, <1>9, <1>10, <1>11, Zenon DEF x

\* A record that was written is read.
LEMMA ReadBack ==
  ASSUME cells \in Seq(Nat), NEW u \in Seq(Nat), NEW e \in Rec,
         Begins(u \o fserialize_employee(e), cells)
  PROVE  fdeserialize_employee(Len(u) + 1) =
           [ok |-> TRUE, next |-> Len(u \o fserialize_employee(e)) + 1, employee |-> e]
<1> DEFINE s == fserialize_employee(e)
           m == Len(e.name)
           p == Len(u) + 1
<1>1. /\ s \in Seq(Nat) /\ Len(s) = m + 2 /\ s[1] = m
      /\ \A i \in 1 .. m : s[1 + i] = e.name[i]
      /\ s[m + 2] = e.hours /\ e = [name |-> e.name, hours |-> e.hours]
  BY Cell
<1>2. m \in Nat /\ e.name \in Seq(Nat) /\ Len(u) \in Nat /\ Len(cells) \in Nat
  BY DEF Rec
<1> HIDE DEF s, m
<1>3. /\ Len(u \o s) = Len(u) + Len(s)
      /\ \A i \in 1 .. Len(s) : (u \o s)[Len(u) + i] = s[i]
  BY <1>1, Cat, Zenon
<1>4. Len(u \o s) <= Len(cells) /\ \A i \in 1 .. Len(u \o s) : cells[i] = (u \o s)[i]
  BY Zenon DEF Begins, s
<1>5. Len(u) + (m + 2) <= Len(cells) /\ Len(u \o s) = Len(u) + (m + 2)
  BY <1>1, <1>3, <1>4, Zenon
<1>6. ASSUME NEW i \in 1 .. m + 2 PROVE cells[Len(u) + i] = s[i]
  <2>1. Len(u) + i \in 1 .. Len(u) + (m + 2)
    BY <1>2
  <2> QED
    BY <1>1, <1>3, <1>4, <1>5, <2>1, Zenon
<1>7. cells[p] = m
  <2>1. 1 \in 1 .. m + 2
    BY <1>2
  <2> QED
    BY <1>1, <1>6, <2>1, Zenon
<1>8. cells[p + m + 1] = e.hours
  <2>1. m + 2 \in 1 .. m + 2 /\ Len(u) + (m + 2) = p + m + 1
    BY <1>2
  <2> QED
    BY <1>1, <1>6, <2>1
<1>9. SubSeq(cells, p + 1, p + m) = e.name
  <2> DEFINE r == SubSeq(cells, p + 1, p + m)
  <2>1. r = [q \in 1 .. m |-> cells[p + q]]
    <3>1. (p + m) - (p + 1) + 1 = m
      BY <1>2
    <3>2. \A q \in 1 .. m : q + (p + 1) - 1 = p + q
      BY <1>2
    <3>3. r = [q \in 1 .. (p + m) - (p + 1) + 1 |-> cells[q + (p + 1) - 1]]
      BY <1>2
    <3> QED
      BY <3>1, <3>2, <3>3
  <2>2. ASSUME NEW q \in 1 .. m PROVE cells[p + q] = e.name[q]
    <3>1. 1 + q \in 1 .. m + 2 /\ Len(u) + (1 + q) = p + q
      BY <1>2
    <3> QED
      BY <1>1, <1>6, <3>1
  <2>3. e.name = [q \in 1 .. m |-> e.name[q]]
    BY <1>2 DEF m
  <2> QED
    BY <2>1, <2>2, <2>3
<1>10. p <= Len(cells) /\ p + m < Len(cells) /\ p + m + 2 = Len(u) + (m + 2) + 1
  BY <1>2, <1>5
<1> QED
  BY <1>1, <1>5, <1>7, <1>8, <1>9, <1>10 DEF fdeserialize_employee, s

\* The states of read_employees() after the first k records.
Unread == [ok |-> FALSE, next |-> 0, es |-> <<>>]
ReadStates == [ok : {TRUE}, next : Nat \ {0}, es : Seq(Rec)] \cup {Unread}
After(before) ==
  LET r == fdeserialize_employee(before.next)
  IN  IF before.ok /\ r.ok
      THEN [ok |-> TRUE, next |-> r.next, es |-> Append(before.es, r.employee)]
      ELSE Unread
Start == [ok |-> TRUE, next |-> 1, es |-> <<>>]

LEMMA AfterType ==
  ASSUME cells \in Seq(Nat), NEW b \in ReadStates
  PROVE  After(b) \in ReadStates
<1>1. CASE b.ok /\ fdeserialize_employee(b.next).ok
  <2> DEFINE x == fdeserialize_employee(b.next)
  <2>1. b.next \in Nat \ {0} /\ b.es \in Seq(Rec)
    <3>1. Unread.ok = FALSE
      BY DEF Unread
    <3>2. b # Unread
      BY <1>1, <3>1
    <3>3. b \in [ok : {TRUE}, next : Nat \ {0}, es : Seq(Rec)]
      BY <3>2 DEF ReadStates
    <3> QED
      BY <3>3
  <2>2. x.employee \in Rec /\ x.next \in Nat \ {0}
    BY <1>1, <2>1, ReadCell
  <2>3. After(b) = [ok |-> TRUE, next |-> x.next, es |-> Append(b.es, x.employee)]
    BY <1>1 DEF After
  <2> HIDE DEF x
  <2> QED
    BY <2>1, <2>2, <2>3 DEF ReadStates
<1>2. CASE ~(b.ok /\ fdeserialize_employee(b.next).ok)
  BY <1>2 DEF After, ReadStates
<1> QED
  BY <1>1, <1>2

LEMMA ReadFunction ==
  ASSUME cells \in Seq(Nat), NEW n \in Nat
  PROVE  \E r \in [0 .. n -> ReadStates] :
           /\ read_employees(n) = r[n] /\ r[0] = Start
           /\ \A k \in 1 .. n : r[k] = After(r[k - 1])
<1> DEFINE g == [x \in (1 .. n) \X ReadStates |-> After(x[2])]
<1>1. g \in [(1 .. n) \X ReadStates -> ReadStates]
  BY AfterType
<1>2. Start \in ReadStates
  BY DEF Start, ReadStates
<1> HIDE DEF g
<1>3. PICK f \in [0 .. n -> ReadStates] : Follows(n, Start, g, f)
  BY <1>1, <1>2, Recursive, Zenon
<1>4. f[0] = Start /\ \A k \in 1 .. n : f[k] = After(f[k - 1])
  <2>1. ASSUME NEW k \in 1 .. n PROVE f[k] = After(f[k - 1])
    <3>1. k - 1 \in 0 .. n
      OBVIOUS
    <3>2. f[k - 1] \in ReadStates
      BY <3>1
    <3>3. g[<<k, f[k - 1]>>] = After(f[k - 1])
      BY <3>2 DEF g
    <3> QED
      BY <1>3, <3>3, Zenon DEF Follows
  <2> QED
    BY <1>3, <2>1 DEF Follows
<1> DEFINE Is(u) ==
             u = [k \in 0 .. n |->
                    IF k = 0 THEN [ok |-> TRUE, next |-> 1, es |-> <<>>]
                    ELSE LET before == u[k - 1]
                             r == fdeserialize_employee(before.next)
                         IN  IF before.ok /\ r.ok
                             THEN [ok |-> TRUE, next |-> r.next,
                                   es |-> Append(before.es, r.employee)]
                             ELSE [ok |-> FALSE, next |-> 0, es |-> <<>>]]
           Is2(u) == u = [k \in 0 .. n |-> IF k = 0 THEN Start ELSE After(u[k - 1])]
           w == CHOOSE u : Is(u)
<1>5. \A u : Is(u) <=> Is2(u)
  BY Zenon DEF After, Start, Unread
<1>6. Is2(f)
  <2>1. \A k \in 0 .. n : k = 0 \/ k \in 1 .. n
    OBVIOUS
  <2>2. \A k \in 0 .. n : f[k] = IF k = 0 THEN Start ELSE After(f[k - 1])
    BY <1>4, <2>1, Zenon
  <2> QED
    BY <2>2
<1>7. read_employees(n) = w[n]
  BY Zenon DEF read_employees
<1> HIDE DEF Is, Is2
<1>8. Is2(w)
  BY <1>5, <1>6, Zenon
<1> USE DEF Is2
<1> HIDE DEF w
<1>9. w[0] = Start /\ \A k \in 1 .. n : w[k] = After(w[k - 1])
  <2>1. \A k \in 0 .. n : w[k] = IF k = 0 THEN Start ELSE After(w[k - 1])
    BY <1>8, Zenon
  <2>2. 0 \in 0 .. n /\ \A k \in 1 .. n : k \in 0 .. n /\ k # 0
    OBVIOUS
  <2> QED
    BY <2>1, <2>2, Zenon
<1>10. w \in [0 .. n -> ReadStates]
  <2> DEFINE T == {k \in 0 .. n : w[k] \in ReadStates}
  <2>1. 0 \in T
    BY <1>2, <1>9
  <2>2. ASSUME NEW k \in 0 .. n - 1, k \in T PROVE k + 1 \in T
    <3>1. k + 1 \in 1 .. n /\ k + 1 \in 0 .. n /\ (k + 1) - 1 = k
      OBVIOUS
    <3>2. w[k + 1] = After(w[k])
      BY <1>9, <3>1, Zenon
    <3> QED
      BY <2>2, <3>1, <3>2, AfterType
  <2> HIDE DEF T
  <2>3. \A k \in 0 .. n : k \in T
    BY <2>1, <2>2, UptoSet, Zenon
  <2>4. \A k \in 0 .. n : w[k] \in ReadStates
    BY <2>3 DEF T
  <2>5. w = [k \in 0 .. n |-> IF k = 0 THEN Start ELSE After(w[k - 1])]
    BY <1>8
  <2> QED
    BY <2>4, <2>5
<1> QED
  BY <1>7, <1>9, <1>10, Zenon

\* What was written is read back, in order.
LEMMA ReadsBack ==
  ASSUME cells \in Seq(Nat), NEW es \in Seq(Rec), Begins(write_employees(es), cells)
  PROVE  read_employees(Len(es)).ok /\ read_employees(Len(es)).es = es
<1> DEFINE n == Len(es)
           first == [k \in 0 .. n |-> SubSeq(es, 1, k)]
<1>1. n \in Nat
  OBVIOUS
<1>2. PICK f : Upto(es, f) /\ write_employees(es) = f[n]
  BY Written
<1>3. PICK r \in [0 .. n -> ReadStates] :
        /\ read_employees(n) = r[n] /\ r[0] = Start
        /\ \A k \in 1 .. n : r[k] = After(r[k - 1])
  BY <1>1, ReadFunction
<1>4. \A k \in 0 .. n : f[k] \in Seq(Nat)
  BY <1>2 DEF Upto
<1>5. ASSUME NEW k \in 0 .. n - 1
      PROVE  /\ k + 1 \in 1 .. n /\ k + 1 \in 0 .. n /\ k \in 0 .. n /\ (k + 1) - 1 = k
             /\ es[k + 1] \in Rec /\ f[k + 1] = f[k] \o fserialize_employee(es[k + 1])
  <2>1. k + 1 \in 1 .. n /\ k + 1 \in 0 .. n /\ k \in 0 .. n /\ (k + 1) - 1 = k
    BY <1>1
  <2>2. es[k + 1] \in Rec
    BY <2>1
  <2>3. f[k + 1] = f[(k + 1) - 1] \o fserialize_employee(es[k + 1])
    BY <1>2, <2>1, Zenon DEF Upto
  <2> QED
    BY <2>1, <2>2, <2>3
\* The cells begin with what the first k employees are written as.
<1>6. \A k \in 0 .. n : Begins(f[n - k], cells)
  <2> DEFINE T == {k \in 0 .. n : Begins(f[n - k], cells)}
  <2>1. 0 \in T
    BY <1>1, <1>2
  <2>2. ASSUME NEW k \in 0 .. n - 1, k \in T PROVE k + 1 \in T
    <3>1. n - (k + 1) \in 0 .. n - 1 /\ (n - (k + 1)) + 1 = n - k /\ k + 1 \in 0 .. n
      BY <1>1
    <3> DEFINE a == f[n - (k + 1)]
               b == fserialize_employee(es[n - k])
    <3>2. a \in Seq(Nat) /\ b \in Seq(Nat) /\ f[n - k] = a \o b
      BY <1>4, <1>5, <3>1, Cell
    <3> HIDE DEF a, b
    <3>3. /\ Len(a \o b) = Len(a) + Len(b) /\ Len(a) \in Nat /\ Len(b) \in Nat
          /\ \A i \in 1 .. Len(a) : (a \o b)[i] = a[i]
      BY <3>2, Cat
    <3>4. Len(a \o b) <= Len(cells) /\ \A i \in 1 .. Len(a \o b) : cells[i] = (a \o b)[i]
      BY <2>2, <3>2, Zenon DEF Begins
    <3>5. Begins(a, cells)
      <4>1. Len(a) <= Len(cells) /\ \A i \in 1 .. Len(a) : i \in 1 .. Len(a \o b)
        BY <3>3, <3>4
      <4> QED
        BY <3>3, <3>4, <4>1, Zenon DEF Begins
    <3> QED
      BY <3>1, <3>5 DEF a
  <2> HIDE DEF T
  <2>3. \A k \in 0 .. n : k \in T
    BY <1>1, <2>1, <2>2, UptoSet, Zenon
  <2> QED
    BY <2>3 DEF T
<1>7. ASSUME NEW k \in 0 .. n PROVE Begins(f[k], cells)
  <2>1. n - k \in 0 .. n /\ n - (n - k) = k
    BY <1>1
  <2> QED
    BY <1>6, <2>1
<1>8. /\ first[0] = <<>> /\ first[n] = es
      /\ \A k \in 0 .. n - 1 : first[k + 1] = Append(first[k], es[k + 1])
  <2>1. SubSeq(es, 1, 0) = <<>> /\ SubSeq(es, 1, n) = es
    BY <1>1, SubSeqEmpty, SubSeqFull
  <2>2. ASSUME NEW k \in 0 .. n - 1
        PROVE  SubSeq(es, 1, k + 1) = Append(SubSeq(es, 1, k), es[k + 1])
    BY <1>1
  <2>3. 0 \in 0 .. n /\ n \in 0 .. n
    BY <1>1
  <2> QED
    BY <1>5, <2>1, <2>2, <2>3
<1> HIDE DEF first
<1> DEFINE T == {k \in 0 .. n : r[k] = [ok |-> TRUE, next |-> Len(f[k]) + 1, es |-> first[k]]}
<1>9. 0 \in T
  <2>1. f[0] = <<>> /\ Len(<<>>) + 1 = 1 /\ 0 \in 0 .. n
    BY <1>1, <1>2 DEF Upto
  <2> QED
    BY <1>3, <1>8, <2>1 DEF Start
<1>10. ASSUME NEW k \in 0 .. n - 1, k \in T PROVE k + 1 \in T
  <2> DEFINE e == es[k + 1]
             x == fdeserialize_employee(Len(f[k]) + 1)
  <2>1. f[k] \in Seq(Nat) /\ e \in Rec /\ Begins(f[k] \o fserialize_employee(e), cells)
        /\ f[k + 1] = f[k] \o fserialize_employee(e)
    BY <1>4, <1>5, <1>7
  <2>2. x = [ok |-> TRUE, next |-> Len(f[k + 1]) + 1, employee |-> e]
    BY <2>1, ReadBack
  <2>3. r[k + 1] = After(r[k])
    BY <1>3, <1>5
  <2>4. r[k] = [ok |-> TRUE, next |-> Len(f[k]) + 1, es |-> first[k]]
    BY <1>10
  <2> HIDE DEF e
  <2>5. After(r[k]) = [ok |-> TRUE, next |-> Len(f[k + 1]) + 1, es |-> Append(first[k], e)]
    <3> DEFINE b == r[k]
               y == [ok |-> TRUE, next |-> Len(f[k + 1]) + 1, employee |-> e]
    <3>1. b.ok = TRUE /\ b.es = first[k] /\ fdeserialize_employee(b.next) = y
      BY <2>2, <2>4
    <3>2. y.ok = TRUE /\ y.next = Len(f[k + 1]) + 1 /\ y.employee = e
      OBVIOUS
    <3> HIDE DEF b, y
    <3>3. After(b) = [ok |-> TRUE, next |-> y.next, es |-> Append(b.es, y.employee)]
      BY <3>1, <3>2 DEF After
    <3> QED
      BY <3>1, <3>2, <3>3 DEF b
  <2>6. first[k + 1] = Append(first[k], e)
    BY <1>8, Zenon DEF e
  <2> QED
    BY <1>5, <2>3, <2>5, <2>6
<1>11. \A k \in 0 .. n : k \in T
  <2> HIDE DEF T
  <2> QED
    BY <1>1, <1>9, <1>10, UptoSet, Zenon
<1>12. r[n] = [ok |-> TRUE, next |-> Len(f[n]) + 1, es |-> es]
  <2>1. n \in 0 .. n
    BY <1>1
  <2> QED
    BY <1>8, <1>11, <2>1
<1> QED
  BY <1>3, <1>12

\* What is read is what the cells were written as.
LEMMA ReadsWritten ==
  ASSUME cells \in Seq(Nat), NEW n \in Nat, read_employees(n).ok
  PROVE  /\ read_employees(n).es \in Seq(Rec)
         /\ Len(read_employees(n).es) = n
         /\ Begins(write_employees(read_employees(n).es), cells)
<1>1. PICK r \in [0 .. n -> ReadStates] :
        /\ read_employees(n) = r[n] /\ r[0] = Start
        /\ \A k \in 1 .. n : r[k] = After(r[k - 1])
  BY ReadFunction
<1> DEFINE Good(k) ==
             r[k].ok => /\ r[k].next = Len(write_employees(r[k].es)) + 1
                        /\ r[k].es \in Seq(Rec) /\ Len(r[k].es) = k
                        /\ Begins(write_employees(r[k].es), cells)
           T == {k \in 0 .. n : Good(k)}
<1>2. 0 \in T
  <2>1. r[0].next = 1 /\ r[0].es = <<>> /\ <<>> \in Seq(Rec) /\ Len(<<>>) = 0
        /\ Len(<<>>) + 1 = 1
    BY <1>1 DEF Start
  <2>2. Begins(<<>>, cells)
    BY DEF Begins
  <2>3. /\ r[0].next = Len(<<>>) + 1 /\ r[0].es \in Seq(Rec) /\ Len(r[0].es) = 0
        /\ write_employees(r[0].es) = <<>>
    BY <2>1, WrittenEmpty
  <2>4. 0 \in 0 .. n
    OBVIOUS
  <2> QED
    BY <2>2, <2>3, <2>4, Zenon
<1>3. ASSUME NEW k \in 0 .. n - 1, k \in T PROVE k + 1 \in T
  <2>1. k + 1 \in 1 .. n /\ k + 1 \in 0 .. n /\ k \in 0 .. n /\ (k + 1) - 1 = k /\ k \in Nat
    OBVIOUS
  <2>2. r[k + 1] = After(r[k]) /\ r[k] \in ReadStates
    BY <1>1, <2>1
  <2>3. CASE ~(r[k].ok /\ fdeserialize_employee(r[k].next).ok)
    <3>1. r[k + 1] = Unread
      BY <2>2, <2>3 DEF After
    <3> QED
      BY <2>1, <3>1 DEF Unread
  <2>4. CASE r[k].ok /\ fdeserialize_employee(r[k].next).ok
    <3> DEFINE p == r[k].next
               old == r[k].es
               x == fdeserialize_employee(p)
               e == x.employee
               u == write_employees(old)
               s == fserialize_employee(e)
    <3>1. p \in Nat \ {0} /\ old \in Seq(Rec) /\ Len(old) = k /\ p = Len(u) + 1
          /\ Begins(u, cells)
      BY <1>3, <2>2, <2>4 DEF ReadStates, Unread
    <3>2. u \in Seq(Nat)
      BY <3>1, WrittenType
    <3>3. /\ e \in Rec /\ x.next = p + Len(s) /\ p + Len(s) - 1 <= Len(cells)
          /\ \A q \in 1 .. Len(s) : cells[p - 1 + q] = s[q]
      BY <2>4, <3>1, ReadCell
    <3>4. s \in Seq(Nat)
      BY <3>3, Cell
    <3>5. /\ r[k + 1].next = x.next /\ r[k + 1].es = Append(old, e)
      BY <2>2, <2>4 DEF After
    <3>6. write_employees(Append(old, e)) = u \o s
      BY <3>1, <3>3, WrittenAppend
    <3> HIDE DEF p, old, x, e, u, s
    <3>7. /\ Len(u \o s) = Len(u) + Len(s)
          /\ \A i \in 1 .. Len(u) : (u \o s)[i] = u[i]
          /\ \A i \in 1 .. Len(s) : (u \o s)[Len(u) + i] = s[i]
      BY <3>2, <3>4, Cat, Zenon
    <3>8. Len(u) \in Nat /\ Len(s) \in Nat /\ Len(cells) \in Nat
      BY <3>2, <3>4
    <3>9. Begins(u \o s, cells)
      <4>1. Len(u \o s) <= Len(cells)
        BY <3>1, <3>3, <3>7, <3>8
      <4>2. ASSUME NEW i \in 1 .. Len(u) + Len(s) PROVE cells[i] = (u \o s)[i]
        <5>1. CASE i \in 1 .. Len(u)
          BY <3>1, <3>7, <5>1, Zenon DEF Begins
        <5>2. CASE i - Len(u) \in 1 .. Len(s)
          <6> DEFINE q == i - Len(u)
          <6>1. q \in 1 .. Len(s) /\ i = Len(u) + q /\ i = p - 1 + q
            BY <3>1, <3>8, <5>2
          <6> HIDE DEF q
          <6>2. cells[p - 1 + q] = s[q] /\ (u \o s)[Len(u) + q] = s[q]
            BY <3>3, <3>7, <6>1, Zenon
          <6> QED
            BY <6>1, <6>2, Zenon
        <5> QED
          BY <3>8, <5>1, <5>2
      <4> QED
        BY <3>7, <4>1, <4>2, Zenon DEF Begins
    <3>10. Append(old, e) \in Seq(Rec) /\ Len(Append(old, e)) = k + 1
      <4>1. \A es \in Seq(Rec) : \A y \in Rec :
              Append(es, y) \in Seq(Rec) /\ Len(Append(es, y)) = Len(es) + 1
        OBVIOUS
      <4> QED
        BY <3>1, <3>3, <4>1, Zenon
    <3>11. x.next = Len(u \o s) + 1
      BY <3>1, <3>3, <3>7, <3>8
    <3> QED
      BY <2>1, <3>5, <3>6, <3>9, <3>10, <3>11, Zenon
  <2> QED
    BY <2>3, <2>4
<1>4. \A k \in 0 .. n : k \in T
  <2> HIDE DEF T
  <2> QED
    BY <1>2, <1>3, UptoSet, Zenon
<1>5. Good(n)
  <2>1. n \in 0 .. n
    OBVIOUS
  <2> QED
    BY <1>4, <2>1
<1> QED
  BY <1>1, <1>5

-----------------------------------------------------------------------------
(* The invariant. *)

\* The header's count of employees can be read from the cells, and is es.
Stored(es) ==
  /\ hdr # <<>> /\ hdr[2] = Len(es)
  /\ Begins(write_employees(es), cells)

\* The file is es and nothing else, and says so.
Exact(es) ==
  /\ Stored(es)
  /\ SizesMatch /\ Len(cells) = Len(write_employees(es))

Holds(es) == (hdr = <<>> /\ es = <<>>) \/ Exact(es)

\* The header says less than there is: nobody opens this file any more.
Torn == hdr # <<>> /\ hdr[1] < HeaderSize + Len(cells)

\* Rewriting old as new in place changes one cell, or adds to the end.
Step(old, new) ==
  \/ Begins(write_employees(old), write_employees(new))
  \/ /\ Len(old) = Len(new)
     /\ \E i : Differs(write_employees(old), write_employees(new), i)

Fresh ==
  /\ promised # {}
  /\ ~exists => pc = "down"
  /\ ~exists \/ pc = "created" => hdr = <<>> /\ promised = {<<>>}
  /\ hdr = <<>> => cells = <<>> /\ <<>> \in promised

Stages ==
  /\ "add" \in pending => stage >= 1
  /\ "update" \in pending => stage >= 2
  /\ "delete" \in pending => stage >= 3

\* A process that has saved what it has in memory finds it in the file.
Idle ==
  pc = "ready" /\ pending = {} =>
    \/ hdr = <<>> /\ employees = <<>>
    \/ \E rs \in Seq(Rec) : Stored(rs) /\ Same(rs, employees)

\* The cells written so far and those to be written are the employees'.
Writing ==
  pc = "cells" =>
    LET w == write_employees(AsWritten(employees))
    IN  /\ AsWritten(employees) \in promised
        /\ pos - 1 + Len(todo) = Len(w)
        /\ \A i \in 1 .. Len(todo) : todo[i] = w[pos - 1 + i]
        /\ \A i \in 1 .. pos - 1 : cells[i] = w[i]

\* If only one thing may be found it is what is there, although an earlier
\* version may have left more behind it.
Single ==
  \A es \in promised :
    promised = {es} /\ hdr # <<>> =>
      /\ Stored(es)
      /\ hdr[1] = HeaderSize + Len(write_employees(es)) \/ SizesMatch

\* As long as every save was plain.
PlainFile ==
  plain => hdr = <<>> \/ Torn \/ \E es \in promised : Exact(es)

PlainReady ==
  plain /\ pc = "ready" /\ pending \in {{}, {"add"}, {"update"}} =>
    \E old \in promised :
      /\ Holds(old) /\ Step(old, AsWritten(employees))
      /\ pending = {} => AsWritten(employees) = old

\* In the middle of a save the rest of the file is still the old one.
Halfway(old) ==
  LET a == write_employees(old)
  IN  /\ Step(old, AsWritten(employees))
      /\ \/ hdr = <<>> \/ Torn
         \/ hdr[1] = HeaderSize + Len(a) /\ hdr[2] = Len(old)
      /\ Len(a) <= Len(cells)
      /\ Len(cells) = Len(a) \/ Len(cells) = pos - 1
      /\ \A i \in pos .. Len(a) : cells[i] = a[i]

PlainCells ==
  plain /\ pc = "cells" => \E old \in promised : Halfway(old)

IInv ==
  /\ TypeOK /\ Fresh /\ Stages
  /\ Idle /\ Writing /\ Single
  /\ PlainFile /\ PlainReady /\ PlainCells

LEMMA Typed ==
  ASSUME TypeOK
  PROVE  /\ cells \in Seq(Nat) /\ Len(cells) \in Nat /\ todo \in Seq(Nat)
         /\ pos \in Nat /\ pos >= 1 /\ pos <= Len(cells) + 1
         /\ employees \in Seq(Emp) /\ AsWritten(employees) \in Seq(Rec)
         /\ write_employees(AsWritten(employees)) \in Seq(Nat)
         /\ \A es \in promised : es \in Seq(Rec) /\ write_employees(es) \in Seq(Nat)
         /\ hdr = <<>> \/ hdr \in Nat \X Nat
         /\ hdr # <<>> => hdr[1] \in Nat /\ hdr[2] \in Nat
<1>1. cells \in Seq(Nat) /\ todo \in Seq(Nat) /\ (hdr = <<>> \/ hdr \in Nat \X Nat)
  BY DEF TypeOK
<1>2. Len(cells) \in Nat
  BY <1>1
<1>3. employees \in Seq(Emp) /\ \A es \in promised : es \in Seq(Rec)
  BY DEF TypeOK, Rec, Emp
<1>3a. AsWritten(employees) \in Seq(Rec)
  BY <1>3, WrittenAs
<1>4. pos \in Nat /\ pos >= 1 /\ pos <= Len(cells) + 1
  BY <1>2 DEF TypeOK
<1>5. hdr # <<>> => hdr[1] \in Nat /\ hdr[2] \in Nat
  BY <1>1
<1> QED
  BY <1>1, <1>2, <1>3, <1>3a, <1>4, <1>5, WrittenType, Zenon

\* What is stored is read.
StoredIsRead ==
  cells \in Seq(Nat) =>
    \A es \in Seq(Rec) : Stored(es) => Saved = es /\ (SizesMatch => Opens)

LEMMA Reads == StoredIsRead
<1> SUFFICES ASSUME cells \in Seq(Nat), NEW es \in Seq(Rec), Stored(es)
             PROVE  Saved = es /\ (SizesMatch => Opens)
  BY DEF StoredIsRead
<1>1. hdr # <<>> /\ hdr[2] = Len(es) /\ Begins(write_employees(es), cells)
  BY DEF Stored
<1>2. read_employees(Len(es)).ok /\ read_employees(Len(es)).es = es
  BY <1>1, ReadsBack
<1> QED
  BY <1>1, <1>2, Zenon DEF Saved, Opens

LEMMA ReadsNext == StoredIsRead'
  BY Reads, PTL

\* What is read from a file that opens is stored in it.
LEMMA Loads ==
  ASSUME TypeOK, Opens
  PROVE  Saved \in Seq(Rec) /\ Stored(Saved)
<1>1. cells \in Seq(Nat) /\ hdr # <<>> /\ hdr[2] \in Nat
  BY Typed DEF Opens
<1>2. read_employees(hdr[2]).ok /\ Saved = read_employees(hdr[2]).es
  BY <1>1 DEF Opens, Saved
<1>3. /\ Saved \in Seq(Rec) /\ Len(Saved) = hdr[2]
      /\ Begins(write_employees(Saved), cells)
  BY <1>1, <1>2, ReadsWritten
<1> QED
  BY <1>1, <1>3 DEF Stored

LEMMA BeginsItself ==
  \A s : Len(s) \in Nat => Begins(s, s)
  BY DEF Begins

LEMMA InitOK ==
  Init => IInv
<1> SUFFICES ASSUME Init PROVE IInv
  OBVIOUS
<1>1. TypeOK
  <2>1. /\ <<>> \in Seq(Nat) /\ <<>> \in Seq([name : Seq(Nat), hours : Nat])
        /\ <<>> \in Seq([name : Seq(Nat \ {0}), hours : Nat])
        /\ Len(<<>>) = 0 /\ 1 \in 1 .. 0 + 1
    OBVIOUS
  <2>2. who \in {"server", "cli"}
    BY DbFileAssumption DEF Init, DbFileAssumption
  <2>3. /\ {cells, todo} \subseteq Seq(Nat)
        /\ employees \in Seq([name : Seq(Nat \ {0}), hours : Nat])
        /\ \A es \in promised : es \in Seq([name : Seq(Nat), hours : Nat])
    BY <2>1, Zenon DEF Init
  <2>4. pos \in 1 .. Len(cells) + 1
    BY <2>1, Zenon DEF Init
  <2>5. exists \in BOOLEAN /\ plain \in BOOLEAN
    BY DEF Init
  <2>6. stage \in 0 .. 3
    BY DEF Init
  <2>7. /\ {exists, plain} \subseteq BOOLEAN /\ hdr = <<>>
        /\ pending \subseteq {"add", "update", "delete"}
    BY <2>5 DEF Init
  <2>8. pc \in {"down", "created", "opening", "ready", "cells"}
    BY DEF Init
  <2> QED
    BY <2>2, <2>3, <2>4, <2>6, <2>7, <2>8, Zenon DEF TypeOK
<1>2. Fresh /\ Stages /\ Idle /\ Writing /\ Single
  BY DEF Init, Fresh, Stages, Idle, Writing, Single
<1>3. PlainFile /\ PlainReady /\ PlainCells
  BY DEF Init, PlainFile, PlainReady, PlainCells
<1> QED
  BY <1>1, <1>2, <1>3 DEF IInv

\* Steps that leave the file and what is promised of it alone.
LEMMA Untouched ==
  ASSUME IInv, TypeOK', Fresh', Stages', UNCHANGED <<hdr, cells, promised, plain>>,
         pc' # "cells", pc' = "ready" => Idle' /\ PlainReady'
  PROVE  IInv'
<1>1. Single'
  BY DEF IInv, Single, Stored, SizesMatch, Begins
<1>2. PlainFile'
  BY DEF IInv, PlainFile, Torn, Exact, Stored, SizesMatch, Begins
<1>3. Writing' /\ PlainCells'
  BY DEF Writing, PlainCells
<1>4. pc' # "ready" => Idle' /\ PlainReady'
  BY DEF Idle, PlainReady
<1> QED
  BY <1>1, <1>2, <1>3, <1>4 DEF IInv

LEMMA DownStep ==
  ASSUME IInv, Down, pc # "down", UNCHANGED <<file, who, promised, plain>>
  PROVE  IInv'
<1>1. /\ pc' = "down" /\ pending' = {} /\ employees' = <<>> /\ stage' = 0
      /\ todo' = <<>> /\ pos' = 1
      /\ UNCHANGED <<exists, hdr, cells, who, promised, plain>>
  BY DEF Down, file
<1>2. TypeOK'
  <2>1. <<>> \in Seq(Nat) /\ <<>> \in Seq([name : Seq(Nat \ {0}), hours : Nat])
    OBVIOUS
  <2>2. 1 \in 1 .. Len(cells) + 1
    <3>1. Len(cells) \in Nat
      BY Typed DEF IInv
    <3> QED
      BY <3>1
  <2> QED
    BY <1>1, <2>1, <2>2 DEF IInv, TypeOK
<1>3. Fresh' /\ Stages'
  BY <1>1 DEF IInv, Fresh, Stages
<1> QED
  BY <1>1, <1>2, <1>3, Untouched

LEMMA CreateStep ==
  ASSUME IInv, Create
  PROVE  IInv'
<1>1. /\ pc' = "created" /\ exists' = TRUE /\ ~exists /\ who' \in Users
      /\ UNCHANGED <<hdr, cells, employees, stage, pending, todo, pos, promised, plain>>
  BY DEF Create
<1>2. TypeOK'
  BY <1>1, DbFileAssumption DEF IInv, TypeOK, DbFileAssumption
<1>3. Fresh' /\ Stages'
  BY <1>1 DEF IInv, Fresh, Stages
<1> QED
  BY <1>1, <1>2, <1>3, Untouched

LEMMA OpenExistingStep ==
  ASSUME IInv, OpenExisting
  PROVE  IInv'
<1>1. /\ pc' = "opening" /\ exists /\ who' \in Users
      /\ UNCHANGED <<exists, hdr, cells, employees, stage, pending, todo, pos, promised, plain>>
  BY DEF OpenExisting, file
<1>2. TypeOK'
  BY <1>1, DbFileAssumption DEF IInv, TypeOK, DbFileAssumption
<1>3. Fresh' /\ Stages'
  BY <1>1 DEF IInv, Fresh, Stages
<1> QED
  BY <1>1, <1>2, <1>3, Untouched

\* The empty header is that of a file of no employees.
LEMMA write_new_file_hdrStep ==
  ASSUME IInv, write_new_file_hdr
  PROVE  IInv'
<1>1. /\ pc = "created" /\ hdr' = <<HeaderSize, 0>> /\ pc' = "opening"
      /\ UNCHANGED <<exists, cells, who, employees, stage, pending, todo, pos, promised, plain>>
  BY DEF write_new_file_hdr, memory
<1>2. exists /\ cells = <<>> /\ promised = {<<>>}
  BY <1>1 DEF IInv, Fresh
<1>3. TypeOK'
  BY <1>1 DEF IInv, TypeOK, HeaderSize
<1>4. Exact(<<>>)'
  <2>1. write_employees(<<>>) = <<>> /\ Len(<<>>) = 0 /\ Begins(<<>>, <<>>)
    BY WrittenEmpty DEF Begins
  <2>2. hdr' # <<>> /\ hdr'[1] = HeaderSize /\ hdr'[2] = 0 /\ HeaderSize + 0 = HeaderSize
    BY <1>1 DEF HeaderSize
  <2>3. cells' = <<>>
    BY <1>1, <1>2
  <2>4. SizesMatch'
    BY <2>1, <2>2, <2>3 DEF SizesMatch, HeaderSize
  <2>5. Len(cells') = Len(write_employees(<<>>)) /\ Begins(write_employees(<<>>), cells')
        /\ hdr'[2] = Len(<<>>)
    BY <2>1, <2>2, <2>3, Zenon
  <2> QED
    BY <2>2, <2>4, <2>5 DEF Exact, Stored
<1>5. Fresh' /\ Stages'
  BY <1>1, <1>2 DEF IInv, Fresh, Stages, HeaderSize
<1>6. Single'
  BY <1>1, <1>2, <1>4 DEF Single, Exact
<1>7. PlainFile'
  BY <1>1, <1>2, <1>4 DEF PlainFile
<1>8. Idle' /\ Writing' /\ PlainReady' /\ PlainCells'
  BY <1>1 DEF Idle, Writing, PlainReady, PlainCells
<1> QED
  BY <1>3, <1>5, <1>6, <1>7, <1>8 DEF IInv

LEMMA LoadStep ==
  ASSUME IInv, Load
  PROVE  IInv'
<1>0. TypeOK
  BY DEF IInv
<1>1. /\ pc = "opening" /\ (Opens \/ hdr = <<>>)
      /\ \E u \in [1 .. Len(Saved) -> Uninit] : employees' = InMemory(Saved, u)
      /\ promised' = {Saved} /\ pc' = "ready"
      /\ plain' = (plain /\ AsWritten(employees') = Saved)
      /\ stage' = 0 /\ pending' = {}
      /\ UNCHANGED <<exists, hdr, cells, who, todo, pos>>
  BY DEF Load, file
<1>2. /\ Saved \in Seq(Rec)
      /\ (hdr = <<>> /\ Saved = <<>> /\ cells = <<>>) \/ (hdr # <<>> /\ Opens /\ Stored(Saved))
  <2>1. CASE hdr = <<>>
    <3>1. Saved = <<>> /\ <<>> \in Seq(Rec) /\ cells = <<>>
      BY <2>1 DEF IInv, Fresh, Saved
    <3> QED
      BY <2>1, <3>1
  <2>2. CASE hdr # <<>>
    BY <1>0, <1>1, <2>2, Loads
  <2> QED
    BY <2>1, <2>2
<1>4. PICK es \in Seq(Rec) : es = Saved
  BY <1>2
<1>4a. employees' \in Seq(Emp) /\ Same(es, employees')
  BY <1>1, <1>4, LoadedIsSame
<1>3. TypeOK'
  <2>1. employees' \in Seq([name : Seq(Nat \ {0}), hours : Nat])
    BY <1>4a DEF Emp
  <2>2. \A x \in promised' : x \in Seq([name : Seq(Nat), hours : Nat])
    BY <1>1, <1>2 DEF Rec
  <2>3. plain' \in BOOLEAN
    BY <1>1
  <2> QED
    BY <1>0, <1>1, <2>1, <2>2, <2>3 DEF TypeOK
<1>5. Fresh' /\ Stages'
  BY <1>1, <1>2 DEF IInv, Fresh, Stages
<1>6. /\ es \in Seq(Rec) /\ promised' = {es}
      /\ plain' => plain /\ AsWritten(employees') = es
      /\ \/ hdr' = <<>> /\ es = <<>>
         \/ hdr' # <<>> /\ SizesMatch' /\ hdr'[2] = Len(es)
            /\ Begins(write_employees(es), cells')
  BY <1>1, <1>2, <1>4 DEF Opens, Stored, SizesMatch
<1>7. Idle'
  <2>1. CASE hdr' = <<>> /\ es = <<>>
    <3>1. Len(employees') = 0
      BY <1>4a, <2>1 DEF Same
    <3>2. employees' = <<>>
      BY <1>4a, <3>1
    <3> QED
      BY <2>1, <3>2 DEF Idle
  <2>2. CASE ~(hdr' = <<>> /\ es = <<>>)
    <3>1. Stored(es)'
      BY <1>6, <2>2 DEF Stored
    <3> QED
      BY <1>4a, <3>1 DEF Idle, Same
  <2> QED
    BY <2>1, <2>2
<1>8. Single'
  BY <1>6 DEF Single, Stored
<1>9. plain => Holds(es)'
  <2>1. CASE hdr = <<>>
    BY <1>1, <1>6, <2>1 DEF Holds
  <2>2. CASE hdr # <<>>
    <3>1. SizesMatch /\ Stored(es)
      BY <1>2, <1>4, <2>2 DEF Opens
    <3>2. ~Torn
      BY <1>0, <3>1, Typed DEF Torn, SizesMatch, HeaderSize
    <3>3. ASSUME plain PROVE \E x \in promised : Exact(x)
      BY <2>2, <3>2, <3>3 DEF IInv, PlainFile
    <3>4. ASSUME NEW x \in promised, Exact(x) PROVE x = es
      <4>1. x \in Seq(Rec) /\ cells \in Seq(Nat)
        BY <1>0, Typed
      <4> QED
        BY <1>4, <3>4, <4>1, Reads DEF StoredIsRead, Exact
    <3>5. plain => Exact(es)
      BY <3>3, <3>4
    <3>6. Exact(es) => Exact(es)'
      BY <1>1, <1>6 DEF Exact, Stored, SizesMatch
    <3> QED
      BY <3>5, <3>6 DEF Holds
  <2> QED
    BY <2>1, <2>2
<1>10. PlainFile'
  BY <1>1, <1>6, <1>9 DEF PlainFile, Holds
<1>11. PlainReady'
  <2>1. Begins(write_employees(es), write_employees(es))
    <3>1. write_employees(es) \in Seq(Nat)
      BY <1>6, WrittenType
    <3>2. Len(write_employees(es)) \in Nat
      BY <3>1
    <3> QED
      BY <3>2, BeginsItself, Zenon
  <2>2. plain' => Step(es, AsWritten(employees))'
    BY <1>6, <2>1 DEF Step
  <2> QED
    BY <1>1, <1>6, <1>9, <2>2 DEF PlainReady
<1>12. Writing' /\ PlainCells'
  BY <1>1 DEF Writing, PlainCells
<1> QED
  BY <1>3, <1>5, <1>7, <1>8, <1>10, <1>11, <1>12 DEF IInv

\* Changes in memory, each further on in the order of options.
LEMMA ChangeStep ==
  ASSUME IInv, NEW op \in Ops, NEW k \in {1, 2, 3}, Option(op, k),
         <<op, k>> \in {<<"add", 1>>, <<"update", 2>>, <<"delete", 3>>},
         NEW es \in Seq(Emp), Change(es, op, k),
         op \in {"add", "update"} =>
           \A old \in Seq(Rec) : AsWritten(employees) = old => Step(old, AsWritten(es))
  PROVE  IInv'
<1>0. TypeOK
  BY DEF IInv
<1>1. /\ pc = "ready" /\ stage < k
      /\ employees' = es /\ stage' = k /\ pending' = pending \cup {op}
      /\ UNCHANGED <<exists, hdr, cells, pc, who, todo, pos, promised, plain>>
  BY DEF Change, Option, file
<1>2. op \in {"add", "update", "delete"}
  BY DbFileAssumption DEF DbFileAssumption
<1>3. TypeOK'
  BY <1>0, <1>1, <1>2 DEF TypeOK, Emp
<1>4. stage \in 0 .. 3
  BY <1>0 DEF TypeOK
<1>5. Fresh'
  BY <1>1 DEF IInv, Fresh
<1>6. Stages'
  BY <1>1, <1>2, <1>4 DEF IInv, Stages
<1>7. Idle'
  BY <1>1 DEF Idle
<1>8. PlainReady'
  <2>1. SUFFICES ASSUME plain', pending' \in {{}, {"add"}, {"update"}}
                 PROVE  \E old \in promised' :
                          /\ Holds(old)' /\ Step(old, AsWritten(employees))'
                          /\ pending' = {} => AsWritten(employees)' = old
    BY DEF PlainReady
  <2>2. op \in {"add", "update"} /\ pending' = {op}
    BY <1>1, <1>2, <2>1
  <2>3. pending = {}
    <3>1. pending \subseteq {op}
      BY <1>1, <2>2
    <3>2. op \notin pending
      BY <1>1, <1>4, <2>2 DEF IInv, Stages
    <3> QED
      BY <3>1, <3>2
  <2>4. PICK old \in promised : Holds(old) /\ AsWritten(employees) = old
    BY <1>1, <2>1, <2>3 DEF IInv, PlainReady
  <2>5. old \in Seq(Rec)
    BY <1>0, <2>4, Typed
  <2>6. Step(old, AsWritten(es))
    BY <2>2, <2>4, <2>5
  <2>7. Holds(old)' /\ Step(old, AsWritten(employees))'
    BY <1>1, <2>4, <2>6 DEF Holds, Exact, Stored, SizesMatch, Step
  <2> QED
    BY <1>1, <2>2, <2>4, <2>7
<1> QED
  BY <1>1, <1>3, <1>5, <1>6, <1>7, <1>8, Untouched

LEMMA AddStep ==
  ASSUME IInv, NEW e \in Employees, Add(e)
  PROVE  IInv'
<1>1. e \in Emp
  BY DbFileAssumption DEF Employees, Emp, DbFileAssumption
<1>2. employees \in Seq(Emp)
  BY Typed DEF IInv
<1>3. Append(employees, e) \in Seq(Emp)
  BY <1>1, <1>2
<1>4. ASSUME NEW old \in Seq(Rec), AsWritten(employees) = old
      PROVE  Step(old, AsWritten(Append(employees, e)))
  <2> DEFINE a == write_employees(old)
             s == fserialize_employee(Cut(e))
  <2>0. Cut(e) \in Rec /\ AsWritten(Append(employees, e)) = Append(old, Cut(e))
    <3>1. \A es \in Seq(Emp) : Cut(e) \in Rec /\ AsWritten(Append(es, e)) = Append(AsWritten(es), Cut(e))
      BY <1>1, WrittenAsAppend
    <3> QED
      BY <1>2, <1>4, <3>1, Zenon
  <2>1. a \in Seq(Nat) /\ s \in Seq(Nat)
    BY <2>0, WrittenType, Cell
  <2>2. write_employees(AsWritten(Append(employees, e))) = a \o s
    BY <2>0, WrittenAppend
  <2> HIDE DEF a, s
  <2>3. /\ Len(a \o s) = Len(a) + Len(s) /\ Len(a) \in Nat /\ Len(s) \in Nat
        /\ \A i \in 1 .. Len(a) : (a \o s)[i] = a[i]
    BY <2>1, Cat
  <2>4. \A l, m \in Nat : l <= l + m
    OBVIOUS
  <2>5. Begins(a, a \o s)
    BY <2>3, <2>4, Zenon DEF Begins
  <2> QED
    BY <2>2, <2>5 DEF Step, a
<1>5. /\ Option("add", 1) /\ Change(Append(employees, e), "add", 1) /\ "add" \in Ops
  BY DEF Add, Option
<1>6. PICK es \in Seq(Emp) : es = Append(employees, e)
  BY <1>3
<1> QED
  BY <1>4, <1>5, <1>6, ChangeStep

LEMMA UpdateStep ==
  ASSUME IInv, NEW n \in Names, NEW h \in Hours, Update(n, h)
  PROVE  IInv'
<1>1. h \in Nat
  BY DbFileAssumption DEF DbFileAssumption
<1>2. employees \in Seq(Emp)
  BY Typed DEF IInv
<1>3. PICK k \in 1 .. Len(employees) :
        Change([employees EXCEPT ![k].hours = h], "update", 2)
  BY DEF Update
<1>5. /\ Timed(employees, k, h) \in Seq(Emp)
      /\ AsWritten(Timed(employees, k, h)) = Timed(AsWritten(employees), k, h)
      /\ k \in 1 .. Len(AsWritten(employees))
  <2>1. ASSUME NEW es \in Seq(Emp), NEW i \in 1 .. Len(es)
        PROVE  /\ Timed(es, i, h) \in Seq(Emp)
               /\ AsWritten(Timed(es, i, h)) = Timed(AsWritten(es), i, h)
    BY <1>1, WrittenAsUpdate
  <2>2. ASSUME NEW es \in Seq(Emp)
        PROVE  Len(AsWritten(es)) = Len(es)
    BY WrittenAs
  <2> QED
    BY <1>2, <2>1, <2>2, Zenon
<1>4. ASSUME NEW old \in Seq(Rec), AsWritten(employees) = old
      PROVE  Step(old, AsWritten(Timed(employees, k, h)))
  <2>1. k \in 1 .. Len(old)
    BY <1>4, <1>5
  <2>2. /\ [old EXCEPT ![k].hours = h] \in Seq(Rec)
        /\ \E i : Differs(write_employees(old),
                          write_employees([old EXCEPT ![k].hours = h]), i)
    BY <1>1, <2>1, WrittenUpdate
  <2>3. Len([old EXCEPT ![k].hours = h]) = Len(old)
    BY <1>1
  <2>4. AsWritten(Timed(employees, k, h)) = [old EXCEPT ![k].hours = h]
    BY <1>4, <1>5, Zenon DEF Timed
  <2> QED
    BY <1>4, <2>2, <2>3, <2>4, Zenon DEF Step
<1>6. Option("update", 2) /\ "update" \in Ops
  BY DEF Update, Option
<1>7. PICK es \in Seq(Emp) : es = Timed(employees, k, h)
  BY <1>5
<1>8. Change(es, "update", 2)
  BY <1>3, <1>7, Zenon DEF Timed
<1> QED
  BY <1>4, <1>6, <1>7, <1>8, ChangeStep

LEMMA DeleteStep ==
  ASSUME IInv, NEW n \in Names, Delete(n)
  PROVE  IInv'
<1>1. employees \in Seq(Emp)
  BY Typed DEF IInv
<1>2. PICK k \in 1 .. Len(employees) :
        Change(SubSeq([employees EXCEPT ![k] = employees[Len(employees)]],
                      1, Len(employees) - 1), "delete", 3)
  BY DEF Delete
<1> DEFINE moved == [employees EXCEPT ![k] = employees[Len(employees)]]
<1>3. moved \in Seq(Emp) /\ Len(moved) = Len(employees) /\ Len(employees) \in Nat \ {0}
  <2>1. Len(employees) \in Nat \ {0} /\ Len(employees) \in 1 .. Len(employees)
    BY <1>1
  <2>2. employees[Len(employees)] \in Emp
    BY <1>1, <2>1
  <2> QED
    BY <1>1, <2>1, <2>2
<1> HIDE DEF moved
<1>4. SubSeq(moved, 1, Len(employees) - 1) \in Seq(Emp)
  BY <1>3
<1>5. Option("delete", 3) /\ "delete" \in Ops
  BY DEF Delete, Option
<1>6. PICK es \in Seq(Emp) : es = SubSeq(moved, 1, Len(employees) - 1)
  BY <1>4
<1>7. Change(es, "delete", 3)
  BY <1>2, <1>6 DEF moved
<1> QED
  BY <1>5, <1>7, ChangeStep

LEMMA NotFoundStep ==
  ASSUME IInv, NEW n \in Names, NotFound(n)
  PROVE  IInv'
<1>1. /\ pc = "ready" /\ (who = "server" => pending = {})
      /\ UNCHANGED <<file, who, promised, plain>>
  BY DEF NotFound, Option
<1>2. CASE Down
  BY <1>1, <1>2, DownStep
<1>3. CASE /\ who = "server" /\ stage' = 0
           /\ UNCHANGED <<pc, employees, pending, todo, pos>>
  <2>1. UNCHANGED <<exists, hdr, cells, pc, who, employees, pending, todo, pos, promised, plain>>
    BY <1>1, <1>3 DEF file
  <2>2. TypeOK'
    BY <1>3, <2>1 DEF IInv, TypeOK
  <2>3. Fresh' /\ Stages'
    BY <1>1, <1>3, <2>1 DEF IInv, Fresh, Stages
  <2>4. Idle' /\ PlainReady'
    BY <2>1 DEF IInv, Idle, PlainReady, Stored, Holds, Exact, Step, SizesMatch, Begins
  <2> QED
    BY <1>1, <2>1, <2>2, <2>3, <2>4, Untouched
<1> QED
  BY <1>2, <1>3 DEF NotFound

LEMMA NextRequestStep ==
  ASSUME IInv, NextRequest
  PROVE  IInv'
<1>1. /\ pc = "ready" /\ pending = {} /\ stage' = 0
      /\ UNCHANGED <<exists, hdr, cells, pc, who, employees, pending, todo, pos, promised, plain>>
  BY DEF NextRequest, file
<1>2. TypeOK'
  BY <1>1 DEF IInv, TypeOK
<1>3. Fresh' /\ Stages'
  BY <1>1 DEF IInv, Fresh, Stages
<1>4. Idle' /\ PlainReady'
  BY <1>1 DEF IInv, Idle, PlainReady, Stored, Holds, Exact, Step, SizesMatch, Begins
<1> QED
  BY <1>1, <1>2, <1>3, <1>4, Untouched

-----------------------------------------------------------------------------
(* The save. *)

\* The old employees are what the file still says, the cells to write those
\* of the new ones.
LEMMA write_dbStep ==
  ASSUME IInv, write_db
  PROVE  IInv'
<1>0. TypeOK
  BY DEF IInv
<1>1. /\ pc = "ready" /\ pc' = "cells"
      /\ todo' = write_employees(AsWritten(employees)) /\ pos' = 1
      /\ promised' = promised \cup {AsWritten(employees)}
      /\ plain' = (plain /\ pending \in {{}, {"add"}, {"update"}})
      /\ UNCHANGED <<exists, hdr, cells, who, employees, stage, pending>>
  BY DEF write_db, AfterHeader, file, memory
<1>2. /\ cells \in Seq(Nat) /\ Len(cells) \in Nat /\ AsWritten(employees) \in Seq(Rec)
      /\ write_employees(AsWritten(employees)) \in Seq(Nat)
      /\ \A es \in promised : es \in Seq(Rec) /\ write_employees(es) \in Seq(Nat)
  BY <1>0, Typed
<1>3. TypeOK'
  <2>1. plain' \in BOOLEAN
    BY <1>1
  <2>2. 1 \in 1 .. Len(cells) + 1
    BY <1>2
  <2>3. \A es \in promised' : es \in Seq([name : Seq(Nat), hours : Nat])
    BY <1>1, <1>2 DEF Rec
  <2> QED
    BY <1>0, <1>1, <1>2, <2>1, <2>2, <2>3 DEF TypeOK
<1>4. Fresh' /\ Stages'
  BY <1>1 DEF IInv, Fresh, Stages
<1>5. Writing'
  <2> DEFINE w == write_employees(AsWritten(employees))
  <2>1. Len(w) \in Nat
    BY <1>2
  <2> HIDE DEF w
  <2>2. 1 - 1 + Len(w) = Len(w) /\ \A i \in 1 .. Len(w) : 1 - 1 + i = i
    BY <2>1
  <2>3. \A i \in 1 .. 1 - 1 : cells[i] = w[i]
    OBVIOUS
  <2>4. \A i \in 1 .. Len(w) : w[i] = w[1 - 1 + i]
    BY <2>2, Zenon
  <2>5. pos' = 1 /\ todo' = w /\ AsWritten(employees)' = AsWritten(employees) /\ cells' = cells
        /\ AsWritten(employees) \in promised'
    BY <1>1 DEF w, AsWritten
  <2> QED
    BY <2>2, <2>3, <2>4, <2>5, Zenon DEF Writing, w
<1>6. Single'
  <2>1. SUFFICES ASSUME NEW es \in promised', promised' = {es}, hdr' # <<>>
                 PROVE  /\ Stored(es)'
                        /\ hdr'[1] = HeaderSize + Len(write_employees(es)) \/ SizesMatch'
    BY DEF Single
  <2>2. promised = {es} /\ es \in promised
    BY <1>1, <2>1 DEF IInv, Fresh
  <2>3. /\ Stored(es)
        /\ hdr[1] = HeaderSize + Len(write_employees(es)) \/ SizesMatch
    BY <1>1, <2>1, <2>2 DEF IInv, Single
  <2> QED
    BY <1>1, <2>3 DEF Stored, SizesMatch, Begins
<1>7. PlainFile'
  BY <1>1 DEF IInv, PlainFile, Torn, Exact, Stored, SizesMatch, Begins
<1>8. PlainCells'
  <2>1. SUFFICES ASSUME plain' PROVE \E old \in promised' : Halfway(old)'
    BY DEF PlainCells
  <2>2. PICK old \in promised : Holds(old) /\ Step(old, AsWritten(employees))
    BY <1>1, <2>1 DEF IInv, PlainReady
  <2> DEFINE a == write_employees(old)
  <2>3. a \in Seq(Nat) /\ Len(a) \in Nat
    BY <1>2
  <2>4. /\ Len(a) <= Len(cells) /\ Len(cells) = Len(a)
        /\ \A i \in 1 .. Len(a) : cells[i] = a[i]
        /\ hdr = <<>> \/ (hdr[1] = HeaderSize + Len(a) /\ hdr[2] = Len(old))
    <3>1. CASE hdr = <<>> /\ old = <<>>
      <4>1. cells = <<>> /\ a = <<>>
        BY <3>1, WrittenEmpty DEF IInv, Fresh
      <4> QED
        BY <3>1, <4>1
    <3>2. CASE Exact(old)
      BY <1>2, <2>3, <3>2 DEF Exact, Stored, SizesMatch, Begins
    <3> QED
      BY <2>2, <3>1, <3>2 DEF Holds
  <2> HIDE DEF a
  <2>5. old \in promised' /\ pos' = 1 /\ UNCHANGED <<hdr, cells, AsWritten(employees)>>
    BY <1>1 DEF AsWritten
  <2>6. Halfway(old)'
    BY <2>2, <2>4, <2>5, Zenon DEF Halfway, a
  <2> QED
    BY <2>5, <2>6
<1>9. Idle' /\ PlainReady'
  BY <1>1 DEF Idle, PlainReady
<1> QED
  BY <1>3, <1>4, <1>5, <1>6, <1>7, <1>8, <1>9 DEF IInv

\* The last write: the header says what the cells are.
LEMMA WriteHeaderStep ==
  ASSUME IInv, WriteHeader
  PROVE  IInv'
<1>0. TypeOK
  BY DEF IInv
<1>1. /\ pc = "cells" /\ todo = <<>>
      /\ hdr' = <<FileSize(pos - 1), Len(employees)>> /\ promised' = {AsWritten(employees)}
      /\ UNCHANGED <<exists, cells, who, plain>>
      /\ \/ Down
         \/ pc' = "ready" /\ pending' = {} /\ UNCHANGED <<employees, stage, todo, pos>>
  BY DEF WriteHeader
<1>2. /\ cells \in Seq(Nat) /\ Len(cells) \in Nat
      /\ pos \in Nat /\ pos >= 1 /\ pos <= Len(cells) + 1
      /\ \A es \in promised : es \in Seq(Rec) /\ write_employees(es) \in Seq(Nat)
  BY <1>0, Typed
<1>3. PICK es \in Seq(Rec) : es = AsWritten(employees)
  BY <1>0, Typed
<1>3a. employees \in Seq(Emp) /\ Len(employees) = Len(es) /\ Same(es, employees)
  <2>1. employees \in Seq(Emp)
    BY <1>0, Typed
  <2>2. \A x \in Seq(Emp) : Len(AsWritten(x)) = Len(x) /\ Same(AsWritten(x), x)
    BY WrittenAs, WrittenIsSame
  <2> QED
    BY <1>3, <2>1, <2>2, Zenon
<1> DEFINE w == write_employees(es)
<1>4. /\ w \in Seq(Nat) /\ Len(w) \in Nat /\ Len(es) \in Nat
      /\ pos - 1 = Len(w) /\ \A i \in 1 .. pos - 1 : cells[i] = w[i]
  <2>1. w \in Seq(Nat) /\ Len(w) \in Nat /\ Len(es) \in Nat
    BY <1>3, WrittenType
  <2>2. /\ pos - 1 + Len(todo) = Len(w)
        /\ \A i \in 1 .. pos - 1 : cells[i] = w[i]
    BY <1>1, <1>3, Zenon DEF IInv, Writing
  <2>3. Len(todo) = 0
    BY <1>1
  <2> HIDE DEF w
  <2> QED
    BY <1>2, <2>1, <2>2, <2>3
<1> HIDE DEF w
<1>5. /\ hdr' # <<>> /\ hdr'[1] = HeaderSize + Len(w) /\ hdr'[2] = Len(es)
      /\ promised' = {es} /\ cells' = cells
  BY <1>1, <1>3, <1>3a, <1>4 DEF FileSize
<1>6. Begins(w, cells)
  <2>1. Len(w) <= Len(cells) /\ 1 .. Len(w) = 1 .. pos - 1
    BY <1>2, <1>4
  <2> QED
    BY <1>4, <2>1, Zenon DEF Begins
<1>7. Stored(es)'
  BY <1>5, <1>6, Zenon DEF Stored, w
<1>8. Single'
  BY <1>5, <1>7 DEF Single, w
<1>9. plain => Len(cells) = Len(w)
  <2>1. SUFFICES ASSUME plain PROVE Len(cells) = Len(w)
    OBVIOUS
  <2>2. PICK old \in promised : Halfway(old)
    BY <1>1, <2>1 DEF IInv, PlainCells
  <2> DEFINE a == write_employees(old)
  <2>3. Len(a) \in Nat
    BY <1>2
  <2>4. /\ Len(a) <= Len(cells)
        /\ Len(cells) = Len(a) \/ Len(cells) = pos - 1
        /\ Step(old, es)
    BY <1>3, <2>2 DEF Halfway
  <2>5. Len(a) <= Len(w)
    BY <2>4, <2>3, <1>4 DEF Step, Begins, Differs, w
  <2> HIDE DEF a
  <2> QED
    BY <1>2, <1>4, <2>3, <2>4, <2>5
<1>10. plain => Exact(es)'
  BY <1>2, <1>4, <1>5, <1>7, <1>9 DEF Exact, SizesMatch, w
<1>11. PlainFile'
  BY <1>1, <1>5, <1>10 DEF PlainFile
<1>12. Writing' /\ PlainCells'
  BY <1>1 DEF Writing, PlainCells, Down
<1>13. TypeOK'
  <2>1. hdr' \in Nat \X Nat
    BY <1>1, <1>3a, <1>4 DEF FileSize, HeaderSize
  <2>2. <<>> \in Seq(Nat) /\ <<>> \in Seq([name : Seq(Nat \ {0}), hours : Nat])
        /\ 1 \in 1 .. Len(cells) + 1 /\ 0 \in 0 .. 3
    BY <1>2
  <2>3. \A x \in promised' : x \in Seq([name : Seq(Nat), hours : Nat])
    BY <1>3, <1>5 DEF Rec
  <2>4. CASE Down
    BY <1>0, <1>1, <2>1, <2>2, <2>3, <2>4 DEF TypeOK, Down
  <2>5. CASE pc' = "ready" /\ pending' = {} /\ UNCHANGED <<employees, stage, todo, pos>>
    BY <1>0, <1>1, <2>1, <2>3, <2>5 DEF TypeOK
  <2> QED
    BY <1>1, <2>4, <2>5
<1>14. Fresh' /\ Stages'
  <2>1. exists' = exists /\ exists /\ pc' # "created" /\ pending' = {}
    BY <1>1 DEF IInv, Fresh, Down
  <2> QED
    BY <1>5, <2>1 DEF Fresh, Stages
<1>15. Idle' /\ PlainReady'
  <2>1. CASE Down
    BY <2>1 DEF Idle, PlainReady, Down
  <2>2. CASE pc' = "ready" /\ pending' = {} /\ UNCHANGED <<employees, stage, todo, pos>>
    <3>1. Begins(w, w)
      BY <1>4, BeginsItself, Zenon
    <3>2. AsWritten(employees)' = es /\ Step(es, es)
      BY <1>3, <2>2, <3>1 DEF Step, w, AsWritten
    <3>3. Idle'
      BY <1>3a, <1>7, <2>2 DEF Idle, Same
    <3>4. PlainReady'
      BY <1>1, <1>5, <1>10, <3>2 DEF PlainReady, Holds, Step
    <3> QED
      BY <3>3, <3>4
  <2> QED
    BY <1>1, <2>1, <2>2
<1> QED
  BY <1>8, <1>11, <1>12, <1>13, <1>14, <1>15 DEF IInv

\* However far a plain save has come, the file is torn or whole.
HalfwayIsWhole ==
  TypeOK /\ Writing /\ PlainCells /\ plain /\ pc = "cells" =>
    hdr = <<>> \/ Torn \/ \E es \in promised : Exact(es)

LEMMA Halves == HalfwayIsWhole
<1> SUFFICES ASSUME TypeOK, Writing, PlainCells, plain, pc = "cells", hdr # <<>>, ~Torn
             PROVE  \E es \in promised : Exact(es)
  BY DEF HalfwayIsWhole
<1>1. PICK old \in promised : Halfway(old)
  BY DEF PlainCells
<1>2. PICK es \in promised : es = AsWritten(employees)
  BY Zenon DEF Writing
<1> DEFINE a == write_employees(old)
           w == write_employees(es)
<1>3. /\ a \in Seq(Nat) /\ Len(a) \in Nat /\ w \in Seq(Nat) /\ Len(w) \in Nat
      /\ cells \in Seq(Nat) /\ Len(cells) \in Nat /\ pos \in Nat
      /\ todo \in Seq(Nat) /\ Len(todo) \in Nat
  BY Typed
<1>4. /\ Begins(a, w) \/ (Len(old) = Len(es) /\ \E d : Differs(a, w, d))
      /\ hdr[1] = HeaderSize + Len(a) /\ hdr[2] = Len(old)
      /\ Len(a) <= Len(cells)
      /\ \A i \in pos .. Len(a) : cells[i] = a[i]
  BY <1>1, <1>2 DEF Halfway, Step
<1>5. /\ pos - 1 + Len(todo) = Len(w)
      /\ \A i \in 1 .. pos - 1 : cells[i] = w[i]
  BY <1>2, Zenon DEF Writing
<1> HIDE DEF a, w
<1>6. Len(cells) = Len(a) /\ SizesMatch
  BY <1>3, <1>4 DEF Torn, SizesMatch, HeaderSize
<1>7. \A i \in 1 .. Len(a) : i \in pos .. Len(a) \/ i \in 1 .. pos - 1
  BY <1>3
<1>8. ASSUME \A i \in 1 .. Len(a) : i \in 1 .. pos - 1 => w[i] = a[i]
      PROVE  Exact(old)
  <2>1. \A i \in 1 .. Len(a) : cells[i] = a[i]
    BY <1>4, <1>5, <1>7, <1>8, Zenon
  <2>2. Begins(a, cells)
    BY <1>4, <2>1 DEF Begins
  <2> QED
    BY <1>4, <1>6, <2>2 DEF Exact, Stored, a
<1>9. CASE Begins(a, w)
  <2>1. Exact(old)
    BY <1>8, <1>9 DEF Begins
  <2> QED
    BY <2>1
<1>10. ASSUME Len(old) = Len(es), NEW d, Differs(a, w, d)
       PROVE  \E x \in promised : Exact(x)
  <2>1. CASE d \in 1 .. pos - 1
    <3>1. \A i \in pos .. Len(a) : (i # d /\ i \in 1 .. Len(a)) \/ i \in 1 .. pos - 1
      BY <1>3, <2>1
    <3>2. \A i \in 1 .. Len(a) : cells[i] = w[i]
      BY <1>4, <1>5, <1>7, <1>10, <3>1, Zenon DEF Differs
    <3>3. Begins(w, cells)
      BY <1>4, <1>10, <3>2 DEF Begins, Differs
    <3>4. Exact(es)
      BY <1>4, <1>6, <1>10, <3>3 DEF Exact, Stored, Differs, w
    <3> QED
      BY <3>4
  <2>2. CASE d \notin 1 .. pos - 1
    <3>1. \A i \in 1 .. Len(a) : i \in 1 .. pos - 1 => w[i] = a[i]
      BY <1>10, <2>2 DEF Differs
    <3> QED
      BY <1>8, <3>1
  <2> QED
    BY <2>1, <2>2
<1> QED
  BY <1>4, <1>9, <1>10

LEMMA HalvesNext == HalfwayIsWhole'
  BY Halves, PTL

\* One cell: over an old one, or behind the last.
LEMMA WriteCellStep ==
  ASSUME IInv, WriteCell
  PROVE  IInv'
<1>0. TypeOK
  BY DEF IInv
<1>1. /\ pc = "cells" /\ pc' = "cells" /\ todo # <<>>
      /\ cells' = Put(pos, Head(todo))
      /\ hdr' = IF hdr = <<>> THEN <<0, 0>> ELSE hdr
      /\ todo' = Tail(todo) /\ pos' = pos + 1
      /\ UNCHANGED <<exists, who, employees, stage, pending, promised, plain>>
  BY DEF WriteCell, memory
<1>2. /\ cells \in Seq(Nat) /\ Len(cells) \in Nat
      /\ pos \in Nat /\ pos >= 1 /\ pos <= Len(cells) + 1
      /\ todo \in Seq(Nat)
      /\ \A es \in promised : es \in Seq(Rec) /\ write_employees(es) \in Seq(Nat)
  BY <1>0, Typed
<1>3. PICK es \in Seq(Rec) : es = AsWritten(employees)
  BY <1>0, Typed
<1>3a. AsWritten(employees)' = AsWritten(employees)
  BY <1>1 DEF AsWritten
<1> DEFINE w == write_employees(es)
<1>4. /\ w \in Seq(Nat) /\ Len(w) \in Nat
      /\ es \in promised /\ pos - 1 + Len(todo) = Len(w)
      /\ \A i \in 1 .. Len(todo) : todo[i] = w[pos - 1 + i]
      /\ \A i \in 1 .. pos - 1 : cells[i] = w[i]
  <2>1. w \in Seq(Nat) /\ Len(w) \in Nat
    BY <1>3, WrittenType
  <2> QED
    BY <1>1, <1>3, <2>1, Zenon DEF IInv, Writing
<1> HIDE DEF w
<1>5. /\ Head(todo) \in Nat /\ Head(todo) = todo[1] /\ Len(todo) \in Nat \ {0}
      /\ Tail(todo) \in Seq(Nat) /\ Len(Tail(todo)) = Len(todo) - 1
      /\ \A i \in 1 .. Len(todo) - 1 : Tail(todo)[i] = todo[i + 1]
  BY <1>1, <1>2
<1>6. Head(todo) = w[pos] /\ pos <= Len(w)
  <2>1. 1 \in 1 .. Len(todo) /\ pos - 1 + 1 = pos /\ pos <= Len(w)
    BY <1>2, <1>4, <1>5
  <2> QED
    BY <1>4, <1>5, <2>1, Zenon
<1>7. /\ cells' \in Seq(Nat) /\ cells'[pos] = w[pos]
      /\ \A i \in 1 .. Len(cells) : i # pos => cells'[i] = cells[i]
      /\ \/ pos <= Len(cells) /\ Len(cells') = Len(cells)
         \/ pos = Len(cells) + 1 /\ Len(cells') = Len(cells) + 1
  <2>1. CASE pos <= Len(cells)
    <3>1. cells' = [cells EXCEPT ![pos] = Head(todo)] /\ pos \in 1 .. Len(cells)
      BY <1>1, <1>2, <2>1 DEF Put
    <3> QED
      BY <1>2, <1>5, <1>6, <2>1, <3>1
  <2>2. CASE ~(pos <= Len(cells))
    <3>1. cells' = Append(cells, Head(todo)) /\ pos = Len(cells) + 1
      BY <1>1, <1>2, <2>2 DEF Put
    <3> QED
      BY <1>2, <1>5, <1>6, <3>1
  <2> QED
    BY <2>1, <2>2
<1>8. \A i \in 1 .. pos : cells'[i] = w[i]
  <2>1. \A i \in 1 .. pos : i = pos \/ (i \in 1 .. pos - 1 /\ i \in 1 .. Len(cells) /\ i # pos)
    BY <1>2
  <2> QED
    BY <1>4, <1>7, <2>1, Zenon
<1>9. hdr' # <<>> /\ (hdr = <<>> => Torn') /\ (hdr # <<>> => hdr' = hdr)
  <2>1. CASE hdr = <<>>
    <3>1. hdr' = <<0, 0>> /\ hdr' # <<>> /\ hdr'[1] = 0
      BY <1>1, <2>1
    <3>2. Len(cells') \in Nat
      BY <1>7
    <3> QED
      BY <2>1, <3>1, <3>2 DEF Torn, HeaderSize
  <2>2. CASE hdr # <<>>
    BY <1>1, <2>2
  <2> QED
    BY <2>1, <2>2
<1>10. TypeOK'
  <2>1. hdr' = <<>> \/ hdr' \in Nat \X Nat
    BY <1>0, <1>1 DEF TypeOK
  <2>2. pos' \in 1 .. Len(cells') + 1
    <3>1. Len(cells') \in Nat /\ (Len(cells') = Len(cells) \/ Len(cells') = Len(cells) + 1)
      BY <1>7
    <3>2. pos <= Len(cells')
      BY <1>2, <1>7, <3>1
    <3>3. \A l, p \in Nat : p >= 1 /\ p <= l => p + 1 \in 1 .. l + 1
      OBVIOUS
    <3> QED
      BY <1>1, <1>2, <3>1, <3>2, <3>3, Zenon
  <2>3. {cells', todo'} \subseteq Seq(Nat)
    BY <1>1, <1>5, <1>7
  <2> QED
    BY <1>0, <1>1, <2>1, <2>2, <2>3 DEF TypeOK
<1>11. Fresh' /\ Stages'
  BY <1>1, <1>9 DEF IInv, Fresh, Stages
<1>12. Writing'
  <2>1. /\ pos' = pos + 1 /\ AsWritten(employees)' = es /\ promised' = promised
        /\ todo' = Tail(todo) /\ Len(todo') = Len(todo) - 1
    BY <1>1, <1>3, <1>3a, <1>5
  <2>2. (pos + 1) - 1 + (Len(todo) - 1) = Len(w) /\ (pos + 1) - 1 = pos
    BY <1>2, <1>4, <1>5
  <2>3. ASSUME NEW i \in 1 .. Len(todo) - 1 PROVE todo'[i] = w[pos + i]
    <3>1. i + 1 \in 1 .. Len(todo) /\ pos - 1 + (i + 1) = pos + i
      BY <1>2, <1>5
    <3>2. todo[i + 1] = w[pos - 1 + (i + 1)]
      BY <1>4, <3>1, Zenon
    <3> QED
      BY <1>5, <2>1, <3>1, <3>2, Zenon
  <2> QED
    BY <1>4, <1>8, <2>1, <2>2, <2>3, Zenon DEF Writing, w
<1>13. Single'
  <2>1. SUFFICES ASSUME NEW x \in promised, promised = {x}
                 PROVE  /\ Stored(x)'
                        /\ hdr'[1] = HeaderSize + Len(write_employees(x)) \/ SizesMatch'
    BY <1>1 DEF Single
  <2>2. x = es
    BY <1>4, <2>1
  <2>3. hdr # <<>>
    <3>1. SUFFICES ASSUME hdr = <<>> PROVE FALSE
      OBVIOUS
    <3>2. es = <<>>
      BY <2>1, <2>2, <3>1 DEF IInv, Fresh
    <3>3. w = <<>> /\ Len(<<>>) = 0
      BY <3>2, WrittenEmpty DEF w
    <3> QED
      BY <1>2, <1>6, <3>3
  <2>4. /\ Stored(es)
        /\ hdr[1] = HeaderSize + Len(w) \/ SizesMatch
    BY <2>1, <2>2, <2>3 DEF IInv, Single, w
  <2>5. Begins(w, cells)
    BY <2>4 DEF Stored, w
  <2>6. pos <= Len(cells) /\ cells[pos] = w[pos]
    <3>1. pos \in 1 .. Len(w) /\ Len(w) <= Len(cells)
      BY <1>2, <1>4, <1>6, <2>5 DEF Begins
    <3> QED
      BY <1>2, <1>4, <2>5, <3>1 DEF Begins
  <2>7. cells' = cells
    <3>1. cells' = [cells EXCEPT ![pos] = cells[pos]]
      BY <1>1, <1>6, <2>6 DEF Put
    <3> QED
      BY <1>2, <3>1
  <2> QED
    BY <1>9, <2>2, <2>3, <2>4, <2>7 DEF Stored, SizesMatch, w
<1>14. PlainCells'
  <2>1. SUFFICES ASSUME plain PROVE \E old \in promised : Halfway(old)'
    BY <1>1 DEF PlainCells
  <2>2. PICK old \in promised : Halfway(old)
    BY <1>1, <2>1 DEF IInv, PlainCells
  <2> DEFINE a == write_employees(old)
  <2>3. Len(a) \in Nat
    BY <1>2
  <2>4. /\ hdr = <<>> \/ Torn \/ (hdr[1] = HeaderSize + Len(a) /\ hdr[2] = Len(old))
        /\ Len(a) <= Len(cells)
        /\ Len(cells) = Len(a) \/ Len(cells) = pos - 1
        /\ \A i \in pos .. Len(a) : cells[i] = a[i]
    BY <2>2 DEF Halfway
  <2>5. Step(old, AsWritten(employees))'
    BY <1>3a, <2>2 DEF Halfway, Step
  <2> HIDE DEF a
  <2>6. Torn => Torn'
    <3>1. hdr # <<>> => hdr[1] \in Nat
      BY <1>0, Typed, Zenon
    <3>2. Len(cells') \in Nat /\ (Len(cells') = Len(cells) \/ Len(cells') = Len(cells) + 1)
      BY <1>7
    <3>3. \A x, l \in Nat : x < 2 + l => x < 2 + (l + 1)
      OBVIOUS
    <3> QED
      BY <1>2, <1>9, <3>1, <3>2, <3>3, Zenon DEF Torn, HeaderSize
  <2>7. hdr' = <<>> \/ Torn' \/ (hdr'[1] = HeaderSize + Len(a) /\ hdr'[2] = Len(old))
    BY <1>9, <2>4, <2>6
  <2>8. Len(a) <= Len(cells') /\ (Len(cells') = Len(a) \/ Len(cells') = pos' - 1)
    <3>1. \/ pos <= Len(cells) /\ Len(cells') = Len(cells)
          \/ pos = Len(cells) + 1 /\ Len(cells') = Len(cells) + 1
      BY <1>7, Zenon
    <3>2. \A l, m, p \in Nat :
            m <= l /\ (l = m \/ l = p - 1) =>
              /\ p <= l => m <= l /\ (l = m \/ l = (p + 1) - 1)
              /\ p = l + 1 => m <= l + 1 /\ (l + 1 = m \/ l + 1 = (p + 1) - 1)
      OBVIOUS
    <3>3. /\ pos <= Len(cells) =>
               Len(a) <= Len(cells) /\ (Len(cells) = Len(a) \/ Len(cells) = (pos + 1) - 1)
          /\ pos = Len(cells) + 1 =>
               /\ Len(a) <= Len(cells) + 1
               /\ Len(cells) + 1 = Len(a) \/ Len(cells) + 1 = (pos + 1) - 1
      BY <1>2, <2>3, <2>4, <3>2, Zenon
    <3> QED
      BY <1>1, <3>1, <3>3, Zenon
  <2>9. \A i \in pos' .. Len(a) : cells'[i] = a[i]
    <3>1. \A i \in pos' .. Len(a) :
            i \in pos .. Len(a) /\ i \in 1 .. Len(cells) /\ i # pos
      BY <1>1, <1>2, <2>3, <2>4
    <3> QED
      BY <1>7, <2>4, <3>1, Zenon
  <2>10. Halfway(old)'
    BY <2>5, <2>7, <2>8, <2>9, Zenon DEF Halfway, a
  <2> QED
    BY <2>10
<1>15. PlainFile'
  BY <1>1, <1>10, <1>12, <1>14, HalvesNext DEF HalfwayIsWhole, PlainFile
<1>16. Idle' /\ PlainReady'
  BY <1>1 DEF Idle, PlainReady
<1> QED
  BY <1>10, <1>11, <1>12, <1>13, <1>14, <1>15, <1>16 DEF IInv

-----------------------------------------------------------------------------
(* The theorems. *)

LEMMA NextOK ==
  IInv /\ [Next]_vars => IInv'
<1> SUFFICES ASSUME IInv, [Next]_vars PROVE IInv'
  OBVIOUS
<1>1. CASE Create
  BY <1>1, CreateStep
<1>2. CASE write_new_file_hdr
  BY <1>2, write_new_file_hdrStep
<1>3. CASE OpenExisting
  BY <1>3, OpenExistingStep
<1>4. CASE Load
  BY <1>4, LoadStep
<1>5. CASE Refuse
  BY <1>5, DownStep DEF Refuse
<1>6. ASSUME NEW e \in Employees, Add(e) PROVE IInv'
  BY <1>6, AddStep
<1>7. ASSUME NEW n \in Names, NotFound(n) PROVE IInv'
  BY <1>7, NotFoundStep
<1>8. ASSUME NEW n \in Names, Delete(n) PROVE IInv'
  BY <1>8, DeleteStep
<1>9. ASSUME NEW n \in Names, NEW h \in Hours, Update(n, h) PROVE IInv'
  BY <1>9, UpdateStep
<1>10. CASE NextRequest
  BY <1>10, NextRequestStep
<1>11. CASE write_db
  BY <1>11, write_dbStep
<1>12. CASE WriteCell
  BY <1>12, WriteCellStep
<1>13. CASE WriteHeader
  BY <1>13, WriteHeaderStep
<1>14. CASE End
  BY <1>14, DownStep DEF End
<1>15. CASE UNCHANGED vars
  <2>1. UNCHANGED <<exists, hdr, cells, pc, who, employees, stage, pending,
                    todo, pos, promised, plain>>
    BY <1>15 DEF vars, file, memory
  <2>2. TypeOK' /\ Fresh' /\ Stages'
    BY <2>1 DEF IInv, TypeOK, Fresh, Stages
  <2>3. Idle' /\ Single'
    BY <2>1 DEF IInv, Idle, Single, Stored, SizesMatch, Begins
  <2>4. Writing'
    BY <2>1, Zenon DEF IInv, Writing
  <2>5. PlainFile' /\ PlainReady'
    BY <2>1 DEF IInv, PlainFile, PlainReady, Torn, Holds, Exact, Stored, SizesMatch, Step, Begins
  <2>6. PlainCells'
    BY <2>1 DEF IInv, PlainCells, Halfway, Torn, Step, Begins
  <2> QED
    BY <2>2, <2>3, <2>4, <2>5, <2>6 DEF IInv
<1> QED
  BY <1>1, <1>2, <1>3, <1>4, <1>5, <1>6, <1>7, <1>8, <1>9, <1>10, <1>11,
     <1>12, <1>13, <1>14, <1>15 DEF Next

\* In every state that a server or cli can leave the file, the memory and a
\* save in (serialize.c write_db, read_dbhdr, read_employees).
THEOREM Invariance == Spec => []IInv
  BY InitOK, NextOK, PTL DEF Spec

\* Every variable has its type, and no write leaves a gap in the file.
THEOREM TypeCorrect == Spec => []TypeOK
<1>1. IInv => TypeOK
  BY DEF IInv
<1> QED
  BY <1>1, Invariance, PTL

\* A server that has answered, or a process that has just opened the file,
\* has in memory what read_employees() makes of the file, but for what its
\* fields have no room for.
THEOREM SavedIsMemory == Spec => []IdleFileHoldsMemory
<1>1. IInv => IdleFileHoldsMemory
  <2> SUFFICES ASSUME IInv, pc = "ready", pending = {} PROVE Same(Saved, employees)
    BY DEF IdleFileHoldsMemory, Same
  <2>1. cells \in Seq(Nat)
    BY Typed DEF IInv
  <2>2. CASE hdr = <<>> /\ employees = <<>>
    BY <2>2 DEF Saved, Same
  <2>3. CASE \E rs \in Seq(Rec) : Stored(rs) /\ Same(rs, employees)
    BY <2>1, <2>3, Reads DEF StoredIsRead
  <2> QED
    BY <2>2, <2>3 DEF IInv, Idle
<1> QED
  BY <1>1, Invariance, PTL

\* A save of one add or one update that ends after any of its writes leaves
\* the employees as they were, as they are to be, or a file whose size is
\* not the header's, which read_dbhdr() refuses.
THEOREM AllOrNothing == Spec => []PlainSaveIsAllOrNothing
<1>1. IInv => PlainSaveIsAllOrNothing
  <2> SUFFICES ASSUME IInv, plain, Opens PROVE Saved \in promised
    BY DEF PlainSaveIsAllOrNothing
  <2>1. hdr # <<>> /\ SizesMatch
    BY DEF Opens
  <2>2. cells \in Seq(Nat) /\ Len(cells) \in Nat /\ \A es \in promised : es \in Seq(Rec)
    BY Typed DEF IInv
  <2>3. ~Torn
    BY <2>1, <2>2 DEF Torn, SizesMatch, HeaderSize
  <2>4. PICK es \in promised : Exact(es)
    BY <2>1, <2>3 DEF IInv, PlainFile
  <2> QED
    BY <2>2, <2>4, Reads DEF StoredIsRead, Exact
<1> QED
  BY <1>1, Invariance, PTL

\* A file whose last save was finished, and which was not longer before, is
\* opened by read_dbhdr() and gives what was saved.
THEOREM Grown == Spec => []GrownFileOpens
<1>1. IInv => GrownFileOpens
  <2> SUFFICES ASSUME IInv, NEW es \in promised, hdr # <<>>, promised = {es},
                      Len(cells) <= Len(write_employees(es))
               PROVE  Opens /\ Saved = es
    BY DEF GrownFileOpens
  <2>1. /\ cells \in Seq(Nat) /\ Len(cells) \in Nat /\ es \in Seq(Rec)
        /\ write_employees(es) \in Seq(Nat)
    BY Typed DEF IInv
  <2>2. /\ Stored(es)
        /\ hdr[1] = HeaderSize + Len(write_employees(es)) \/ SizesMatch
    BY DEF IInv, Single
  <2>3. Len(write_employees(es)) \in Nat
    BY <2>1
  <2>4. Len(cells) = Len(write_employees(es))
    BY <2>1, <2>2, <2>3 DEF Stored, Begins
  <2>5. SizesMatch
    BY <2>2, <2>4 DEF SizesMatch
  <2> QED
    BY <2>1, <2>2, <2>5, Reads DEF StoredIsRead
<1> QED
  BY <1>1, Invariance, PTL
=============================================================================
