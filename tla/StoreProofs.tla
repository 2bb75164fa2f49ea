---------------------------- MODULE StoreProofs -----------------------------
(***************************************************************************)
(* That Requests keeps the promises of Store, for every value of the       *)
(* constants.                                                              *)
(*                                                                         *)
(* Store has a bag of employees where the program has an array: bags are   *)
(* compared by how often each employee is in them, and that is counted by  *)
(* places of the array, so that update_employee() and delete_employee(),   *)
(* which put one employee in the place of another, are sums and            *)
(* differences of bags.                                                    *)
(*                                                                         *)
(* The invariant of RequestsProofs says where the cursor is in the request *)
(* and that memory is the file.  More says what is on its way to the file: *)
(* the option that was carried out and is not saved, and what the cli has  *)
(* loaded.  From the two, every step is one of the store or none.          *)
(***************************************************************************)
EXTENDS RequestsProofs, FiniteSetTheorems

-----------------------------------------------------------------------------
(* Counting. *)

Positions(es, e) == {k \in DOMAIN es : es[k] = e}
Times(es, e) == Cardinality(Positions(es, e))
Copy(b, e) == IF e \in DOMAIN b THEN b[e] ELSE 0
Is(e, x) == IF e = x THEN 1 ELSE 0

\* How often an employee is in the array is a number.
LEMMA TimesAreCounted ==
  ASSUME NEW T, NEW es \in Seq(T), NEW e
  PROVE  /\ IsFiniteSet(Positions(es, e))
         /\ Times(es, e) \in Nat
         /\ Times(es, e) = 0 <=> \A k \in DOMAIN es : es[k] # e
  <1>1. DOMAIN es = 1 .. Len(es) /\ Len(es) \in Nat
    OBVIOUS
  <1>2. IsFiniteSet(1 .. Len(es))
    BY <1>1, FS_Interval
  <1>3. Positions(es, e) \in SUBSET (1 .. Len(es))
    BY <1>1 DEF Positions
  <1>4. IsFiniteSet(Positions(es, e))
    BY <1>2, <1>3, FS_Subset
  <1>5. Times(es, e) \in Nat
    BY <1>4, FS_CardinalityType DEF Times
  <1>6. Times(es, e) = 0 <=> Positions(es, e) = {}
    BY <1>4, FS_EmptySet DEF Times
  <1>7. Positions(es, e) = {} <=> \A k \in DOMAIN es : es[k] # e
    BY DEF Positions
  <1> QED  BY <1>4, <1>5, <1>6, <1>7

\* The bag of an array has each employee as often as the array.
LEMMA BagCounts ==
  ASSUME NEW T, NEW es \in Seq(T)
  PROVE  /\ S!IsABag(BagOf(es))
         /\ \A e : Copy(BagOf(es), e) = Times(es, e)
         /\ \A e : e \in DOMAIN BagOf(es) <=> \E k \in DOMAIN es : es[k] = e
  <1> DEFINE b == BagOf(es)
             D == {es[k] : k \in DOMAIN es}
  <1>1. \A e \in D : Times(es, e) \in Nat /\ Times(es, e) > 0
    <2>1. \A e \in D : \E k \in DOMAIN es : es[k] = e
      OBVIOUS
    <2>2. \A e : Times(es, e) \in Nat /\ (Times(es, e) = 0 <=> \A k \in DOMAIN es : es[k] # e)
      BY TimesAreCounted
    <2> HIDE DEF D
    <2> QED  BY <2>1, <2>2
  <1>2. b = [e \in D |-> Times(es, e)]
    BY DEF BagOf, Times, Positions
  <1>3. DOMAIN b = D /\ \A e \in D : b[e] = Times(es, e)
    <2> HIDE DEF b, D
    <2> QED  BY <1>2
  <1>4. b \in [D -> {n \in Nat : n > 0}]
    <2> HIDE DEF b, D
    <2> QED  BY <1>1, <1>2
  <1>5. S!IsABag(b)
    <2> HIDE DEF b, D
    <2> QED  BY <1>3, <1>4 DEF S!IsABag
  <1>6. ASSUME NEW e PROVE Copy(b, e) = Times(es, e)
    <2>1. e \notin D => Times(es, e) = 0
      BY TimesAreCounted
    <2> HIDE DEF b, D
    <2> QED  BY <1>3, <2>1 DEF Copy
  <1>7. \A e : e \in DOMAIN b <=> \E k \in DOMAIN es : es[k] = e
    <2>1. \A e : e \in D <=> \E k \in DOMAIN es : es[k] = e
      OBVIOUS
    <2> HIDE DEF b, D
    <2> QED  BY <1>3, <2>1
  <1> QED  BY <1>5, <1>6, <1>7

\* A bag that does is that bag.
LEMMA CountsBag ==
  ASSUME NEW T, NEW es \in Seq(T), NEW b, S!IsABag(b),
         \A e : Copy(b, e) = Times(es, e)
  PROVE  b = BagOf(es)
  <1> DEFINE c == BagOf(es)
  <1>1. S!IsABag(c) /\ \A e : Copy(c, e) = Times(es, e)
    BY BagCounts
  <1> HIDE DEF c
  <1>2. b \in [DOMAIN b -> {n \in Nat : n > 0}] /\ c \in [DOMAIN c -> {n \in Nat : n > 0}]
    BY <1>1 DEF S!IsABag
  <1>3. \A e : e \in DOMAIN b <=> Copy(b, e) # 0
    BY <1>2 DEF Copy
  <1>4. \A e : e \in DOMAIN c <=> Copy(c, e) # 0
    BY <1>2 DEF Copy
  <1>5. \A e : e \in DOMAIN b <=> e \in DOMAIN c
    BY <1>1, <1>3, <1>4
  <1>6. DOMAIN b = DOMAIN c
    BY <1>5
  <1>7. \A e \in DOMAIN b : b[e] = c[e]
    BY <1>1, <1>6 DEF Copy
  <1> QED  BY <1>2, <1>6, <1>7 DEF c

\* One more is counted once more.
LEMMA TimesAppend ==
  ASSUME NEW T, NEW es \in Seq(T), NEW x \in T, NEW e
  PROVE  Times(Append(es, x), e) = Times(es, e) + Is(e, x)
  <1> DEFINE new == Append(es, x)
             n == Len(es) + 1
  <1>1. /\ DOMAIN new = DOMAIN es \cup {n} /\ n \notin DOMAIN es
        /\ \A k \in DOMAIN es : new[k] = es[k]
        /\ new[n] = x
    OBVIOUS
  <1>2. IsFiniteSet(Positions(es, e)) /\ Times(es, e) \in Nat
    BY TimesAreCounted
  <1> HIDE DEF new, n
  <1>3. n \notin Positions(es, e)
    BY <1>1 DEF Positions
  <1>4. CASE e = x
    <2>1. Positions(new, e) = Positions(es, e) \cup {n}
      BY <1>1, <1>4 DEF Positions
    <2>2. Cardinality(Positions(es, e) \cup {n}) = Cardinality(Positions(es, e)) + 1
      BY <1>2, <1>3, FS_AddElement
    <2> QED  BY <1>4, <2>1, <2>2 DEF Times, Is, new
  <1>5. CASE e # x
    <2>1. Positions(new, e) = Positions(es, e)
      BY <1>1, <1>5 DEF Positions
    <2> QED  BY <1>2, <1>5, <2>1 DEF Times, Is, new
  <1> QED  BY <1>4, <1>5

\* The array new is es with x in place i.
Puts(new, es, i, x) ==
  /\ DOMAIN new = DOMAIN es
  /\ \A k \in DOMAIN es : k # i => new[k] = es[k]
  /\ new[i] = x

\* Where one employee stands for another, one is counted less and one more.
LEMMA TimesPut ==
  ASSUME NEW es \in Seq(Employees), NEW i \in DOMAIN es, NEW x \in Employees, NEW e,
         NEW new, Puts(new, es, i, x)
  PROVE  Times(new, e) = (Times(es, e) - Is(e, es[i])) + Is(e, x)
  <1> DEFINE P == Positions(es, e)
  <1>1. /\ DOMAIN new = DOMAIN es
        /\ \A k \in DOMAIN es : k # i => new[k] = es[k]
        /\ new[i] = x
    BY DEF Puts
  <1>2. IsFiniteSet(P) /\ Times(es, e) \in Nat
    BY TimesAreCounted
  <1>3. /\ IsFiniteSet(P \ {i})
        /\ Cardinality(P \ {i}) = Times(es, e) - Is(e, es[i])
    <2>1. i \in P <=> e = es[i]
      BY DEF Positions
    <2> HIDE DEF P
    <2>2. Times(es, e) = Cardinality(P)
      BY DEF Times, P
    <2> QED  BY <1>2, <2>1, <2>2, FS_RemoveElement DEF Is
  <1>4. i \notin P \ {i}
    OBVIOUS
  <1>5. CASE e = x
    <2>1. Positions(new, e) = (P \ {i}) \cup {i}
      BY <1>1, <1>5 DEF Positions
    <2> HIDE DEF P
    <2>2. Cardinality((P \ {i}) \cup {i}) = Cardinality(P \ {i}) + 1
      BY <1>3, <1>4, FS_AddElement
    <2> QED  BY <1>3, <1>5, <2>1, <2>2 DEF Times, Is
  <1>6. CASE e # x
    <2>1. Positions(new, e) = P \ {i}
      BY <1>1, <1>6 DEF Positions
    <2>2. Times(es, e) - Is(e, es[i]) \in Int
      BY <1>2 DEF Is
    <2> HIDE DEF P
    <2>3. (Times(es, e) - Is(e, es[i])) + 0 = Times(es, e) - Is(e, es[i]) /\ Is(e, x) = 0
      BY <1>6, <2>2 DEF Is
    <2>4. Times(new, e) = Times(es, e) - Is(e, es[i])
      BY <1>3, <2>1 DEF Times
    <2> QED  BY <2>3, <2>4, Zenon
  <1> QED  BY <1>5, <1>6

-----------------------------------------------------------------------------
(* What options make of a bag. *)

With(b, x) == [e \in DOMAIN b \cup {x} |-> Copy(b, e) + Is(e, x)]
Without(b, x) ==
  [e \in {d \in DOMAIN b : Copy(b, d) - Is(d, x) > 0} |-> Copy(b, e) - Is(e, x)]

\* A bag is known from how often each member is in it.
LEMMA CopiesAreCounted ==
  ASSUME NEW b, S!IsABag(b)
  PROVE  /\ \A e : Copy(b, e) \in Nat
         /\ \A e : e \in DOMAIN b <=> Copy(b, e) > 0
  BY DEF S!IsABag, Copy

\* A bag with one more x.
LEMMA WithCounts ==
  ASSUME NEW b, S!IsABag(b), NEW x
  PROVE  /\ S!IsABag(With(b, x))
         /\ \A e : Copy(With(b, x), e) = Copy(b, e) + Is(e, x)
  <1> DEFINE c == With(b, x)
             D == DOMAIN b \cup {x}
  <1>1. \A e : Copy(b, e) \in Nat /\ (e \in DOMAIN b <=> Copy(b, e) > 0)
    BY CopiesAreCounted
  <1>2. DOMAIN c = D /\ \A e \in D : c[e] = Copy(b, e) + Is(e, x)
    BY DEF With
  <1>3. \A e \in D : Copy(b, e) + Is(e, x) \in {n \in Nat : n > 0}
    BY <1>1 DEF Is
  <1>4. \A e : e \notin D => Copy(b, e) + Is(e, x) = 0
    BY <1>1 DEF Is
  <1>5. c \in [D -> {n \in Nat : n > 0}]
    <2> HIDE DEF D
    <2> QED  BY <1>3 DEF With, D
  <1> HIDE DEF c, D
  <1>6. S!IsABag(c)
    BY <1>2, <1>5 DEF S!IsABag
  <1>7. \A e : Copy(c, e) = Copy(b, e) + Is(e, x)
    BY <1>2, <1>4, Zenon DEF Copy
  <1> QED  BY <1>6, <1>7 DEF c

\* A bag with one x less.
LEMMA WithoutCounts ==
  ASSUME NEW b, S!IsABag(b), NEW x \in DOMAIN b
  PROVE  /\ S!IsABag(Without(b, x))
         /\ \A e : Copy(Without(b, x), e) = Copy(b, e) - Is(e, x)
  <1> DEFINE c == Without(b, x)
             D == {d \in DOMAIN b : Copy(b, d) - Is(d, x) > 0}
  <1>1. \A e : Copy(b, e) \in Nat /\ (e \in DOMAIN b <=> Copy(b, e) > 0)
    BY CopiesAreCounted
  <1>2. DOMAIN c = D /\ \A e \in D : c[e] = Copy(b, e) - Is(e, x)
    BY DEF Without
  <1>3. \A e \in D : Copy(b, e) - Is(e, x) \in {n \in Nat : n > 0}
    BY <1>1 DEF Is
  <1>4. \A e : e \notin D => Copy(b, e) - Is(e, x) = 0
    BY <1>1 DEF Is
  <1>5. c \in [D -> {n \in Nat : n > 0}]
    <2> HIDE DEF D
    <2> QED  BY <1>3 DEF Without, D
  <1> HIDE DEF c, D
  <1>6. S!IsABag(c)
    BY <1>2, <1>5 DEF S!IsABag
  <1>7. \A e : Copy(c, e) = Copy(b, e) - Is(e, x)
    BY <1>2, <1>4, Zenon DEF Copy
  <1> QED  BY <1>6, <1>7 DEF c

\* One more and one less are what the specification of the store says.
LEMMA WithIsSum ==
  ASSUME NEW b, NEW x
  PROVE  S!(+)(b, S!One(x)) = With(b, x)
  BY DEF With, Copy, Is, S!(+), S!One, S!SetToBag

\* The bag module takes away what Without takes away.
LEMMA WithoutIsDifference ==
  ASSUME NEW b, S!IsABag(b), NEW x
  PROVE  S!(-)(b, S!One(x)) = Without(b, x)
  <1> DEFINE B == [e \in DOMAIN b |-> IF e \in DOMAIN S!One(x) THEN b[e] - S!One(x)[e] ELSE b[e]]
             D == {d \in DOMAIN b : Copy(b, d) - Is(d, x) > 0}
  <1>1. DOMAIN S!One(x) = {x} /\ S!One(x)[x] = 1
    BY DEF S!One, S!SetToBag
  <1>2. \A e \in DOMAIN b : B[e] = Copy(b, e) - Is(e, x)
    <2>1. \A e \in DOMAIN b : b[e] \in Nat
      BY DEF S!IsABag
    <2> QED  BY <1>1, <2>1 DEF Copy, Is
  <1>3. S!(-)(b, S!One(x)) = [e \in {d \in DOMAIN B : B[d] > 0} |-> B[e]]
    BY DEF S!(-)
  <1>4. DOMAIN B = DOMAIN b
    OBVIOUS
  <1> HIDE DEF B
  <1>5. {d \in DOMAIN B : B[d] > 0} = D
    BY <1>2, <1>4
  <1>6. \A e \in D : B[e] = Copy(b, e) - Is(e, x)
    BY <1>2
  <1> QED  BY <1>3, <1>5, <1>6 DEF Without

\* The loops find the first employee of that name, if there is one.
LEMMA FirstMatches ==
  ASSUME NEW es \in Seq(Employees), NEW n, Present(es, n)
  PROVE  First(es, n) \in DOMAIN es /\ es[First(es, n)].name = n
  <1> DEFINE R == {ss \in Nat \X Nat : ss[1] < ss[2]}
             M == Matching(es, n)
  <1>1. IsWellFoundedOn(R, Nat)
    BY NatLessThanWellFounded DEF OpToRel
  <1>2. M \subseteq Nat /\ M # {} /\ M \subseteq DOMAIN es
    BY DEF Matching, Present
  <1> HIDE DEF M, R
  <1>3. PICK x \in M : \A y \in M : ~(<<y, x>> \in R)
    BY ONLY <1>1, <1>2, WFMin, Zenon
  <1>4. ASSUME NEW y \in M PROVE x <= y
    <2>1. x \in Nat /\ y \in Nat /\ <<y, x>> \notin R
      BY <1>2, <1>3
    <2>2. y < x => <<y, x>> \in R
      BY <2>1 DEF R
    <2> QED  BY <2>1, <2>2
  <1>5. First(es, n) \in M
    BY <1>3, <1>4 DEF First, M
  <1> QED  BY <1>2, <1>5 DEF M, Matching

\* strcmp() finds a name in the array if the bag has an employee of that name.
LEMMA PresentIsNamed ==
  ASSUME NEW es \in Seq(Employees), NEW n
  PROVE  Present(es, n) <=> S!Named(BagOf(es), n) # {}
  <1> DEFINE b == BagOf(es)
  <1>1. \A e : e \in DOMAIN b <=> \E k \in DOMAIN es : es[k] = e
    BY BagCounts
  <1>2. DOMAIN es = 1 .. Len(es)
    OBVIOUS
  <1> HIDE DEF b
  <1> QED  BY <1>1, <1>2 DEF b, S!Named, S!BagToSet, Present, Matching

\* Hours that are kept.
LEMMA HoursAreKept ==
  ASSUME OptionsAssumption, NEW h \in Int
  PROVE  parse_employee_hours(h) \in S!Kept(h) /\ parse_employee_hours(h) \in 0 .. HoursLimit - 1
  <1>1. HoursLimit \in Nat \ {0}
    BY DEF OptionsAssumption
  <1>2. h % HoursLimit \in 0 .. HoursLimit - 1
    BY <1>1
  <1>3. h \in 0 .. HoursLimit - 1 => h % HoursLimit = h
    BY <1>1, FitsUncut
  <1> QED  BY <1>2, <1>3 DEF parse_employee_hours, S!Kept

\* An employee that is appended is added to the bag (parse.c add_employee).
LEMMA AddedOutcome ==
  ASSUME OptionsAssumption, NEW es \in Seq(Employees), NEW e \in Employees,
         NEW o, o.op = "add", o.name = e.name, o.address = e.address,
         e.hours \in S!Kept(o.hours)
  PROVE  BagOf(Append(es, e)) \in S!Outcomes(BagOf(es), o)
  <1> DEFINE b == BagOf(es)
             new == Append(es, e)
  <1>1. S!IsABag(b) /\ \A x : Copy(b, x) = Times(es, x)
    BY BagCounts
  <1>2. new \in Seq(Employees) /\ \A x : Times(new, x) = Times(es, x) + Is(x, e)
    BY TimesAppend
  <1> HIDE DEF b, new
  <1>3. S!IsABag(With(b, e)) /\ \A x : Copy(With(b, e), x) = Times(new, x)
    BY <1>1, <1>2, WithCounts
  <1>4. With(b, e) = BagOf(new)
    BY <1>2, <1>3, CountsBag
  <1>5. e = [name |-> o.name, address |-> o.address, hours |-> e.hours]
    BY DEF Employees
  <1>6. S!(+)(b, S!One([name |-> o.name, address |-> o.address, hours |-> e.hours]))
          \in S!Outcomes(b, o)
    BY DEF S!Outcomes
  <1>7. S!(+)(b, S!One(e)) \in S!Outcomes(b, o)
    BY <1>5, <1>6
  <1>8. S!(+)(b, S!One(e)) = With(b, e)
    BY WithIsSum
  <1> QED  BY <1>4, <1>7, <1>8 DEF b, new

\* The first employee of the name gets its hours, and no other (parse.c
\* update_employee_hours).
LEMMA UpdatedOutcome ==
  ASSUME OptionsAssumption, NEW es \in Seq(Employees), NEW h \in 0 .. HoursLimit - 1,
         NEW o, o.op = "update", Present(es, o.name), h \in S!Kept(o.hours)
  PROVE  BagOf(update_employee(es, o.name, h)) \in S!Outcomes(BagOf(es), o)
  <1> DEFINE i == First(es, o.name)
             new == update_employee(es, o.name, h)
             b == BagOf(es)
  <1>1. i \in DOMAIN es /\ es[i].name = o.name
    BY FirstMatches
  <1> HIDE DEF i
  <1>2. PICK e \in Employees : e = es[i]
    BY <1>1
  <1> DEFINE y == [e EXCEPT !.hours = h]
  <1>3. y \in Employees /\ y = [name |-> e.name, address |-> e.address, hours |-> h]
    <2>1. e = [name |-> e.name, address |-> e.address, hours |-> e.hours]
      BY DEF Employees
    <2>2. \A n, a, g : [[name |-> n, address |-> a, hours |-> g] EXCEPT !.hours = h]
                        = [name |-> n, address |-> a, hours |-> h]
      OBVIOUS
    <2>3. y = [name |-> e.name, address |-> e.address, hours |-> h]
      BY <2>1, <2>2, Zenon
    <2> HIDE DEF y
    <2> QED  BY <2>3 DEF Employees
  <1> HIDE DEF y
  <1>4. Puts(new, es, i, y)
    <2>1. new = [es EXCEPT ![i] = y]
      BY <1>2, <1>3 DEF update_employee, i
    <2> HIDE DEF new
    <2> QED  BY <1>1, <2>1 DEF Puts
  <1> HIDE DEF new, b
  <1>5. new \in Seq(Employees)
    BY UpdateArray DEF new
  <1>6. ASSUME NEW x PROVE Times(new, x) = (Times(es, x) - Is(x, e)) + Is(x, y)
    <2>1. Times(new, x) = (Times(es, x) - Is(x, es[i])) + Is(x, y)
      BY <1>1, <1>3, <1>4, TimesPut
    <2> QED  BY <1>2, <2>1
  <1>7. /\ S!IsABag(b) /\ \A x : Copy(b, x) = Times(es, x)
        /\ e \in DOMAIN b
    BY <1>1, <1>2, BagCounts DEF b
  <1>8. S!IsABag(Without(b, e)) /\ \A x : Copy(Without(b, e), x) = Times(es, x) - Is(x, e)
    BY <1>7, WithoutCounts
  <1>9. S!IsABag(With(Without(b, e), y)) /\ \A x : Copy(With(Without(b, e), y), x) = Times(new, x)
    BY <1>6, <1>8, WithCounts
  <1>10. With(Without(b, e), y) = BagOf(new)
    BY <1>5, <1>9, CountsBag
  <1>11. e \in S!Named(b, o.name)
    BY <1>1, <1>2, <1>7 DEF S!Named, S!BagToSet
  <1>12. S!(+)(S!(-)(b, S!One(e)), S!One([e EXCEPT !.hours = h])) \in S!Outcomes(b, o)
    <2> DEFINE Op(x, g) == S!(+)(S!(-)(b, S!One(x)), S!One([x EXCEPT !.hours = g]))
    <2>1. S!Outcomes(b, o) = {Op(x, g) : x \in S!Named(b, o.name), g \in S!Kept(o.hours)}
      BY DEF S!Outcomes
    <2>2. Op(e, h) \in S!Outcomes(b, o)
      <3> HIDE DEF Op
      <3> QED  BY <1>11, <2>1
    <2> QED  BY <2>2
  <1>13. S!(+)(S!(-)(b, S!One(e)), S!One(y)) = With(Without(b, e), y)
    BY <1>7, WithIsSum, WithoutIsDifference
  <1> QED  BY <1>10, <1>12, <1>13 DEF b, new, y

\* The first employee of the name is gone, and no other: the last one stands in
\* its place (parse.c delete_employee).
LEMMA DeletedOutcome ==
  ASSUME OptionsAssumption, NEW es \in Seq(Employees),
         NEW o, o.op = "delete", Present(es, o.name)
  PROVE  BagOf(delete_employee(es, o.name)) \in S!Outcomes(BagOf(es), o)
  <1> DEFINE i == First(es, o.name)
             n == Len(es)
             moved == [es EXCEPT ![i] = es[n]]
             new == delete_employee(es, o.name)
             b == BagOf(es)
  <1>1. i \in DOMAIN es /\ es[i].name = o.name
    BY FirstMatches
  <1> HIDE DEF i
  <1>2. DOMAIN es = 1 .. n /\ n \in Nat /\ n \in DOMAIN es /\ es[n] \in Employees /\ es[i] \in Employees
    BY <1>1
  <1>3. moved \in Seq(Employees) /\ Len(moved) = n /\ moved[n] = es[n]
    BY <1>1, <1>2
  <1>4. ASSUME NEW x PROVE Times(moved, x) = (Times(es, x) - Is(x, es[i])) + Is(x, es[n])
    <2>1. Puts(moved, es, i, es[n])
      BY <1>1, <1>2 DEF Puts
    <2> HIDE DEF moved
    <2> QED  BY <1>1, <1>2, <2>1, TimesPut
  <1>5. new = SubSeq(moved, 1, n - 1)
    BY DEF delete_employee, i
  <1>6. new \in Seq(Employees)
    BY DeleteArray
  <1> HIDE DEF moved, new, b
  <1>7. moved = Append(new, es[n])
    BY <1>2, <1>3, <1>5
  <1>8. \A x : Times(moved, x) = Times(new, x) + Is(x, es[n])
    BY <1>2, <1>6, <1>7, TimesAppend
  <1>9. \A x : Times(es, x) \in Nat /\ Times(new, x) \in Nat
    BY <1>6, TimesAreCounted
  <1>10. \A x : Times(new, x) = Times(es, x) - Is(x, es[i])
    BY <1>4, <1>8, <1>9 DEF Is
  <1>11. /\ S!IsABag(b) /\ \A x : Copy(b, x) = Times(es, x)
         /\ es[i] \in DOMAIN b
    BY <1>1, BagCounts DEF b
  <1>12. S!IsABag(Without(b, es[i])) /\ \A x : Copy(Without(b, es[i]), x) = Times(new, x)
    BY <1>10, <1>11, WithoutCounts
  <1>13. Without(b, es[i]) = BagOf(new)
    BY <1>6, <1>12, CountsBag
  <1>14. es[i] \in S!Named(b, o.name)
    BY <1>1, <1>11 DEF S!Named, S!BagToSet
  <1>15. S!(-)(b, S!One(es[i])) \in S!Outcomes(b, o)
    BY <1>14 DEF S!Outcomes
  <1>16. S!(-)(b, S!One(es[i])) = Without(b, es[i])
    BY <1>11, WithoutIsDifference
  <1> QED  BY <1>13, <1>15, <1>16 DEF b, new

\* What an option that goes well makes of the array (cli.c main, proto.c
\* deserialize_request_options) is an outcome of it for the bag.
LEMMA AppliedOutcome ==
  ASSUME OptionsAssumption, NEW es \in Seq(Employees), NEW o \in TypedOptions,
         Apply(es, o).ok
  PROVE  /\ Apply(es, o).es \in Seq(Employees)
         /\ BagOf(Apply(es, o).es) \in S!Outcomes(BagOf(es), o)
  <1>1. o.op \in {"update", "delete"} => Present(es, o.name)
    BY DEF Apply
  <1>2. CASE o.op = "add"
    <2> DEFINE e == [name |-> o.name, address |-> o.address, hours |-> parse_employee_hours(o.hours)]
    <2>1. Apply(es, o).es = Append(es, e)
      BY <1>2 DEF Apply
    <2>2. o.name \in Seq(Nat) /\ o.address \in Seq(Nat) /\ o.hours \in Int
      BY <1>2 DEF TypedOptions
    <2>3. e \in Employees /\ e.hours \in S!Kept(o.hours) /\ e.name = o.name /\ e.address = o.address
      BY <2>2, HoursAreKept DEF Employees
    <2> HIDE DEF e
    <2>4. Append(es, e) \in Seq(Employees)
      BY <2>3
    <2> QED  BY <1>2, <2>1, <2>3, <2>4, AddedOutcome
  <1>3. CASE o.op = "update"
    <2> DEFINE h == parse_employee_hours(o.hours)
    <2>1. Apply(es, o).es = update_employee(es, o.name, h)
      BY <1>1, <1>3 DEF Apply
    <2>2. o.hours \in Int
      BY <1>3 DEF TypedOptions
    <2>3. h \in 0 .. HoursLimit - 1 /\ h \in S!Kept(o.hours)
      BY <2>2, HoursAreKept
    <2> HIDE DEF h
    <2> QED  BY <1>1, <1>3, <2>1, <2>3, UpdatedOutcome, UpdateArray
  <1>4. CASE o.op = "delete"
    <2>1. Apply(es, o).es = delete_employee(es, o.name)
      BY <1>1, <1>4 DEF Apply
    <2> QED  BY <1>1, <1>4, <2>1, DeletedOutcome, DeleteArray
  <1>5. CASE o.op = "list"
    <2>1. Apply(es, o).es = es
      BY <1>5 DEF Apply
    <2> QED  BY <1>5, <2>1 DEF S!Outcomes
  <1>6. o.op \in {"add", "update", "delete", "list"}
    BY DEF TypedOptions
  <1> QED  BY <1>2, <1>3, <1>4, <1>5, <1>6

-----------------------------------------------------------------------------
(* How many there are. *)

Rank(es, k) == Cardinality({j \in 1 .. k : es[j] = es[k]})

\* A place has one of the numbers from 1 to the times its employee occurs.
LEMMA RankFits ==
  ASSUME NEW es \in Seq(Employees), NEW k \in DOMAIN es
  PROVE  Rank(es, k) \in 1 .. Times(es, es[k])
  <1> DEFINE P == Positions(es, es[k])
             Q == {j \in 1 .. k : es[j] = es[k]}
  <1>1. DOMAIN es = 1 .. Len(es) /\ Len(es) \in Nat
    OBVIOUS
  <1>2. Q \in SUBSET P /\ k \in Q
    BY <1>1 DEF Positions
  <1>3. IsFiniteSet(P) /\ Times(es, es[k]) = Cardinality(P) /\ Cardinality(P) \in Nat
    BY TimesAreCounted DEF Times
  <1> HIDE DEF P, Q
  <1>4. IsFiniteSet(Q) /\ Cardinality(Q) <= Cardinality(P)
    BY <1>2, <1>3, FS_Subset
  <1>5. Cardinality(Q) \in Nat /\ Cardinality(Q) # 0
    BY <1>2, <1>4, FS_CardinalityType, FS_EmptySet
  <1> QED  BY <1>3, <1>4, <1>5 DEF Rank, Q

\* Places of the same employee have different numbers.
LEMMA RankDiffers ==
  ASSUME NEW es \in Seq(Employees), NEW k \in DOMAIN es, NEW i \in DOMAIN es,
         i < k, es[i] = es[k]
  PROVE  Rank(es, i) # Rank(es, k)
  <1> DEFINE P == {j \in 1 .. i : es[j] = es[i]}
             Q == {j \in 1 .. k : es[j] = es[k]}
  <1>1. DOMAIN es = 1 .. Len(es) /\ Len(es) \in Nat
    OBVIOUS
  <1>2. P \in SUBSET Q /\ k \in Q /\ k \notin P
    BY <1>1
  <1>3. Q \in SUBSET (1 .. k) /\ IsFiniteSet(1 .. k)
    BY <1>1, FS_Interval
  <1> HIDE DEF P, Q
  <1>4. IsFiniteSet(Q)
    BY <1>3, FS_Subset
  <1>5. Cardinality(Q) = Cardinality(P) => Q = P
    BY <1>2, <1>4, FS_Subset
  <1> QED  BY <1>2, <1>5 DEF Rank, P, Q

\* There are as many copies in the bag as places in the array, or more.
LEMMA CopiesAreMany ==
  ASSUME NEW es \in Seq(Employees)
  PROVE  /\ Len(es) <= Cardinality(S!Copies(BagOf(es)))
         /\ Cardinality(S!Copies(BagOf(es))) \in Nat
  <1> DEFINE b == BagOf(es)
             n == Len(es)
             C == S!Copies(b)
             f == [k \in 1 .. n |-> <<es[k], Rank(es, k)>>]
  <1>1. DOMAIN es = 1 .. n /\ n \in Nat
    OBVIOUS
  <1>2. /\ S!IsABag(b)
        /\ \A e : Copy(b, e) = Times(es, e)
        /\ \A e : e \in DOMAIN b <=> \E k \in DOMAIN es : es[k] = e
    BY BagCounts
  <1> HIDE DEF b
  <1>3. \A e \in DOMAIN b : b[e] = Times(es, e)
    BY <1>2 DEF Copy
  <1> DEFINE Of(e) == {<<e, k>> : k \in 1 .. Times(es, e)}
             Parts == {Of(e) : e \in DOMAIN b}
  <1>4. C = UNION Parts
    BY <1>3 DEF S!Copies, S!BagToSet
  <1> HIDE DEF n
  <1>5. ASSUME NEW k \in 1 .. n PROVE <<es[k], Rank(es, k)>> \in C
    <2>1. es[k] \in DOMAIN b /\ Rank(es, k) \in 1 .. Times(es, es[k])
      BY <1>1, <1>2, RankFits
    <2>2. <<es[k], Rank(es, k)>> \in Of(es[k]) /\ Of(es[k]) \in Parts
      BY <2>1
    <2> HIDE DEF C, Parts, Of
    <2> QED  BY <1>4, <2>2
  <1>6. IsFiniteSet(C)
    <2>1. ASSUME NEW e \in DOMAIN b PROVE IsFiniteSet(Of(e))
      <3> DEFINE m == Times(es, e)
                 g == [k \in 1 .. m |-> <<e, k>>]
      <3>1. m \in Nat
        BY TimesAreCounted
      <3> HIDE DEF m
      <3>2. IsFiniteSet(1 .. m)
        BY <3>1, FS_Interval
      <3>3. Of(e) = {<<e, k>> : k \in 1 .. m}
        BY DEF m
      <3>4. g \in [1 .. m -> Of(e)] /\ \A x \in Of(e) : \E k \in 1 .. m : g[k] = x
        BY <3>3
      <3> HIDE DEF g, Of
      <3>5. g \in Surjection(1 .. m, Of(e))
        BY <3>4 DEF Surjection
      <3> QED  BY <3>2, <3>5, FS_Surjection
    <2>2. IsFiniteSet(DOMAIN b)
      <3> DEFINE g == [k \in 1 .. n |-> es[k]]
      <3>1. g \in [1 .. n -> DOMAIN b] /\ \A e \in DOMAIN b : \E k \in 1 .. n : g[k] = e
        BY <1>1, <1>2
      <3> HIDE DEF g
      <3>2. g \in Surjection(1 .. n, DOMAIN b)
        BY <3>1 DEF Surjection
      <3>3. IsFiniteSet(1 .. n)
        BY <1>1, FS_Interval
      <3> QED  BY <3>2, <3>3, FS_Surjection
    <2>3. IsFiniteSet(Parts)
      <3> DEFINE g == [e \in DOMAIN b |-> Of(e)]
      <3> HIDE DEF Of
      <3>1. g \in [DOMAIN b -> Parts] /\ \A x \in Parts : \E e \in DOMAIN b : g[e] = x
        OBVIOUS
      <3> HIDE DEF g, Parts
      <3>2. g \in Surjection(DOMAIN b, Parts)
        BY <3>1 DEF Surjection
      <3> QED  BY <2>2, <3>2, FS_Surjection
    <2>4. \A x \in Parts : IsFiniteSet(x)
      <3> HIDE DEF Of
      <3> QED  BY <2>1
    <2> HIDE DEF C, Parts, Of
    <2> QED  BY <1>4, <2>3, <2>4, FS_UNION
  <1> HIDE DEF C
  <1>7. f \in [1 .. n -> C] /\ \A k \in 1 .. n : f[k] = <<es[k], Rank(es, k)>>
    BY <1>5
  <1>8. ASSUME NEW i \in 1 .. n, NEW k \in 1 .. n, f[i] = f[k] PROVE i = k
    <2>1. es[i] = es[k] /\ Rank(es, i) = Rank(es, k)
      BY <1>7, <1>8
    <2>2. ~(i < k) /\ ~(k < i)
      BY <1>1, <2>1, RankDiffers
    <2> QED  BY <1>1, <2>2
  <1> HIDE DEF f
  <1>9. IsFiniteSet(1 .. n) /\ Cardinality(1 .. n) = n
    BY <1>1, FS_Interval
  <1>10. Cardinality(C) \in Nat /\ ~(Cardinality(C) < Cardinality(1 .. n))
    <2>1. Cardinality(C) \in Nat
      BY <1>6, FS_CardinalityType
    <2>2. ASSUME Cardinality(C) < Cardinality(1 .. n) PROVE FALSE
      <3> DEFINE I == 1 .. n
      <3>1. /\ IsFiniteSet(I) /\ IsFiniteSet(C) /\ Cardinality(C) < Cardinality(I)
            /\ f \in [I -> C]
        BY <1>6, <1>7, <1>9, <2>2
      <3> HIDE DEF I
      <3>2. \E x, y \in I : x # y /\ f[x] = f[y]
        BY <3>1, FS_PigeonHole
      <3>3. PICK i \in I, k \in I : i # k /\ f[i] = f[k]
        BY <3>2, Zenon
      <3> QED  BY <1>8, <3>3, Zenon DEF I
    <2> QED  BY <2>1, <2>2
  <1> QED  BY <1>1, <1>9, <1>10 DEF n, C, b

-----------------------------------------------------------------------------
(* What the server makes of a request. *)

\* o is the option of the request that comes next, and the cursor is at it.
AtOption(o) ==
  /\ saved + 1 \in 1 .. Len(typed[cur]) /\ o = typed[cur][saved + 1]
  /\ o \in TypedOptions /\ ~Rejected(o)
  /\ pos \in Int /\ Holds(Cells, pos, Piece(o)) /\ Cells[pos] = Letter[o.op]

\* Wherever the cursor is inside the request, an option comes next.
LEMMA InsideAtOption ==
  ASSUME OptionsAssumption, RequestsAssumption, IInv, Serving, pos <= Len(Cells)
  PROVE  \E o : AtOption(o)
  <1>1. PICK opts \in Typed : Before(opts)
    BY ServingBefore
  <1>2. /\ opts = typed[cur] /\ opts \in Seq(TypedOptions) /\ Accepted(opts)
        /\ Cells = Body(opts).cells /\ Stands(opts, saved, pos)
    BY <1>1 DEF Before
  <1> DEFINE o == opts[saved + 1]
  <1>3. /\ saved + 1 \in 1 .. Len(opts) /\ o \in TypedOptions /\ pos \in Int
        /\ Holds(Body(opts).cells, pos, Piece(o))
        /\ Body(opts).cells[pos] = Letter[o.op]
    BY <1>2, StandsNext
  <1>4. ~Rejected(o)
    BY <1>2, <1>3 DEF Accepted
  <1> HIDE DEF o
  <1>5. o = typed[cur][saved + 1]
    BY <1>2 DEF o
  <1> QED  BY <1>2, <1>3, <1>4, <1>5 DEF AtOption

\* The option that is read is the one that comes next.
LEMMA ReadsOption ==
  ASSUME OptionsAssumption, RequestsAssumption, IInv, Serving,
         NEW op \in DOMAIN Letter, Reads(op)
  PROVE  \E o : AtOption(o) /\ o.op = op
  <1>1. pos <= Len(Cells) /\ Cells[pos] = Letter[op]
    BY DEF Reads
  <1>2. PICK o : AtOption(o)
    BY <1>1, InsideAtOption
  <1>3. o.op \in DOMAIN Letter /\ Letter[o.op] = Letter[op]
    BY <1>1, <1>2 DEF AtOption, TypedOptions, Letter
  <1>4. o.op = op
    BY <1>3 DEF Letter
  <1> QED  BY <1>2, <1>4

\* The strings and the number of the option are cells.
LEMMA NamesAreCells ==
  ASSUME NEW o, AtOption(o)
  PROVE  /\ o.op \in {"add", "update", "delete"} => o.name \in Seq(Int)
         /\ o.op = "add" => o.address \in Seq(Int)
         /\ o.op \in {"add", "update"} => o.hours \in Int
  <1>1. \A s \in Seq(Nat) : s \in Seq(Int)
    OBVIOUS
  <1>2. /\ o.op \in {"add", "update", "delete"} => o.name \in Seq(Nat)
        /\ o.op = "add" => o.address \in Seq(Nat)
        /\ o.op \in {"add", "update"} => o.hours \in Int
    BY DEF AtOption, TypedOptions
  <1> QED  BY <1>1, <1>2, Zenon

\* The option o is carried out on memory, as it was typed.
Made(o) ==
  /\ AtOption(o) /\ o.op \in {"add", "update", "delete"}
  /\ Apply(memory, o).ok /\ memory' = Apply(memory, o).es
  /\ dirty' = TRUE /\ stage' = Letter[o.op] + 1
  /\ trusted' => trusted
  /\ UNCHANGED <<state, typed, answer, shown, up, cur, saved, disk, tool, toolMemory>>

\* Each of the three actions that change memory carries out the option at the
\* cursor, with what was typed.
LEMMA AddMade ==
  ASSUME OptionsAssumption, RequestsAssumption, IInv, AddOption
  PROVE  \E o : Made(o)
  <1>1. /\ Serving /\ Reads("add")
        /\ Changed(Append(memory, deserialize_add_employee_option(Cells, pos).employee))
        /\ stage' = Letter["add"] + 1
        /\ trusted' = (trusted /\ Sound(<<deserialize_add_employee_option(Cells, pos).employee>>))
        /\ UNCHANGED <<clientVars, up, cur, saved, fileVars, toolVars>>
    BY DEF AddOption, Moves
  <1>2. "add" \in DOMAIN Letter
    BY DEF Letter
  <1>3. PICK o : AtOption(o) /\ o.op = "add"
    BY <1>1, <1>2, ReadsOption
  <1>4. deserialize_add_employee_option(Cells, pos).employee
          = [name |-> o.name, address |-> o.address, hours |-> parse_employee_hours(o.hours)]
    <2>1. o.name \in Seq(Int) /\ o.address \in Seq(Int) /\ o.hours \in Int
      BY <1>3, NamesAreCells
    <2>2. deserialize_add_employee_option(Cells, pos) =
            [employee |-> [name |-> o.name, address |-> o.address,
                           hours |-> parse_employee_hours(o.hours)],
             next |-> pos + data_len(o)]
      BY <1>3, <2>1, AddSurvives DEF AtOption, Piece
    <2> QED  BY <2>2
  <1>5. Apply(memory, o).ok
        /\ Apply(memory, o).es = Append(memory, [name |-> o.name, address |-> o.address,
                                                 hours |-> parse_employee_hours(o.hours)])
    BY <1>3 DEF Apply
  <1>6. memory' = Apply(memory, o).es /\ dirty' = TRUE
    BY <1>1, <1>4, <1>5 DEF Changed
  <1>7. trusted' => trusted
    BY <1>1
  <1> QED  BY <1>1, <1>3, <1>5, <1>6, <1>7 DEF Made, clientVars, fileVars, toolVars

\* The same for an update.
LEMMA UpdateMade ==
  ASSUME OptionsAssumption, RequestsAssumption, IInv, UpdateOption
  PROVE  \E o : Made(o)
  <1> DEFINE d == deserialize_update_employee_option(Cells, pos)
  <1>1. /\ Serving /\ Reads("update") /\ Present(memory, d.name)
        /\ Changed(update_employee(memory, d.name, d.hours))
        /\ stage' = Letter["update"] + 1
        /\ UNCHANGED <<clientVars, up, cur, saved, fileVars, toolVars, trusted>>
    BY DEF UpdateOption, Moves
  <1>2. "update" \in DOMAIN Letter
    BY DEF Letter
  <1>3. PICK o : AtOption(o) /\ o.op = "update"
    BY <1>1, <1>2, ReadsOption
  <1>4. d.name = o.name /\ d.hours = parse_employee_hours(o.hours)
    <2>1. o.name \in Seq(Int) /\ o.hours \in Int
      BY <1>3, NamesAreCells
    <2>2. d = [name |-> o.name, hours |-> parse_employee_hours(o.hours),
               next |-> pos + data_len(o)]
      BY <1>3, <2>1, UpdateSurvives DEF AtOption, Piece
    <2> HIDE DEF d
    <2> QED  BY <2>2
  <1> HIDE DEF d
  <1>5. /\ Apply(memory, o).ok
        /\ Apply(memory, o).es = update_employee(memory, o.name, parse_employee_hours(o.hours))
    BY <1>1, <1>3, <1>4 DEF Apply
  <1>6. memory' = Apply(memory, o).es /\ dirty' = TRUE
    BY <1>1, <1>4, <1>5 DEF Changed
  <1> QED  BY <1>1, <1>3, <1>5, <1>6 DEF Made, clientVars, fileVars, toolVars

\* The same for a deletion.
LEMMA DeleteMade ==
  ASSUME OptionsAssumption, RequestsAssumption, IInv, DeleteOption
  PROVE  \E o : Made(o)
  <1> DEFINE d == deserialize_delete_employee_option(Cells, pos)
  <1>1. /\ Serving /\ Reads("delete") /\ Present(memory, d.name)
        /\ Changed(delete_employee(memory, d.name))
        /\ stage' = Letter["delete"] + 1
        /\ UNCHANGED <<clientVars, up, cur, saved, fileVars, toolVars, trusted>>
    BY DEF DeleteOption, Moves
  <1>2. "delete" \in DOMAIN Letter
    BY DEF Letter
  <1>3. PICK o : AtOption(o) /\ o.op = "delete"
    BY <1>1, <1>2, ReadsOption
  <1>4. d.name = o.name
    <2>1. o.name \in Seq(Int)
      BY <1>3, NamesAreCells
    <2>2. d = [name |-> o.name, next |-> pos + data_len(o)]
      BY <1>3, <2>1, DeleteSurvives DEF AtOption, Piece
    <2> HIDE DEF d
    <2> QED  BY <2>2
  <1> HIDE DEF d
  <1>5. /\ Apply(memory, o).ok
        /\ Apply(memory, o).es = delete_employee(memory, o.name)
    BY <1>1, <1>3, <1>4 DEF Apply
  <1>6. memory' = Apply(memory, o).es /\ dirty' = TRUE
    BY <1>1, <1>4, <1>5 DEF Changed
  <1> QED  BY <1>1, <1>3, <1>5, <1>6 DEF Made, clientVars, fileVars, toolVars

\* The employee that is not there is the one of the option that comes next.
LEMMA NotPresentRead ==
  ASSUME OptionsAssumption, RequestsAssumption, IInv, NotPresent
  PROVE  \E o : AtOption(o) /\ o.op \in {"update", "delete"} /\ ~Present(memory, o.name)
  <1>1. Serving /\ {"update", "delete"} \subseteq DOMAIN Letter
    BY DEF NotPresent, Letter
  <1>2. CASE Reads("update") /\ ~Present(memory, deserialize_update_employee_option(Cells, pos).name)
    <2>1. PICK o : AtOption(o) /\ o.op = "update"
      BY <1>1, <1>2, ReadsOption
    <2>2. o.name \in Seq(Int) /\ o.hours \in Int
      BY <2>1, NamesAreCells
    <2>3. deserialize_update_employee_option(Cells, pos) =
            [name |-> o.name, hours |-> parse_employee_hours(o.hours), next |-> pos + data_len(o)]
      BY <2>1, <2>2, UpdateSurvives DEF AtOption, Piece
    <2>4. deserialize_update_employee_option(Cells, pos).name = o.name
      BY <2>3
    <2> QED  BY <1>2, <2>1, <2>4
  <1>3. CASE Reads("delete") /\ ~Present(memory, deserialize_delete_employee_option(Cells, pos).name)
    <2>1. PICK o : AtOption(o) /\ o.op = "delete"
      BY <1>1, <1>3, ReadsOption
    <2>2. o.name \in Seq(Int)
      BY <2>1, NamesAreCells
    <2>3. deserialize_delete_employee_option(Cells, pos) = [name |-> o.name, next |-> pos + data_len(o)]
      BY <2>1, <2>2, DeleteSurvives DEF AtOption, Piece
    <2>4. deserialize_delete_employee_option(Cells, pos).name = o.name
      BY <2>3
    <2> QED  BY <1>3, <2>1, <2>4
  <1> QED  BY <1>2, <1>3 DEF NotPresent

-----------------------------------------------------------------------------
(* What else holds. *)

\* A client that has not asked has no answer.
Unasked == \A c \in Clients : state[c] = "start" => answer[c] = "none"

\* The options before this one have been looked for, and no more.
AtStage ==
  cur # NoClient =>
    stage = IF Carried = 0 THEN 1 ELSE Letter[typed[cur][Carried].op] + 1

\* What is to be saved is the file with the next option carried out.
Due ==
  (trusted /\ dirty) =>
    /\ saved + 1 \in 1 .. Len(typed[cur]) /\ typed[cur][saved + 1] \in TypedOptions
    /\ typed[cur][saved + 1].op # "list"
    /\ Apply(disk, typed[cur][saved + 1]).ok
    /\ Apply(disk, typed[cur][saved + 1]).es = memory

\* What the cli is to save is the file with all it was asked to do.
Loaded ==
  (trusted /\ tool = "loaded") =>
    \E opts \in ToolTyped : Applied(disk, opts).ok /\ Applied(disk, opts).es = toolMemory

More == Unasked /\ AtStage /\ Due /\ Loaded

\* It holds at first.
LEMMA InitMore == Init => More
  BY DEF Init, More, Unasked, AtStage, Due, Loaded

\* An option that is carried out is due to be saved.
LEMMA MadeMore ==
  ASSUME IInv, More, Serving, NEW o, Made(o)
  PROVE  More'
  <1>1. /\ UNCHANGED <<state, typed, answer, shown, up, cur, saved, disk, tool, toolMemory>>
        /\ memory' = Apply(memory, o).es /\ Apply(memory, o).ok
        /\ dirty' = TRUE /\ stage' = Letter[o.op] + 1 /\ (trusted' => trusted)
        /\ saved + 1 \in 1 .. Len(typed[cur]) /\ o = typed[cur][saved + 1] /\ o \in TypedOptions
        /\ o.op \in {"add", "update", "delete"}
    BY DEF Made, AtOption
  <1>2. saved \in 0 .. 3 /\ dirty = FALSE /\ up
    BY DEF IInv, TypeOK, Serving
  <1>3. Carried' = saved + 1 /\ Carried' # 0
    BY <1>1, <1>2 DEF Carried
  <1>4. Unasked'
    BY <1>1 DEF More, Unasked
  <1>5. AtStage'
    BY <1>1, <1>3 DEF AtStage
  <1>6. Due'
    <2>1. trusted => memory = disk
      BY <1>2 DEF IInv, MemoryIsDisk
    <2>2. typed'[cur'][saved' + 1] = o /\ saved' + 1 \in 1 .. Len(typed'[cur'])
      BY <1>1
    <2>3. trusted' => Apply(disk', o).ok /\ Apply(disk', o).es = memory'
      BY <1>1, <2>1
    <2> QED  BY <1>1, <2>2, <2>3 DEF Due
  <1>7. Loaded'
    BY <1>1 DEF More, Loaded
  <1> QED  BY <1>4, <1>5, <1>6, <1>7 DEF More

\* After write_db() nothing is due.
LEMMA SaveMore ==
  ASSUME IInv, More, write_db
  PROVE  More'
  <1>1. /\ UNCHANGED <<state, typed, answer, cur, stage, tool, toolMemory, trusted>>
        /\ up /\ dirty = TRUE /\ dirty' = FALSE /\ saved' = saved + 1
    BY DEF write_db, clientVars, toolVars, IInv, TypeOK
  <1>2. Carried' = Carried
    <2>1. saved \in 0 .. 3
      BY DEF IInv, TypeOK
    <2> QED  BY <1>1, <2>1 DEF Carried
  <1>3. AtStage'
    BY <1>1, <1>2 DEF More, AtStage
  <1>4. Unasked' /\ Due'
    BY <1>1 DEF More, Unasked, Due
  <1>5. Loaded'
    BY <1>1 DEF Loaded, IInv, Trust
  <1> QED  BY <1>3, <1>4, <1>5 DEF More

\* What the end of a request leaves.
LEMMA AnswerMore ==
  ASSUME IInv, More, Serving, NEW r, Answers(r)
  PROVE  More'
  <1>1. /\ state' = [state EXCEPT ![cur] = "done"]
        /\ answer' = [answer EXCEPT ![cur] = r]
        /\ cur' = NoClient
        /\ UNCHANGED <<dirty, disk, tool, toolMemory, trusted>>
        /\ dirty = FALSE
    BY DEF Answers, Gives, fileVars, toolVars, Serving, IInv, TypeOK
  <1>2. /\ state \in [Clients -> {"start", "sent", "done"}]
        /\ answer \in [Clients -> {"none", "ok", "not present", "unanswered"}]
    BY DEF IInv, TypeOK
  <1>3. Unasked'
    BY <1>1, <1>2 DEF More, Unasked
  <1>4. AtStage' /\ Due'
    BY <1>1 DEF AtStage, Due
  <1>5. Loaded'
    BY <1>1 DEF More, Loaded
  <1> QED  BY <1>3, <1>4, <1>5 DEF More

\* A client sends its request, or is told at once that it failed.
Asks(c, opts) ==
  /\ up /\ state' = [state EXCEPT ![c] = "sent"]
  /\ typed' = [typed EXCEPT ![c] = opts] /\ answer' = answer
GivesUp(c) ==
  /\ state' = [state EXCEPT ![c] = "done"]
  /\ typed' = [typed EXCEPT ![c] = <<>>] /\ answer' = [answer EXCEPT ![c] = "unanswered"]

\* A client sends its request, or fails.
LEMMA SendEither ==
  ASSUME IInv, NEW c \in Clients, Send(c)
  PROVE  /\ (\E opts \in Typed : Asks(c, opts)) \/ GivesUp(c)
         /\ state[c] = "start" /\ cur # c
         /\ UNCHANGED <<shown, up, memory, cur, pos, stage, saved, dirty, disk, length>>
         /\ UNCHANGED <<tool, toolMemory, toolRuns, trusted>>
  <1>1. PICK opts \in Typed :
          IF up /\ ~ \E k \in DOMAIN opts : Rejected(opts[k])
          THEN /\ state' = [state EXCEPT ![c] = "sent"]
               /\ typed' = [typed EXCEPT ![c] = opts]
               /\ buffer' = [buffer EXCEPT ![c] = Body(opts)]
               /\ UNCHANGED answer
          ELSE Gives(c, "unanswered") /\ UNCHANGED buffer
    BY DEF Send
  <1>2. Asks(c, opts) \/ GivesUp(c)
    BY <1>1, Zenon DEF Gives, Asks, GivesUp
  <1>3. /\ state[c] = "start"
        /\ UNCHANGED <<shown, up, memory, cur, pos, stage, saved, dirty, disk, length>>
        /\ UNCHANGED <<tool, toolMemory, toolRuns, trusted>>
    BY DEF Send, requestVars, fileVars, toolVars
  <1>4. cur # c
    BY <1>3, RequestsAssumption DEF IInv, TypeOK, Serves, RequestsAssumption
  <1> QED  BY <1>2, <1>3, <1>4

\* The request of a client is none of the one that is served.
LEMMA SendMore ==
  ASSUME IInv, More, NEW c \in Clients, Send(c)
  PROVE  More'
  <1>1. (\E opts \in Typed : Asks(c, opts)) \/ GivesUp(c)
    BY SendEither
  <1>2. /\ state[c] = "start" /\ cur # c
        /\ UNCHANGED <<memory, cur, stage, saved, dirty, disk, tool, toolMemory, trusted>>
    BY SendEither
  <1>3. /\ state \in [Clients -> {"start", "sent", "done"}]
        /\ answer \in [Clients -> {"none", "ok", "not present", "unanswered"}]
        /\ typed \in [Clients -> Typed \cup {<<>>}]
        /\ cur \in Clients \cup {NoClient} /\ (dirty => cur # NoClient)
    BY DEF IInv, TypeOK, Serves
  <1>4. /\ state'[c] # "start"
        /\ \A d \in Clients : d # c =>
             state'[d] = state[d] /\ typed'[d] = typed[d] /\ answer'[d] = answer[d]
    BY <1>1, <1>3 DEF Asks, GivesUp
  <1>5. Carried' = Carried
    BY <1>2 DEF Carried
  <1>6. Unasked'
    BY <1>4 DEF More, Unasked
  <1>7. cur # NoClient => typed'[cur] = typed[cur]
    BY <1>2, <1>3, <1>4
  <1>8. AtStage'
    BY <1>2, <1>5, <1>7 DEF More, AtStage
  <1>9. Due'
    BY <1>2, <1>3, <1>7 DEF More, Due
  <1>10. Loaded'
    BY <1>2 DEF More, Loaded
  <1> QED  BY <1>6, <1>8, <1>9, <1>10 DEF More

\* Nothing of a request is looked for when it is taken.
LEMMA TakeMore ==
  ASSUME IInv, More, NEW c \in Clients, Take(c)
  PROVE  More'
  <1>1. /\ cur = NoClient /\ cur' = c /\ stage' = 1 /\ saved' = 0
        /\ UNCHANGED <<state, answer, dirty, disk, tool, toolMemory, trusted>>
    BY DEF Take, clientVars, fileVars, toolVars
  <1>2. dirty = FALSE
    BY <1>1 DEF IInv, TypeOK, Serves
  <1>3. Carried' = 0
    BY <1>1, <1>2 DEF Carried
  <1>4. AtStage' /\ Due'
    BY <1>1, <1>2, <1>3 DEF AtStage, Due
  <1>5. Unasked' /\ Loaded'
    BY <1>1 DEF More, Unasked, Loaded
  <1> QED  BY <1>4, <1>5 DEF More

\* A server that ended has nothing to save.
LEMMA CrashMore ==
  ASSUME IInv, More, Crash
  PROVE  More'
  <1>1. /\ cur' = NoClient /\ dirty' = FALSE
        /\ state' = [c \in Clients |-> IF state[c] = "sent" THEN "done" ELSE state[c]]
        /\ answer' = [c \in Clients |-> IF state[c] = "sent" THEN "unanswered" ELSE answer[c]]
        /\ UNCHANGED <<disk, tool, toolMemory, trusted>>
    BY DEF Crash, fileVars, toolVars
  <1>2. Unasked'
    BY <1>1 DEF More, Unasked
  <1>3. AtStage' /\ Due'
    BY <1>1 DEF AtStage, Due
  <1>4. Loaded'
    BY <1>1 DEF More, Loaded
  <1> QED  BY <1>2, <1>3, <1>4 DEF More

\* Steps of the cli, and of a server that starts, leave the requests alone.
LEMMA AsideMore ==
  ASSUME IInv, More, Aside
  PROVE  Unasked' /\ AtStage'
  <1>1. UNCHANGED <<state, typed, answer, cur, stage, saved, dirty>>
    BY DEF Aside
  <1>2. Carried' = Carried
    BY <1>1 DEF Carried
  <1> QED  BY <1>1, <1>2 DEF More, Unasked, AtStage

\* A server that starts has nothing to save.
LEMMA StartMore ==
  ASSUME IInv, More, Start
  PROVE  More'
  <1>1. /\ Aside /\ dirty = FALSE /\ dirty' = FALSE /\ (trusted' => trusted /\ tool = "off")
        /\ UNCHANGED <<disk, tool, toolMemory>>
    BY DEF Start, Aside, clientVars, requestVars, fileVars, toolVars, IInv, TypeOK, Serves
  <1>2. Due' /\ Loaded'
    BY <1>1 DEF Due, Loaded
  <1> QED  BY <1>1, <1>2, AsideMore DEF More

\* The cli loads the file as it is, and does all it is asked to.
LEMMA ToolLoadsMore ==
  ASSUME OptionsAssumption, IInv, More, ToolLoads
  PROVE  More'
  <1>1. PICK opts \in ToolTyped, u \in Uninit :
          LET r == Applied(Reloaded(disk, u), opts)
          IN  \/ r.ok /\ tool' = "loaded" /\ toolMemory' = r.es
              \/ UNCHANGED <<tool, toolMemory>>
    BY DEF ToolLoads
  <1>2. /\ tool = "off" /\ trusted' = (trusted /\ ~up) /\ Aside /\ UNCHANGED <<disk, dirty>>
    BY DEF ToolLoads, Aside, clientVars, requestVars, fileVars
  <1>3. disk \in Seq(Employees) /\ u \in Seq(Nat)
    BY DEF IInv, TypeOK, OptionsAssumption
  <1>4. trusted' => Reloaded(disk, u) = disk
    BY <1>2, <1>3, ReloadArray DEF IInv, Trust
  <1>5. Loaded'
    <2>1. SUFFICES ASSUME trusted', tool' = "loaded"
                   PROVE  \E o \in ToolTyped : Applied(disk', o).ok /\ Applied(disk', o).es = toolMemory'
      BY DEF Loaded
    <2>2. Applied(disk, opts).ok /\ toolMemory' = Applied(disk, opts).es
      BY <1>1, <1>2, <1>4, <2>1
    <2> QED  BY <1>2, <2>2
  <1>6. Due'
    <2>1. (trusted' => ~up) /\ (dirty => cur # NoClient) /\ (cur # NoClient => up)
      BY <1>2 DEF IInv, Serves
    <2>2. dirty' = dirty
      BY <1>2
    <2> QED  BY <2>1, <2>2 DEF Due
  <1> QED  BY <1>2, <1>5, <1>6, AsideMore DEF More

\* After it has saved, the cli has nothing.
LEMMA ToolSavesMore ==
  ASSUME IInv, More, ToolSaves
  PROVE  More'
  <1>1. /\ Aside /\ tool = "loaded" /\ tool' = "off" /\ (trusted' => trusted)
    BY DEF ToolSaves, Aside, clientVars, requestVars
  <1>2. Loaded'
    BY <1>1 DEF Loaded
  <1>3. Due'
    <2>1. dirty' = dirty /\ (trusted' => ~up) /\ (dirty => up)
      BY <1>1 DEF IInv, Serves, Trust, Aside
    <2> QED  BY <2>1 DEF Due
  <1> QED  BY <1>1, <1>2, <1>3, AsideMore DEF More

\* Every step keeps it.
LEMMA NextMore ==
  ASSUME OptionsAssumption, RequestsAssumption, IInv, More, [Next]_vars
  PROVE  More'
  <1>1. CASE \E c \in Clients : Send(c) \/ Take(c)
    BY <1>1, SendMore, TakeMore
  <1>2. CASE AddOption \/ UpdateOption \/ DeleteOption
    <2>1. Serving
      BY <1>2 DEF AddOption, UpdateOption, DeleteOption
    <2> QED  BY <1>2, <2>1, AddMade, UpdateMade, DeleteMade, MadeMore
  <1>3. CASE NotPresent \/ ListOption \/ Finish
    BY <1>3, AnswerMore DEF NotPresent, ListOption, Finish
  <1>4. CASE Crash \/ Start \/ ToolLoads \/ ToolSaves
    BY <1>4, CrashMore, StartMore, ToolLoadsMore, ToolSavesMore
  <1>5. CASE UNCHANGED vars
    <2>1. Aside /\ UNCHANGED <<up, memory, disk, tool, toolMemory, trusted>>
      BY <1>5 DEF vars, Aside, clientVars, requestVars, fileVars, toolVars
    <2>2. Due' /\ Loaded'
      BY <2>1 DEF More, Due, Loaded, Aside
    <2> QED  BY <2>1, <2>2, AsideMore DEF More
  <1>6. CASE write_db
    BY <1>6, SaveMore
  <1>7. \/ \E c \in Clients : Send(c) \/ Take(c)
        \/ AddOption \/ UpdateOption \/ DeleteOption
        \/ NotPresent \/ ListOption \/ Finish
        \/ Crash \/ Start \/ ToolLoads \/ ToolSaves
        \/ UNCHANGED vars \/ write_db
    BY Zenon DEF Next, Serve
  <1> QED  BY <1>1, <1>2, <1>3, <1>4, <1>5, <1>6, <1>7

-----------------------------------------------------------------------------
(* What is left of a request. *)

Rest(opts, k) == SubSeq(opts, k + 1, Len(opts))

\* The options after the first k of them.
LEMMA RestOf ==
  ASSUME NEW opts \in Seq(TypedOptions), NEW k \in 0 .. Len(opts)
  PROVE  /\ Len(Rest(opts, k)) = Len(opts) - k
         /\ k = 0 => Rest(opts, k) = opts
         /\ k = Len(opts) <=> Rest(opts, k) = <<>>
         /\ k < Len(opts) => /\ Head(Rest(opts, k)) = opts[k + 1]
                             /\ Tail(Rest(opts, k)) = Rest(opts, k + 1)
  <1>1. Len(opts) \in Nat /\ DOMAIN opts = 1 .. Len(opts)
    OBVIOUS
  <1>2. Len(Rest(opts, k)) = Len(opts) - k
    <2>1. \A i \in k + 1 .. Len(opts) : opts[i] \in TypedOptions
      BY <1>1
    <2>2. k + 1 \in Int /\ Len(opts) \in Int
      BY <1>1
    <2> DEFINE r == Rest(opts, k)
               l == Len(opts)
    <2>3. Len(r) = IF k + 1 <= l THEN l - (k + 1) + 1 ELSE 0
      BY <2>1, <2>2, SubSeqProperties DEF Rest
    <2> HIDE DEF r, l
    <2>4. l \in Nat /\ k \in 0 .. l
      BY <1>1 DEF l
    <2> QED  BY <2>3, <2>4 DEF r, l
  <1>3. k = 0 => Rest(opts, k) = opts
    BY SubSeqFull DEF Rest
  <1>4. k = Len(opts) => Rest(opts, k) = <<>>
    BY <1>1, SubSeqEmpty DEF Rest
  <1>5. k # Len(opts) => Rest(opts, k) # <<>>
    <2>1. Rest(opts, k) = <<>> => Len(Rest(opts, k)) = 0
      OBVIOUS
    <2>2. \A l \in Nat : l - k = 0 => k = l
      OBVIOUS
    <2> QED  BY <1>1, <1>2, <2>1, <2>2, Zenon
  <1>6. ASSUME k < Len(opts)
        PROVE  /\ Head(Rest(opts, k)) = opts[k + 1]
               /\ Tail(Rest(opts, k)) = Rest(opts, k + 1)
    <2>1. k + 1 \in 1 .. Len(opts) /\ Len(opts) \in k + 1 .. Len(opts)
      BY <1>1, <1>6
    <2> QED  BY <2>1, HeadTailOfSubSeq DEF Rest
  <1> QED  BY <1>2, <1>3, <1>4, <1>5, <1>6

-----------------------------------------------------------------------------
(* Every step is one that the store allows. *)

Lefts == [c \in Clients |-> Left(c)]
Answered == [c \in Clients |-> IF state[c] = "sent" THEN "asked" ELSE answer[c]]

\* Nothing that the store has is changed.
Still ==
  UNCHANGED <<state, typed, answer, shown, cur, saved, disk, trusted>>

\* Such a step is none in the store.
LEMMA StillStutters ==
  ASSUME Still
  PROVE  UNCHANGED S!vars
  <1>1. UNCHANGED <<state, typed, answer, shown, cur, saved, disk, trusted>>
    BY DEF Still
  <1>2. Lefts' = Lefts /\ Answered' = Answered /\ BagOf(disk)' = BagOf(disk)
    BY <1>1 DEF Lefts, Left, Answered
  <1> QED  BY <1>1, <1>2, Zenon DEF S!vars, Lefts, Answered

\* Nothing is promised once the preconditions do not hold.
LEMMA DistrustSteps ==
  ASSUME ~trusted'
  PROVE  S!Next
  BY Zenon DEF S!Next, S!Distrust

\* What is done for a client is a step of the store.
LEMMA ClientSteps ==
  ASSUME NEW c \in Clients,
         S!Ask(c) \/ S!Begin(c) \/ S!Do(c) \/ S!Refuse(c) \/ S!Answer(c) \/ S!List(c)
  PROVE  S!Next
  BY DEF S!Next

\* A request is sent, or fails at once (client.c main).
LEMMA SendSteps ==
  ASSUME RequestsAssumption, IInv, More, NEW c \in Clients, Send(c), IInv'
  PROVE  S!Next
  <1>1. (\E opts \in Typed : Asks(c, opts)) \/ GivesUp(c)
    BY SendEither
  <1>2. /\ state[c] = "start" /\ cur # c
        /\ UNCHANGED <<shown, cur, saved, disk, trusted>>
    BY SendEither
  <1>3. /\ state \in [Clients -> {"start", "sent", "done"}]
        /\ answer \in [Clients -> {"none", "ok", "not present", "unanswered"}]
        /\ typed \in [Clients -> Typed \cup {<<>>}]
        /\ cur \in Clients \cup {NoClient}
        /\ (cur # NoClient => state[cur] = "sent")
        /\ answer[c] = "none"
    BY <1>2 DEF IInv, TypeOK, Serves, More, Unasked
  <1>4. \A d \in Clients : d # c =>
          state'[d] = state[d] /\ typed'[d] = typed[d] /\ answer'[d] = answer[d]
    BY <1>1, <1>3 DEF Asks, GivesUp
  <1>5. \A d \in Clients : d # c => Lefts'[d] = Lefts[d] /\ Answered'[d] = Answered[d]
    BY <1>2, <1>4 DEF Lefts, Left, Answered
  <1>6. DOMAIN Answered = Clients /\ DOMAIN Answered' = Clients /\ Answered[c] = "none"
    BY <1>2, <1>3 DEF Answered
  <1>7. BagOf(disk)' = BagOf(disk)
    BY <1>2
  <1>8. CASE \E opts \in Typed : Asks(c, opts)
    <2>1. state'[c] = "sent"
      BY <1>3, <1>8 DEF Asks
    <2>2. Answered'[c] = "asked"
      BY <2>1 DEF Answered
    <2>3. Answered' = [Answered EXCEPT ![c] = "asked"]
      <3>1. \A f, g : DOMAIN f = Clients /\ DOMAIN g = Clients /\ g[c] = "asked"
                        /\ (\A d \in Clients : d # c => g[d] = f[d])
                        /\ f = [d \in Clients |-> f[d]] /\ g = [d \in Clients |-> g[d]]
                      => g = [f EXCEPT ![c] = "asked"]
        OBVIOUS
      <3>2. Answered = [d \in Clients |-> Answered[d]] /\ Answered' = [d \in Clients |-> Answered'[d]]
        BY DEF Answered
      <3> QED  BY <1>5, <1>6, <2>2, <3>1, <3>2, Zenon
    <2>4. \A d \in Clients \ {c} : Lefts'[d] = Lefts[d]
      BY <1>5
    <2>5. S!Ask(c)
      BY <1>2, <1>6, <1>7, <2>3, <2>4, Zenon DEF S!Ask, Lefts, Answered
    <2> QED  BY <2>5, ClientSteps
  <1>9. CASE GivesUp(c)
    <2>1. state'[c] = "done" /\ answer'[c] = "unanswered"
      BY <1>3, <1>9 DEF GivesUp
    <2>2. Answered'[c] = "unanswered" /\ Lefts'[c] = <<>>
      BY <2>1 DEF Answered, Lefts, Left
    <2>3. Answered' \in [Clients -> {"none", "asked", "ok", "not present", "unanswered"}]
      <3>1. (/\ state' \in [Clients -> {"start", "sent", "done"}]
             /\ answer' \in [Clients -> {"none", "ok", "not present", "unanswered"}])
        BY DEF IInv, TypeOK
      <3> QED  BY <3>1 DEF Answered
    <2>4. \A d \in Clients :
            \/ Answered'[d] = Answered[d] /\ Lefts'[d] = Lefts[d]
            \/ Answered[d] \in {"none", "asked"} /\ Answered'[d] = "unanswered" /\ Lefts'[d] = <<>>
      BY <1>5, <1>6, <2>2
    <2>5. cur # NoClient => Answered'[cur] # "unanswered"
      BY <1>2, <1>3, <1>4 DEF Answered
    <2>6. cur' = IF cur # NoClient /\ Answered'[cur] = "unanswered" THEN NoClient ELSE cur
      BY <1>2, <2>5
    <2>7. S!Fail
      BY <1>2, <1>7, <2>3, <2>4, <2>6, Zenon DEF S!Fail, Lefts, Answered
    <2> QED  BY <2>7, Zenon DEF S!Next
  <1> QED  BY <1>1, <1>8, <1>9

\* A request is taken up from its beginning.
LEMMA TakeSteps ==
  ASSUME RequestsAssumption, IInv, NEW c \in Clients, Take(c)
  PROVE  S!Next
  <1>1. /\ cur = NoClient /\ state[c] = "sent" /\ cur' = c /\ saved' = 0
        /\ UNCHANGED <<state, typed, answer, shown, disk, trusted>>
    BY DEF Take, clientVars, fileVars, toolVars
  <1>2. typed[c] \in Seq(TypedOptions)
    BY <1>1, TypedAreOptions DEF IInv, Asked, Sent
  <1>3. Lefts' = Lefts
    <2>1. ASSUME NEW d \in Clients PROVE Left(d)' = Left(d)
      <3>1. cur # d
        BY <1>1, RequestsAssumption DEF RequestsAssumption
      <3>2. CASE d # c
        BY <1>1, <3>1, <3>2 DEF Left
      <3>3. CASE d = c
        <4>1. Left(c) = typed[c]
          BY <1>1, <3>1, <3>3 DEF Left
        <4>2. Left(c)' = SubSeq(typed[c], 0 + 1, Len(typed[c]))
          BY <1>1 DEF Left
        <4>3. SubSeq(typed[c], 0 + 1, Len(typed[c])) = typed[c]
          BY <1>2, SubSeqFull
        <4> QED  BY <3>3, <4>1, <4>2, <4>3
      <3> QED  BY <3>2, <3>3
    <2> QED  BY <2>1, Zenon DEF Lefts
  <1>4. Answered' = Answered /\ Answered[c] = "asked" /\ BagOf(disk)' = BagOf(disk)
    BY <1>1 DEF Answered
  <1>5. S!Begin(c)
    BY <1>1, <1>3, <1>4, Zenon DEF S!Begin, Lefts, Answered
  <1> QED  BY <1>5, ClientSteps

\* Changes of memory, and processes that start, are not seen yet.
LEMMA MadeSteps ==
  ASSUME IInv, NEW o, Made(o)
  PROVE  S!Next \/ UNCHANGED S!vars
  <1>1. /\ UNCHANGED <<state, typed, answer, shown, cur, saved, disk>>
        /\ (trusted' => trusted)
    BY DEF Made
  <1>2. CASE trusted' = TRUE
    <2>1. trusted' = trusted
      BY <1>1, <1>2 DEF IInv, TypeOK
    <2> QED  BY <1>1, <2>1, StillStutters DEF Still
  <1> QED  BY <1>2, DistrustSteps

\* Starting a program changes nothing in the store.
LEMMA StartSteps ==
  ASSUME IInv, Start \/ ToolLoads
  PROVE  S!Next \/ UNCHANGED S!vars
  <1>1. /\ UNCHANGED <<state, typed, answer, shown, cur, saved, disk>>
        /\ (trusted' => trusted) /\ trusted' \in BOOLEAN
    BY DEF Start, ToolLoads, clientVars, requestVars, fileVars, toolVars
  <1>2. CASE trusted'
    <2>1. trusted' = trusted
      BY <1>1, <1>2 DEF IInv, TypeOK
    <2> QED  BY <1>1, <2>1, StillStutters DEF Still
  <1> QED  BY <1>2, DistrustSteps

\* The server has the client it serves, and what is left of its request.
LEMMA ServedNow ==
  ASSUME RequestsAssumption, IInv, up, cur # NoClient
  PROVE  /\ cur \in Clients /\ state[cur] = "sent" /\ typed[cur] \in Seq(TypedOptions)
         /\ typed[cur] \in Typed
         /\ saved \in 0 .. Len(typed[cur])
         /\ Lefts[cur] = Rest(typed[cur], saved)
         /\ Answered[cur] = "asked"
  <1>1. cur \in Clients /\ state[cur] = "sent" /\ Stands(typed[cur], Carried, pos)
    BY DEF IInv, TypeOK, Serves
  <1>2. typed[cur] \in Typed
    BY <1>1 DEF IInv, Asked, Sent
  <1>3. typed[cur] \in Seq(TypedOptions)
    BY <1>2, TypedAreOptions
  <1>4. saved \in 0 .. Len(typed[cur])
    <2> DEFINE l == Len(typed[cur])
    <2>1. l \in Nat
      BY <1>3
    <2>2. Carried \in 0 .. l
      BY <1>1 DEF Stands
    <2> HIDE DEF l
    <2>3. saved \in 0 .. 3
      BY DEF IInv, TypeOK
    <2>4. saved \in 0 .. l
      BY <2>1, <2>2, <2>3 DEF Carried
    <2> QED  BY <2>4 DEF l
  <1>5. Lefts[cur] = Rest(typed[cur], saved) /\ Answered[cur] = "asked"
    BY <1>1 DEF Lefts, Left, Rest, Answered
  <1> QED  BY <1>1, <1>2, <1>3, <1>4, <1>5

\* An option that is saved is done in the store.
LEMMA SaveSteps ==
  ASSUME OptionsAssumption, RequestsAssumption, IInv, More, write_db
  PROVE  S!Next
  <1>1. /\ up /\ dirty /\ disk' = memory /\ saved' = saved + 1
        /\ UNCHANGED <<state, typed, answer, shown, cur, trusted>>
    BY DEF write_db, Writes, clientVars, toolVars
  <1>2. SUFFICES ASSUME trusted PROVE S!Next
    BY <1>1, DistrustSteps
  <1>3. cur # NoClient
    BY <1>1 DEF IInv, Serves
  <1>4. /\ cur \in Clients /\ state[cur] = "sent" /\ typed[cur] \in Seq(TypedOptions)
        /\ saved \in 0 .. Len(typed[cur])
        /\ Lefts[cur] = Rest(typed[cur], saved)
        /\ Answered[cur] = "asked"
    BY <1>1, <1>3, ServedNow
  <1> DEFINE o == typed[cur][saved + 1]
  <1>5. /\ saved + 1 \in 1 .. Len(typed[cur]) /\ o \in TypedOptions
        /\ o.op # "list" /\ Apply(disk, o).ok /\ Apply(disk, o).es = memory
    BY <1>1, <1>2 DEF More, Due
  <1>6. disk \in Seq(Employees)
    BY DEF IInv, TypeOK
  <1>7. saved < Len(typed[cur]) /\ saved # Len(typed[cur])
    <2> DEFINE l == Len(typed[cur])
    <2>1. l \in Nat
      BY <1>4
    <2> HIDE DEF l
    <2>2. saved < l /\ saved # l
      BY <1>4, <1>5, <2>1 DEF l
    <2> QED  BY <2>2 DEF l
  <1>8. /\ Lefts[cur] # <<>> /\ Head(Lefts[cur]) = o
        /\ Tail(Lefts[cur]) = Rest(typed[cur], saved + 1)
    BY <1>4, <1>7, RestOf
  <1> HIDE DEF o
  <1>9. BagOf(memory) \in S!Outcomes(BagOf(disk), o)
    BY <1>5, <1>6, AppliedOutcome
  <1>10. BagOf(disk)' = BagOf(memory)
    BY <1>1
  <1>11. Lefts' = [Lefts EXCEPT ![cur] = Tail(@)]
    <2>1. Lefts'[cur] = Tail(Lefts[cur])
      BY <1>1, <1>4, <1>8 DEF Lefts, Left, Rest
    <2>2. \A d \in Clients : d # cur => Lefts'[d] = Lefts[d]
      BY <1>1 DEF Lefts, Left
    <2>3. Lefts = [d \in Clients |-> Lefts[d]] /\ Lefts' = [d \in Clients |-> Lefts'[d]]
      BY DEF Lefts
    <2>4. \A f, g : f = [d \in Clients |-> f[d]] /\ g = [d \in Clients |-> g[d]]
                      /\ g[cur] = Tail(f[cur])
                      /\ (\A d \in Clients : d # cur => g[d] = f[d])
                    => g = [f EXCEPT ![cur] = Tail(@)]
      BY <1>4
    <2> QED  BY <2>1, <2>2, <2>3, <2>4, Zenon
  <1>12. Answered' = Answered
    BY <1>1 DEF Answered
  <1>13. PICK c \in Clients : c = cur
    BY <1>4
  <1>14. S!Turn(c)
    BY <1>4, <1>13, Zenon DEF S!Turn, Answered
  <1>15. S!Do(c)
    BY <1>1, <1>5, <1>8, <1>9, <1>10, <1>11, <1>12, <1>13, <1>14, Zenon DEF S!Do, Lefts, Answered
  <1> QED  BY <1>15, ClientSteps

\* The answer to a request ends it, and nobody else's.
LEMMA AnswerEnds ==
  ASSUME RequestsAssumption, IInv, Serving, NEW r, Answers(r), NEW c, c = cur
  PROVE  S!Ends(c, r) /\ S!Turn(c)
  <1>1. /\ state' = [state EXCEPT ![cur] = "done"]
        /\ answer' = [answer EXCEPT ![cur] = r]
        /\ typed' = [typed EXCEPT ![cur] = <<>>]
        /\ cur' = NoClient /\ UNCHANGED <<disk, trusted>>
        /\ up /\ cur # NoClient
    BY DEF Answers, Gives, fileVars, Serving
  <1>2. /\ state \in [Clients -> {"start", "sent", "done"}]
        /\ answer \in [Clients -> {"none", "ok", "not present", "unanswered"}]
        /\ typed \in [Clients -> Typed \cup {<<>>}]
    BY DEF IInv, TypeOK
  <1>3. cur \in Clients /\ Answered[cur] = "asked" /\ cur # NoClient
    BY <1>1, ServedNow
  <1>4. /\ state'[cur] = "done" /\ answer'[cur] = r
        /\ \A d \in Clients : d # cur => /\ state'[d] = state[d] /\ answer'[d] = answer[d]
                                         /\ typed'[d] = typed[d]
        /\ NoClient \notin Clients
    BY <1>1, <1>2, <1>3, RequestsAssumption DEF RequestsAssumption
  <1>5. /\ Answered'[cur] = r /\ Lefts'[cur] = <<>>
        /\ \A d \in Clients : d # cur => Answered'[d] = Answered[d] /\ Lefts'[d] = Lefts[d]
    BY <1>1, <1>3, <1>4 DEF Answered, Lefts, Left
  <1>6. \A f, g, x : f = [d \in Clients |-> f[d]] /\ g = [d \in Clients |-> g[d]]
                       /\ g[cur] = x /\ (\A d \in Clients : d # cur => g[d] = f[d])
                     => g = [f EXCEPT ![cur] = x]
    BY <1>3
  <1>7. /\ Lefts = [d \in Clients |-> Lefts[d]] /\ Lefts' = [d \in Clients |-> Lefts'[d]]
        /\ Answered = [d \in Clients |-> Answered[d]]
        /\ Answered' = [d \in Clients |-> Answered'[d]]
    BY DEF Lefts, Answered
  <1>8. Answered' = [Answered EXCEPT ![cur] = r] /\ Lefts' = [Lefts EXCEPT ![cur] = <<>>]
    BY <1>5, <1>6, <1>7, Zenon
  <1>9. BagOf(disk)' = BagOf(disk)
    BY <1>1
  <1>10. S!Ends(c, r)
    BY <1>1, <1>8, <1>9, Zenon DEF S!Ends, Lefts, Answered
  <1>11. S!Turn(c)
    BY <1>3, Zenon DEF S!Turn, Answered
  <1> QED  BY <1>10, <1>11

\* What is left begins with the option at the cursor.
LEMMA OptionLeft ==
  ASSUME RequestsAssumption, IInv, Serving, NEW o, AtOption(o)
  PROVE  /\ cur \in Clients /\ Lefts[cur] # <<>> /\ Head(Lefts[cur]) = o
         /\ typed[cur] \in Typed /\ Len(Lefts[cur]) = Len(typed[cur]) - saved
  <1>1. up /\ cur # NoClient
    BY DEF Serving
  <1>2. /\ cur \in Clients /\ typed[cur] \in Seq(TypedOptions) /\ typed[cur] \in Typed
        /\ saved \in 0 .. Len(typed[cur])
        /\ Lefts[cur] = Rest(typed[cur], saved)
    BY <1>1, ServedNow
  <1> DEFINE l == Len(typed[cur])
  <1>3. l \in Nat /\ saved \in 0 .. l /\ saved + 1 \in 1 .. l
    BY <1>2 DEF AtOption
  <1> HIDE DEF l
  <1>4. saved < l /\ saved # l
    BY <1>3
  <1>5. saved < Len(typed[cur]) /\ saved # Len(typed[cur])
    BY <1>4 DEF l
  <1>6. /\ Lefts[cur] # <<>> /\ Head(Lefts[cur]) = typed[cur][saved + 1]
        /\ Len(Lefts[cur]) = Len(typed[cur]) - saved
    <2>1. \A opts \in Seq(TypedOptions) : \A k \in 0 .. Len(opts) :
            (k < Len(opts) /\ k # Len(opts)) =>
              /\ Rest(opts, k) # <<>> /\ Head(Rest(opts, k)) = opts[k + 1]
              /\ Len(Rest(opts, k)) = Len(opts) - k
      BY RestOf
    <2> QED  BY <1>2, <1>5, <2>1, Zenon
  <1>7. o = typed[cur][saved + 1]
    BY DEF AtOption
  <1> QED  BY <1>2, <1>6, <1>7

\* An employee that is not found ends the request (proto.c).
LEMMA NotPresentSteps ==
  ASSUME OptionsAssumption, RequestsAssumption, IInv, NotPresent
  PROVE  S!Next
  <1>1. Serving /\ Answers("not present") /\ UNCHANGED shown
    BY DEF NotPresent
  <1>2. SUFFICES ASSUME trusted PROVE S!Next
    <2>1. trusted' = trusted
      BY <1>1 DEF Answers
    <2> QED  BY <2>1, DistrustSteps
  <1>3. PICK o : AtOption(o) /\ o.op \in {"update", "delete"} /\ ~Present(memory, o.name)
    BY NotPresentRead
  <1>4. memory = disk /\ disk \in Seq(Employees)
    BY <1>1, <1>2 DEF Serving, IInv, MemoryIsDisk, TypeOK
  <1>5. S!Named(BagOf(disk), o.name) = {}
    BY <1>3, <1>4, PresentIsNamed
  <1>6. PICK c \in Clients : c = cur /\ Lefts[c] # <<>> /\ Head(Lefts[c]) = o
    <2>1. cur \in Clients /\ Lefts[cur] # <<>> /\ Head(Lefts[cur]) = o
      BY <1>1, <1>3, OptionLeft
    <2> QED  BY <2>1, Zenon
  <1>7. S!Ends(c, "not present") /\ S!Turn(c)
    BY <1>1, <1>6, AnswerEnds
  <1>8. S!Refuse(c)
    BY <1>1, <1>3, <1>5, <1>6, <1>7, Zenon DEF S!Refuse, Lefts
  <1> QED  BY <1>8, ClientSteps

\* Behind the request, none of its options is left.
LEMMA StandsLast ==
  ASSUME OptionsAssumption, NEW opts \in Seq(TypedOptions), NEW k, NEW p,
         Stands(opts, k, p), ~(p <= Len(Body(opts).cells))
  PROVE  k = Len(opts)
  <1> DEFINE cells == Body(opts).cells
             m == Len(cells)
             n == Len(opts)
             xs == Pieces(opts)
             l == Len(Piece(opts[k + 1]))
  <1>1. PICK g : Layout(cells, xs, g) /\ p = g[k]
    BY DEF Stands
  <1>2. cells \in Seq(Nat) /\ m \in Nat /\ n \in Nat
    <2>1. Body(opts) \in Buffer
      BY BodyFits
    <2>2. cells \in Seq(Nat)
      BY <2>1 DEF Buffer
    <2> HIDE DEF cells
    <2> QED  BY <2>2
  <1> HIDE DEF cells
  <1>3. Len(xs) = n /\ \A j \in 1 .. n : xs[j] = Piece(opts[j])
    BY <1>2 DEF Pieces
  <1> HIDE DEF xs
  <1>4. /\ g \in [0 .. n -> 1 .. m + 1]
        /\ \A j \in 1 .. n : g[j] = g[j - 1] + Len(xs[j])
    BY <1>1, <1>3, Zenon DEF Layout
  <1>5. k \in 0 .. n
    BY DEF Stands
  <1>6. ~(p <= m)
    BY DEF cells
  <1>7. SUFFICES ASSUME k # n PROVE FALSE
    OBVIOUS
  <1>8. k + 1 \in 1 .. n /\ k + 1 \in 0 .. n /\ (k + 1) - 1 = k
    BY <1>2, <1>5, <1>7
  <1>9. l \in Nat /\ l >= 1
    <2>1. opts[k + 1] \in TypedOptions
      BY <1>8
    <2>2. Piece(opts[k + 1]) \in Seq(Nat) /\ Len(Piece(opts[k + 1])) >= 1
      BY <2>1, PieceFits
    <2> QED  BY <2>2
  <1>10. g[k + 1] = p + l
    BY <1>1, <1>3, <1>4, <1>8, Zenon
  <1>11. g[k + 1] \in 1 .. m + 1 /\ p \in 1 .. m + 1
    BY <1>1, <1>4, <1>5, <1>8
  <1> HIDE DEF l, m, n
  <1> QED  BY <1>2, <1>6, <1>9, <1>10, <1>11

\* The request is answered when nothing of it is left: what is left would be
\* looked for later, as options stand in their order.
LEMMA FinishSteps ==
  ASSUME OptionsAssumption, RequestsAssumption, IInv, More, Finish
  PROVE  S!Next
  <1>1. Serving /\ Answers("ok") /\ UNCHANGED shown /\ \A op \in DOMAIN Letter : ~Reads(op)
    BY DEF Finish
  <1>2. up /\ cur # NoClient /\ dirty = FALSE /\ saved \in 0 .. 3
    BY <1>1 DEF Serving, IInv, TypeOK
  <1>3. /\ cur \in Clients /\ typed[cur] \in Seq(TypedOptions) /\ typed[cur] \in Typed
        /\ saved \in 0 .. Len(typed[cur])
        /\ Lefts[cur] = Rest(typed[cur], saved)
    BY <1>2, ServedNow
  <1>4. Carried = saved
    BY <1>2 DEF Carried
  <1>5. stage = IF saved = 0 THEN 1 ELSE Letter[typed[cur][saved].op] + 1
    BY <1>2, <1>4 DEF More, AtStage
  <1>6. ~(pos <= Len(Cells))
    <2>1. SUFFICES ASSUME pos <= Len(Cells) PROVE FALSE
      OBVIOUS
    <2>2. PICK o : AtOption(o)
      BY <1>1, <2>1, InsideAtOption
    <2>3. o.op \in DOMAIN Letter /\ Cells[pos] = Letter[o.op]
      BY <2>2 DEF AtOption, TypedOptions, Letter
    <2>4. stage <= Letter[o.op]
      <3>1. CASE saved = 0
        BY <1>5, <2>3, <3>1 DEF Letter
      <3>2. CASE saved # 0
        <4>1. InOrder(typed[cur])
          BY <1>3, RequestsAssumption DEF RequestsAssumption
        <4>2. /\ saved \in DOMAIN typed[cur] /\ saved + 1 \in DOMAIN typed[cur] /\ saved < saved + 1
              /\ o = typed[cur][saved + 1]
          BY <1>2, <1>3, <2>2, <3>2 DEF AtOption
        <4>3. Letter[typed[cur][saved].op] < Letter[o.op]
          BY <4>1, <4>2, Zenon DEF InOrder
        <4>4. Letter[typed[cur][saved].op] \in Nat /\ Letter[o.op] \in Nat
          <5>1. typed[cur][saved] \in TypedOptions
            BY <1>3, <4>2
          <5>2. \A x \in TypedOptions : x.op \in DOMAIN Letter
            BY DEF TypedOptions, Letter
          <5>3. \A op \in DOMAIN Letter : Letter[op] \in Nat
            BY DEF Letter
          <5> QED  BY <2>3, <5>1, <5>2, <5>3
        <4> QED  BY <1>5, <3>2, <4>3, <4>4
      <3> QED  BY <3>1, <3>2
    <2>5. Reads(o.op)
      BY <2>1, <2>3, <2>4 DEF Reads
    <2> QED  BY <1>1, <2>3, <2>5
  <1>7. saved = Len(typed[cur])
    <2>1. PICK opts \in Typed : Before(opts)
      BY <1>1, ServingBefore
    <2>2. /\ opts = typed[cur] /\ Cells = Body(opts).cells /\ Stands(opts, saved, pos)
          /\ opts \in Seq(TypedOptions)
      BY <2>1 DEF Before
    <2> QED  BY <1>6, <2>2, StandsLast
  <1>8. PICK c \in Clients : c = cur /\ Lefts[c] = <<>>
    BY <1>3, <1>7, RestOf
  <1>9. S!Ends(c, "ok") /\ S!Turn(c)
    BY <1>1, <1>8, AnswerEnds
  <1>10. S!Answer(c)
    BY <1>1, <1>8, <1>9, Zenon DEF S!Answer, Lefts
  <1> QED  BY <1>10, ClientSteps

\* What Store counts with is what is counted with here.
LEMMA SameCardinality ==
  ASSUME NEW T
  PROVE  S!Cardinality(T) = Cardinality(T)
  BY Zenon DEF S!Cardinality, Cardinality

\* The array is a listing of its bag.
LEMMA ArrayIsListing ==
  ASSUME NEW es \in Seq(Employees)
  PROVE  S!IsListing(es, BagOf(es))
  <1> DEFINE b == BagOf(es)
  <1>1. /\ \A e : Copy(b, e) = Times(es, e)
        /\ \A e : e \in DOMAIN b <=> \E k \in DOMAIN es : es[k] = e
    BY BagCounts
  <1> HIDE DEF b
  <1>2. {es[k] : k \in DOMAIN es} = DOMAIN b
    BY <1>1
  <1>3. \A e \in DOMAIN b : Cardinality({k \in DOMAIN es : es[k] = e}) = b[e]
    BY <1>1 DEF Copy, Times, Positions
  <1>4. \A e \in DOMAIN b : S!Cardinality({k \in DOMAIN es : es[k] = e}) = b[e]
    BY <1>3, SameCardinality
  <1>5. S!IsListing(es, b)
    BY <1>2, <1>4, Zenon DEF S!IsListing, S!BagToSet
  <1> QED  BY <1>5 DEF b

\* The listing that ends a request shows the store, if it is not too long.
LEMMA ListSteps ==
  ASSUME OptionsAssumption, RequestsAssumption, IInv, More, ListOption
  PROVE  S!Next
  <1> DEFINE b == serialize_list_employee_response(memory)
  <1>1. Serving /\ Reads("list") /\ Answers("ok") /\ "list" \in DOMAIN Letter
    BY DEF ListOption, Letter
  <1>2. PICK u \in Uninit :
          shown' = [shown EXCEPT ![cur] = deserialize_list_employee_response(b.cells, u)]
    BY DEF ListOption
  <1>3. SUFFICES ASSUME trusted PROVE S!Next
    <2>1. trusted' = trusted
      BY <1>1 DEF Answers
    <2> QED  BY <2>1, DistrustSteps
  <1>4. /\ memory = disk /\ disk \in Seq(Employees) /\ Sound(disk)
        /\ shown \in [Clients -> Seq(Employees)]
    BY <1>1, <1>3 DEF Serving, IInv, MemoryIsDisk, TypeOK, Trust
  <1>5. PICK o : AtOption(o) /\ o.op = "list"
    BY <1>1, ReadsOption
  <1>6. /\ cur \in Clients /\ Lefts[cur] # <<>> /\ Head(Lefts[cur]) = o
        /\ typed[cur] \in Typed /\ Len(Lefts[cur]) = Len(typed[cur]) - saved
    BY <1>1, <1>5, OptionLeft
  <1>7. Len(Lefts[cur]) = 1
    <2> DEFINE opts == typed[cur]
               l == Len(opts)
    <2>1. opts \in Seq(TypedOptions) /\ InOrder(opts) /\ l \in Nat /\ DOMAIN opts = 1 .. l
      BY <1>6, RequestsAssumption DEF RequestsAssumption
    <2>2. saved + 1 \in 1 .. l /\ opts[saved + 1].op = "list"
      BY <1>5 DEF AtOption
    <2> HIDE DEF opts, l
    <2>3. saved \in 0 .. 3
      BY DEF IInv, TypeOK
    <2>4. ~(saved + 2 \in 1 .. l)
      <3>1. SUFFICES ASSUME saved + 2 \in 1 .. l PROVE FALSE
        OBVIOUS
      <3>2. Letter[opts[saved + 1].op] < Letter[opts[saved + 2].op]
        <4>1. saved + 1 \in DOMAIN opts /\ saved + 2 \in DOMAIN opts /\ saved + 1 < saved + 2
          BY <2>1, <2>2, <2>3, <3>1
        <4> QED  BY <2>1, <4>1, Zenon DEF InOrder
      <3>3. opts[saved + 2].op \in DOMAIN Letter
        <4>1. opts[saved + 2] \in TypedOptions
          BY <2>1, <3>1
        <4>2. \A x \in TypedOptions : x.op \in DOMAIN Letter
          BY DEF TypedOptions, Letter
        <4> QED  BY <4>1, <4>2
      <3>4. \A op \in DOMAIN Letter : ~(Letter["list"] < Letter[op])
        BY DEF Letter
      <3> QED  BY <2>2, <3>2, <3>3, <3>4
    <2>5. l - saved = 1
      BY <2>1, <2>2, <2>3, <2>4
    <2> QED  BY <1>6, <2>5 DEF opts, l
  <1> HIDE DEF b
  <1> DEFINE rows == deserialize_list_employee_response(b.cells, u)
  <1>8. rows \in Seq(Employees)
        /\ (Cardinality(S!Copies(BagOf(disk))) <= InitRows => rows = disk)
    <2> DEFINE copies == Cardinality(S!Copies(BagOf(disk)))
               n == Len(disk)
    <2>1. n \in Nat /\ copies \in Nat /\ n <= copies
      BY <1>4, CopiesAreMany
    <2>2. copies <= InitRows => n <= InitRows
      <3> HIDE DEF copies, n
      <3> QED  BY <2>1, OptionsAssumption DEF OptionsAssumption
    <2>3. \A k \in 1 .. Len(disk) : Kept(disk[k].name) /\ Kept(disk[k].address)
      <3>1. ASSUME NEW k \in 1 .. Len(disk) PROVE Kept(disk[k].name) /\ Kept(disk[k].address)
        <4>1. disk[k] \in Employees /\ Fits(disk[k].name) /\ Fits(disk[k].address)
          BY <1>4 DEF Sound
        <4>2. disk[k].name \in Seq(Nat) /\ disk[k].address \in Seq(Nat)
          BY <4>1 DEF Employees
        <4> QED  BY <4>1, <4>2, FitsNotFills DEF Kept
      <3> QED  BY <3>1
    <2>4. rows = deserialize_list_employee_response(serialize_list_employee_response(disk).cells, u)
      BY <1>4 DEF b
    <2> HIDE DEF rows, copies
    <2>5. \A es \in Seq(Employees) : \A r :
            r = deserialize_list_employee_response(serialize_list_employee_response(es).cells, u)
            => /\ r \in Seq(Employees)
               /\ (Len(es) <= InitRows /\ \A k \in 1 .. Len(es) : Kept(es[k].name) /\ Kept(es[k].address))
                  => r = es
      BY OptionsAssumption, ListingSurvives, Zenon
    <2> QED  BY <1>4, <2>2, <2>3, <2>4, <2>5, Zenon DEF copies
  <1> HIDE DEF rows
  <1>9. PICK c \in Clients : c = cur
    BY <1>6
  <1>10. shown'[c] = rows /\ \A d \in Clients \ {c} : shown'[d] = shown[d]
    BY <1>2, <1>4, <1>9 DEF rows
  <1>11. S!Cardinality(S!Copies(BagOf(disk))) <= InitRows => S!IsListing(shown'[c], BagOf(disk))
    BY <1>4, <1>8, <1>10, ArrayIsListing, SameCardinality
  <1>12. S!Ends(c, "ok") /\ S!Turn(c)
    BY <1>1, <1>9, AnswerEnds
  <1>13. Len(Lefts[c]) = 1 /\ Head(Lefts[c]).op = "list"
    BY <1>5, <1>6, <1>7, <1>9
  <1>14. S!List(c)
    BY <1>10, <1>11, <1>12, <1>13, Zenon DEF S!List, Lefts
  <1> QED  BY <1>14, ClientSteps

\* When the server ends, those that wait for it are told that they failed.
LEMMA CrashSteps ==
  ASSUME RequestsAssumption, IInv, Crash
  PROVE  S!Next
  <1>1. /\ cur' = NoClient
        /\ state' = [c \in Clients |-> IF state[c] = "sent" THEN "done" ELSE state[c]]
        /\ answer' = [c \in Clients |-> IF state[c] = "sent" THEN "unanswered" ELSE answer[c]]
        /\ UNCHANGED <<shown, disk, trusted>>
    BY DEF Crash, fileVars
  <1>2. /\ answer \in [Clients -> {"none", "ok", "not present", "unanswered"}]
        /\ cur \in Clients \cup {NoClient}
        /\ cur # NoClient => state[cur] = "sent"
    BY DEF IInv, TypeOK, Serves
  <1>3. /\ \A c \in Clients : state[c] = "sent" => state'[c] = "done" /\ answer'[c] = "unanswered"
        /\ \A c \in Clients : state[c] # "sent" => state'[c] = state[c] /\ answer'[c] = answer[c]
    BY <1>1
  <1>4. Answered' \in [Clients -> {"none", "asked", "ok", "not present", "unanswered"}]
    BY <1>2, <1>3 DEF Answered
  <1>5. ASSUME NEW c \in Clients
        PROVE  \/ Answered'[c] = Answered[c] /\ Lefts'[c] = Lefts[c]
               \/ Answered[c] \in {"none", "asked"} /\ Answered'[c] = "unanswered" /\ Lefts'[c] = <<>>
    <2>1. CASE state[c] = "sent"
      BY <1>3, <2>1 DEF Answered, Lefts, Left
    <2>2. CASE state[c] # "sent"
      BY <1>3, <2>2 DEF Answered, Lefts, Left
    <2> QED  BY <2>1, <2>2
  <1>6. cur' = IF cur # NoClient /\ Answered'[cur] = "unanswered" THEN NoClient ELSE cur
    BY <1>1, <1>2, <1>3 DEF Answered
  <1>7. BagOf(disk)' = BagOf(disk)
    BY <1>1
  <1>8. S!Fail
    BY <1>1, <1>4, <1>5, <1>6, <1>7, Zenon DEF S!Fail, Lefts, Answered
  <1> QED  BY <1>8, Zenon DEF S!Next

-----------------------------------------------------------------------------
(* The command line tool. *)

\* What the first k options asked for may make of the bag.
Reach(b, opts, g, k) ==
  IF k = 0 THEN {b} ELSE UNION {S!Outcomes(x, opts[k]) : x \in g[k - 1]}
Upto(b, opts, g) == g = [k \in 0 .. Len(opts) |-> Reach(b, opts, g, k)]

\* There is one such function: each option is looked at once.
LEMMA UptoIs ==
  ASSUME NEW b, NEW opts \in Seq(TypedOptions), Len(opts) <= 4
  PROVE  \E g : Upto(b, opts, g)
  <1> DEFINE n == Len(opts)
             Onward(F, k) == UNION {S!Outcomes(x, opts[k]) : x \in F}
             F1 == Onward({b}, 1)
             F2 == Onward(F1, 2)
             F3 == Onward(F2, 3)
             F4 == Onward(F3, 4)
             g == [k \in 0 .. n |-> IF k = 0 THEN {b} ELSE IF k = 1 THEN F1
                                    ELSE IF k = 2 THEN F2 ELSE IF k = 3 THEN F3 ELSE F4]
  <1>1. n \in Nat /\ n <= 4
    OBVIOUS
  <1>2. \A F, k : Onward(F, k) = UNION {S!Outcomes(x, opts[k]) : x \in F}
    OBVIOUS
  <1> HIDE DEF n, Onward
  <1>3. \A k \in 0 .. n : g[k] = IF k = 0 THEN {b} ELSE Onward(g[k - 1], k)
    BY <1>1
  <1> HIDE DEF g
  <1>4. \A k \in 0 .. n : g[k] = Reach(b, opts, g, k)
    BY <1>2, <1>3, Zenon DEF Reach
  <1>5. g = [k \in 0 .. n |-> g[k]]
    BY DEF g
  <1>6. g = [k \in 0 .. n |-> Reach(b, opts, g, k)]
    BY <1>4, <1>5, Zenon
  <1>7. Upto(b, opts, g)
    BY <1>6, Zenon DEF Upto, n
  <1> QED  BY <1>7

\* At most four options can stand in their order.
LEMMA FewInOrder ==
  ASSUME NEW opts \in Seq(TypedOptions), InOrder(opts)
  PROVE  Len(opts) <= 4
  <1> DEFINE n == Len(opts)
  <1>1. n \in Nat /\ DOMAIN opts = 1 .. n
    OBVIOUS
  <1> HIDE DEF n
  <1>2. SUFFICES ASSUME n > 4 PROVE FALSE
    BY <1>1 DEF n
  <1>3. {1, 2, 3, 4, 5} \subseteq DOMAIN opts
    BY <1>1, <1>2
  <1>4. \A k \in DOMAIN opts : Letter[opts[k].op] \in 1 .. 4
    <2>1. \A x \in TypedOptions : Letter[x.op] \in 1 .. 4
      BY DEF TypedOptions, Letter
    <2>2. \A k \in DOMAIN opts : opts[k] \in TypedOptions
      OBVIOUS
    <2> QED  BY <2>1, <2>2
  <1> DEFINE l(k) == Letter[opts[k].op]
  <1>5. \A j, k \in {1, 2, 3, 4, 5} : j < k => l(j) < l(k)
    BY <1>3 DEF InOrder
  <1>6. \A k \in {1, 2, 3, 4, 5} : l(k) \in 1 .. 4
    BY <1>3, <1>4
  <1> HIDE DEF l
  <1>7. l(1) < l(2) /\ l(2) < l(3) /\ l(3) < l(4) /\ l(4) < l(5)
    BY <1>5
  <1> QED  BY <1>6, <1>7

\* What went well so far is one of the outcomes of the options so far.
Seen(opts, k) == IF k <= Len(opts) THEN k ELSE Len(opts)
Good(r, opts, g, k) ==
  r.ok => r.es \in Seq(Employees) /\ BagOf(r.es) \in g[Seen(opts, k)]

\* Each step of main() keeps that.
LEMMA StepGood ==
  ASSUME OptionsAssumption, NEW b, NEW opts \in Seq(TypedOptions), NEW g, Upto(b, opts, g),
         NEW k \in 1 .. 4, NEW r, Good(r, opts, g, k - 1)
  PROVE  Good(Step(r, opts, k), opts, g, k)
  <1> DEFINE n == Len(opts)
  <1>1. n \in Nat /\ DOMAIN opts = 1 .. n
    OBVIOUS
  <1> HIDE DEF n
  <1>2. CASE k \in 1 .. n /\ r.ok
    <2> DEFINE s == Apply(r.es, opts[k])
    <2>1. Step(r, opts, k) = s /\ opts[k] \in TypedOptions
      BY <1>1, <1>2 DEF Step
    <2> HIDE DEF s
    <2>2. SUFFICES ASSUME s.ok PROVE s.es \in Seq(Employees) /\ BagOf(s.es) \in g[k]
      BY <1>1, <1>2, <2>1 DEF Good, Seen, n
    <2>3. r.es \in Seq(Employees) /\ BagOf(r.es) \in g[k - 1]
      <3>1. Seen(opts, k - 1) = k - 1
        BY <1>1, <1>2 DEF Seen, n
      <3> QED  BY <1>2, <3>1 DEF Good
    <2>4. s.es \in Seq(Employees) /\ BagOf(s.es) \in S!Outcomes(BagOf(r.es), opts[k])
      BY <2>1, <2>2, <2>3, AppliedOutcome DEF s
    <2>5. g[k] = UNION {S!Outcomes(x, opts[k]) : x \in g[k - 1]}
      <3>1. k \in 0 .. n /\ k # 0
        BY <1>1, <1>2
      <3>2. g = [j \in 0 .. n |-> Reach(b, opts, g, j)]
        BY Zenon DEF Upto, n
      <3>3. g[k] = Reach(b, opts, g, k)
        BY <3>1, <3>2, Zenon
      <3> QED  BY <3>1, <3>3, Zenon DEF Reach
    <2> DEFINE O(x) == S!Outcomes(x, opts[k])
    <2>6. BagOf(s.es) \in O(BagOf(r.es)) /\ g[k] = UNION {O(x) : x \in g[k - 1]}
      BY <2>4, <2>5
    <2> HIDE DEF O
    <2> QED  BY <2>3, <2>4, <2>6
  <1>3. CASE ~(k \in 1 .. n /\ r.ok)
    <2>1. Step(r, opts, k) = r
      BY <1>1, <1>3 DEF Step
    <2>2. r.ok => Seen(opts, k - 1) = Seen(opts, k)
      BY <1>1, <1>3 DEF Seen, n
    <2> QED  BY <2>1, <2>2 DEF Good
  <1> QED  BY <1>2, <1>3

\* What the cli has done in the end is an outcome of all its options.
LEMMA AppliedReaches ==
  ASSUME OptionsAssumption, NEW es \in Seq(Employees),
         NEW opts \in Seq(TypedOptions), Len(opts) <= 4,
         NEW g, Upto(BagOf(es), opts, g), Applied(es, opts).ok
  PROVE  BagOf(Applied(es, opts).es) \in g[Len(opts)]
  <1> DEFINE b == BagOf(es)
             n == Len(opts)
             r0 == [ok |-> TRUE, es |-> es]
             r1 == Step(r0, opts, 1)
             r2 == Step(r1, opts, 2)
             r3 == Step(r2, opts, 3)
             r4 == Step(r3, opts, 4)
  <1>1. n \in Nat /\ n <= 4
    OBVIOUS
  <1>2. Applied(es, opts) = r4
    BY DEF Applied
  <1> HIDE DEF n
  <1>3. g[0] = {b}
    <2>1. g = [j \in 0 .. n |-> Reach(b, opts, g, j)]
      BY Zenon DEF Upto, n
    <2>2. 0 \in 0 .. n
      BY <1>1
    <2>3. g[0] = Reach(b, opts, g, 0)
      BY <2>1, <2>2, Zenon
    <2> QED  BY <2>3, Zenon DEF Reach
  <1>4. Upto(b, opts, g)
    OBVIOUS
  <1> HIDE DEF b
  <1>5. Good(r0, opts, g, 0)
    BY <1>1, <1>3 DEF Good, Seen, b, n
  <1> HIDE DEF r0
  <1>6. Good(r1, opts, g, 1)
    <2>1. 1 \in 1 .. 4 /\ 1 - 1 = 0
      OBVIOUS
    <2> QED  BY <1>4, <1>5, <2>1, StepGood
  <1> HIDE DEF r1
  <1>7. Good(r2, opts, g, 2)
    <2>1. 2 \in 1 .. 4 /\ 2 - 1 = 1
      OBVIOUS
    <2> QED  BY <1>4, <1>6, <2>1, StepGood
  <1> HIDE DEF r2
  <1>8. Good(r3, opts, g, 3)
    <2>1. 3 \in 1 .. 4 /\ 3 - 1 = 2
      OBVIOUS
    <2> QED  BY <1>4, <1>7, <2>1, StepGood
  <1> HIDE DEF r3
  <1>9. Good(r4, opts, g, 4)
    <2>1. 4 \in 1 .. 4 /\ 4 - 1 = 3
      OBVIOUS
    <2> QED  BY <1>4, <1>8, <2>1, StepGood
  <1> HIDE DEF r4
  <1>10. Seen(opts, 4) = n
    <2>1. Seen(opts, 4) = IF 4 <= n THEN 4 ELSE n
      BY Zenon DEF Seen, n
    <2> QED  BY <1>1, <2>1
  <1>11. BagOf(r4.es) \in g[n]
    BY <1>2, <1>9, <1>10, Zenon DEF Good
  <1> QED  BY <1>2, <1>11 DEF n

\* What the cli saves is everything it was asked to do (cli.c main).
LEMMA ToolSteps ==
  ASSUME OptionsAssumption, RequestsAssumption, IInv, More, ToolSaves
  PROVE  S!Next
  <1>1. /\ tool = "loaded" /\ disk' = toolMemory
        /\ trusted' = (trusted /\ Sound(toolMemory))
        /\ UNCHANGED <<state, typed, answer, shown, cur, saved>>
    BY DEF ToolSaves, Writes, clientVars, requestVars
  <1>2. SUFFICES ASSUME trusted' PROVE S!Next
    BY DistrustSteps
  <1>3. trusted = TRUE /\ trusted' = TRUE /\ cur = NoClient
    <2>1. trusted /\ ~up /\ trusted \in BOOLEAN /\ trusted' = TRUE
      BY <1>1, <1>2 DEF IInv, Trust, TypeOK
    <2> QED  BY <2>1 DEF IInv, Serves
  <1>4. PICK opts \in ToolTyped : Applied(disk, opts).ok /\ Applied(disk, opts).es = toolMemory
    BY <1>1, <1>3 DEF More, Loaded
  <1>5. opts \in Seq(TypedOptions) /\ Len(opts) <= 4
    BY <1>4, RequestsAssumption, FewInOrder DEF RequestsAssumption
  <1>6. disk \in Seq(Employees)
    BY DEF IInv, TypeOK
  <1> DEFINE db == BagOf(disk)
             g == CHOOSE u : u = [k \in 0 .. Len(opts) |->
                    IF k = 0 THEN {db} ELSE UNION {S!Outcomes(x, opts[k]) : x \in u[k - 1]}]
  <1>7. Upto(db, opts, g)
    <2>1. PICK h : Upto(db, opts, h)
      BY <1>5, UptoIs
    <2>2. \A u : Upto(db, opts, u) <=> u = [k \in 0 .. Len(opts) |->
                    IF k = 0 THEN {db} ELSE UNION {S!Outcomes(x, opts[k]) : x \in u[k - 1]}]
      BY Zenon DEF Upto, Reach
    <2> HIDE DEF db
    <2> QED  BY <2>1, <2>2, Zenon
  <1>8. BagOf(disk)' \in g[Len(opts)]
    <2>1. \A es \in Seq(Employees) : \A u :
            (Upto(BagOf(es), opts, u) /\ Applied(es, opts).ok)
            => BagOf(Applied(es, opts).es) \in u[Len(opts)]
      BY <1>5, OptionsAssumption, AppliedReaches, Zenon
    <2>2. BagOf(disk)' = BagOf(toolMemory)
      BY <1>1
    <2> HIDE DEF g
    <2> QED  BY <1>4, <1>6, <1>7, <2>1, <2>2, Zenon
  <1>9. Lefts' = Lefts /\ Answered' = Answered
    BY <1>1 DEF Lefts, Left, Answered
  <1>10. S!Tool
    BY <1>1, <1>3, <1>4, <1>8, <1>9, Zenon DEF S!Tool, Lefts, Answered
  <1> QED  BY <1>10, Zenon DEF S!Next

-----------------------------------------------------------------------------
(* The refinement. *)

\* The store is a bag at first, and nobody has asked.
LEMMA InitSteps ==
  ASSUME RequestsAssumption, Init
  PROVE  S!Init
  <1>1. /\ state = [c \in Clients |-> "start"] /\ typed = [c \in Clients |-> <<>>]
        /\ answer = [c \in Clients |-> "none"] /\ shown = [c \in Clients |-> <<>>]
        /\ cur = NoClient /\ disk \in Files /\ trusted = TRUE
    BY DEF Init
  <1>2. S!IsABag(BagOf(disk))
    <2>1. disk \in Seq(Employees)
      BY <1>1, RequestsAssumption DEF RequestsAssumption
    <2> QED  BY <2>1, BagCounts
  <1>3. Lefts = [c \in Clients |-> <<>>] /\ Answered = [c \in Clients |-> "none"]
    BY <1>1 DEF Lefts, Left, Answered
  <1> QED  BY <1>1, <1>2, <1>3, Zenon DEF S!Init, Lefts, Answered

\* Every step of the program is a step of the store, or changes nothing there.
LEMMA NextSteps ==
  ASSUME OptionsAssumption, RequestsAssumption, IInv, More, [Next]_vars
  PROVE  S!Next \/ UNCHANGED S!vars
  <1>1. CASE \E c \in Clients : Send(c) \/ Take(c)
    <2>1. IInv'
      BY NextIInv
    <2> QED  BY <1>1, <2>1, SendSteps, TakeSteps
  <1>2. CASE AddOption \/ UpdateOption \/ DeleteOption
    <2>1. PICK o : Made(o)
      BY <1>2, AddMade, UpdateMade, DeleteMade
    <2> QED  BY <2>1, MadeSteps
  <1>3. CASE write_db \/ NotPresent \/ ListOption \/ Finish
    BY <1>3, SaveSteps, NotPresentSteps, ListSteps, FinishSteps
  <1>4. CASE Crash \/ Start \/ ToolLoads \/ ToolSaves
    BY <1>4, CrashSteps, StartSteps, ToolSteps
  <1>5. CASE UNCHANGED vars
    BY <1>5, StillStutters
    DEF vars, clientVars, requestVars, fileVars, toolVars, Still
  <1> QED  BY <1>1, <1>2, <1>3, <1>4, <1>5, Zenon DEF Next, Serve

\* The program keeps the promises of Store, for every value of the constants:
\* whatever clients send and whenever the server ends and starts again, each
\* option of a request is carried out once, in its order, on the file, before
\* the answer that says so (proto.c deserialize_request_options, cli.c main).
THEOREM StoreImplemented ==
  ASSUME OptionsAssumption, RequestsAssumption
  PROVE  Spec => Implements
  <1>1. IInv /\ More /\ [Next]_vars => More'
    BY NextMore, OptionsAssumption, RequestsAssumption
  <1>2. IInv /\ More /\ [Next]_vars => [S!Next]_(S!vars)
    BY NextSteps, OptionsAssumption, RequestsAssumption
  <1>3. Init => S!Init
    BY InitSteps, RequestsAssumption
  <1> QED  BY <1>1, <1>2, <1>3, InitMore, Invariance, OptionsAssumption, RequestsAssumption, PTL
    DEF Spec, Implements, S!Spec
=============================================================================
