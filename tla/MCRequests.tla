----------------------------- MODULE MCRequests -----------------------------
(* Names and addresses made of the characters that options begin with, of   *)
(* different lengths; hours inside and outside their width; one name as     *)
(* long as a length can say, one longer.                                    *)
EXTENDS Requests

Short == <<4>>
Long == <<3, 1>>

Add(n, h) == <<[op |-> "add", name |-> n, address |-> <<2>>, hours |-> h]>>
Update(n, h) == <<[op |-> "update", name |-> n, hours |-> h]>>
Delete(n) == <<[op |-> "delete", name |-> n]>>
List == <<[op |-> "list"]>>

Combined(as, us, ds, ls) ==
  {a \o u \o d \o l : a \in as \cup {<<>>}, u \in us \cup {<<>>},
                      d \in ds \cup {<<>>}, l \in ls \cup {<<>>}}

AllTyped ==
  Combined({Add(Long, -2)}, {Update(Long, 3)}, {Delete(Long)}, {List})
    \cup {Delete(Short), Add(<<1, 2, 4>>, 1), Add(Long, 1) \o Delete(<<4, 4, 4, 4>>),
          Add(Short, 1) \o Update(<<2>>, 0), Update(Long, 1) \o Delete(<<2>>)}

FewTyped ==
  {Add(<<1, 2, 4, 4>>, 0), Add(Short, 0) \o Delete(Short), Delete(Long),
   Add(Long, 2) \o Update(Long, 1) \o Delete(Short) \o List}

Employee(n, h) == [name |-> n, address |-> <<1>>, hours |-> h]
AtFirst == {<<>>, <<Employee(Long, 0), Employee(Short, 1), Employee(Long, 2)>>}

Junk == {<<>>, Short}
=============================================================================
