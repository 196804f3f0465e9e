------------------------------- MODULE Lists -------------------------------
(***************************************************************************)
(* What the containers promise.  Each live container is a list; an         *)
(* operation has its whole effect or, when libc refuses memory, none; one  *)
(* whose making is refused is left empty.  Strings (StrUser) and vectors   *)
(* (VecUser) implement this.                                               *)
(***************************************************************************)
EXTENDS Workload, SequencesExt, CStrings

VARIABLE list         \* list[n], for the live containers n

Live == DOMAIN list
\* What a list may be made of: nothing, a literal, as much of one as C takes
\* for a string, or the list of a container.
Given == {<<>>} \cup Literals \cup {CStr(t) : t \in Literals}
                \cup {list[n] : n \in Live}

Become(n, new) ==
    list' = [m \in Live \cup {n} |-> IF m = n THEN new ELSE list[m]]

Create(n, t)    == n \notin Live /\ (Become(n, t) \/ Become(n, <<>>))
Cat(n, t)       == n \in Live /\ Become(n, list[n] \o t)
Insert(n, k, c) == n \in Live /\ k <= Len(list[n]) /\ Become(n, InsertAt(list[n], k + 1, c))
Set(n, k, c)    == n \in Live /\ k < Len(list[n]) /\ Become(n, [list[n] EXCEPT ![k + 1] = c])
Pop(n)          == n \in Live /\ list[n] # <<>> /\ Become(n, Front(list[n]))
Clear(n)        == n \in Live /\ Become(n, <<>>)
Destroy(n)      == n \in Live /\ list' = [m \in Live \ {n} |-> list[m]]
Move(n, m)      == /\ n \notin Live /\ m \in Live
                   /\ list' = [o \in Live \cup {n} |-> IF o = n THEN list[m]
                                                       ELSE IF o = m THEN <<>>
                                                       ELSE list[o]]

ListsInit == list = <<>>

ListsNext ==
    \E n \in Names :
        \/ \E t \in Given : Create(n, t) \/ Cat(n, t)
        \/ \E c \in Units : Cat(n, <<c>>)
        \/ \E c \in Units, k \in 0 .. MaxSize : Insert(n, k, c) \/ Set(n, k, c)
        \/ \E m \in Names : Move(n, m)
        \/ Pop(n)
        \/ Clear(n)
        \/ Destroy(n)

ListsSpec == ListsInit /\ [][ListsNext]_list
=============================================================================
