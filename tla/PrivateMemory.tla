---------------------------- MODULE PrivateMemory ----------------------------
(***************************************************************************)
(* What the support level promises a program: an address space of its own. *)
(* What its loads return changes by its own stores and by nothing else,    *)
(* whatever frames, tables, TLB and flash devices do meanwhile.            *)
(***************************************************************************)
CONSTANTS Asids, Pages, Values, Dead

VARIABLES
  content,   \* what a load returns, by address space and page; Dead without
             \* a process
  stored     \* what the process stored last

vars == <<content, stored>>

NoSpace   == [g \in Pages |-> Dead]
Only(A)   == \A b \in Asids \ A : /\ content'[b] = content[b]
                                  /\ stored'[b] = stored[b]

Init ==
  /\ content \in [Asids -> [Pages -> Values] \cup {NoSpace}]
  /\ stored = content

Start(a) ==
  /\ Only({a})
  /\ content[a] = NoSpace
  /\ content'[a] \in [Pages -> Values]
  /\ stored'[a] = content'[a]

Store(a, g) ==
  /\ Only({a})
  /\ content[a] # NoSpace
  /\ stored'[a][g] \in Values
  /\ content'[a][g] = stored'[a][g]
  /\ \A h \in Pages \ {g} : /\ content'[a][h] = content[a][h]
                            /\ stored'[a][h] = stored[a][h]

End(A) ==
  /\ Only(A)
  /\ \A a \in A : content'[a] = NoSpace /\ stored'[a] = NoSpace

Next ==
  \/ \E a \in Asids : Start(a) \/ \E g \in Pages : Store(a, g)
  \/ \E A \in SUBSET Asids : End(A)

Spec == Init /\ [][Next]_vars
=============================================================================
