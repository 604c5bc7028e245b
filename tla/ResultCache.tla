----------------------------- MODULE ResultCache -----------------------------
(***************************************************************************)
(* What src/src/feeds promises its callers: a cache cell that is always    *)
(* empty or one whole result, from which a query may be answered only      *)
(* while the cell is within its time to live, and which only a query that  *)
(* got a result of its own from the provider may fill.                     *)
(***************************************************************************)
EXTENDS Integers

CONSTANTS Procs, Results, Times, Ttl

VARIABLES
  now,     \* wall clock
  cell,    \* {} or {[res |-> a result, at |-> when it was stored]}
  answer,  \* [Procs -> SUBSET Results]: what a query returned, if anything
  own      \* [Procs -> SUBSET Results]: what it got from the provider

vars == <<now, cell, answer, own>>

Fresh(at) == now - at \in 0..Ttl

Init ==
  /\ now \in Times /\ cell = {}
  /\ answer = [p \in Procs |-> {}] /\ own = [p \in Procs |-> {}]

Hit(p) ==
  /\ \E c \in cell : Fresh(c.at) /\ answer' = [answer EXCEPT ![p] = {c.res}]
  /\ UNCHANGED <<now, cell, own>>

Fetch(p) ==
  /\ \E r \in Results : own' = [own EXCEPT ![p] = {r}]
  /\ UNCHANGED <<now, cell, answer>>

Drop == cell' = {} /\ UNCHANGED <<now, answer, own>>

(* A query that fetched answers with what it fetched, and may store it.    *)
Store(p) ==
  /\ own[p] # {} /\ answer' = [answer EXCEPT ![p] = own[p]]
  /\ cell' \in {{}, cell} \cup {{[res |-> r, at |-> now]} : r \in own[p]}
  /\ UNCHANGED <<now, own>>

End(p) ==
  /\ answer' = [answer EXCEPT ![p] = {}] /\ own' = [own EXCEPT ![p] = {}]
  /\ UNCHANGED <<now, cell>>

Clock == now' \in Times /\ UNCHANGED <<cell, answer, own>>

Next ==
  \/ Drop \/ Clock
  \/ \E p \in Procs : Hit(p) \/ Fetch(p) \/ Store(p) \/ End(p)

Spec == Init /\ [][Next]_vars
==============================================================================
