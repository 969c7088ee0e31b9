-------------------------- MODULE ContentStoreSpec --------------------------
(***************************************************************************)
(* What LRUContentStore promises the use cases (IContentStore): a save     *)
(* that finds memory and a free payload slot makes its content the one     *)
(* that get returns, any other save changes nothing, and a stored name     *)
(* keeps its content until it is saved again, removed or cleared.          *)
(***************************************************************************)
EXTENDS Naturals, FiniteSets

CONSTANTS Names, Contents, Capacity, NoContent

VARIABLES
  store,    \* the content of each name, NoContent when the name is absent
  call,     \* the last call and its arguments
  answer    \* what the last get returned

vars == <<store, call, answer>>

Present == {n \in Names : store[n] # NoContent}

Init ==
  /\ store = [n \in Names |-> NoContent]
  /\ call = <<>>
  /\ answer = NoContent

\* The payload is stored before the name is looked at: a full store refuses
\* even an update.
Save(n, c, memory) ==
  /\ call' = <<"save", n, c, memory>>
  /\ store' = IF memory /\ Cardinality(Present) < Capacity
              THEN [store EXCEPT ![n] = c] ELSE store
  /\ UNCHANGED answer

Get(n) ==
  /\ call' = <<"get", n>>
  /\ answer' = store[n]
  /\ UNCHANGED store

Remove(n) ==
  /\ call' = <<"remove", n>>
  /\ store' = [store EXCEPT ![n] = NoContent]
  /\ UNCHANGED answer

Clear ==
  /\ call' = <<"clear">>
  /\ store' = [n \in Names |-> NoContent]
  /\ UNCHANGED answer

Next ==
  \/ \E n \in Names, c \in Contents, memory \in BOOLEAN : Save(n, c, memory)
  \/ \E n \in Names : Get(n) \/ Remove(n)
  \/ Clear

Spec == Init /\ [][Next]_vars
=============================================================================
