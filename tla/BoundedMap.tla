----------------------------- MODULE BoundedMap -----------------------------
(***************************************************************************)
(* What a fixed-capacity cache promises its users: a map from keys to      *)
(* values that holds at most Capacity keys, in which a key that is present *)
(* can always be updated and an absent one is refused once the map is      *)
(* full.  Nothing disappears unless it is removed or the map is cleared.   *)
(***************************************************************************)
EXTENDS Naturals, FiniteSets

CONSTANTS Keys, Values, Capacity, NoValue

VARIABLES
  store,   \* the value of each key, NoValue when the key is absent
  call,    \* the last call and its arguments
  res      \* what it returned

vars == <<store, call, res>>

Present == {k \in Keys : store[k] # NoValue}
Result(ok, v) == [ok |-> ok, value |-> v]

Init ==
  /\ store = [k \in Keys |-> NoValue]
  /\ call = <<>>
  /\ res = Result(TRUE, NoValue)

Put(k, v) ==
  LET accepted == k \in Present \/ Cardinality(Present) < Capacity
  IN  /\ call' = <<"put", k, v>>
      /\ store' = IF accepted THEN [store EXCEPT ![k] = v] ELSE store
      /\ res' = Result(accepted, NoValue)

Get(k) ==
  /\ call' = <<"get", k>>
  /\ res' = Result(k \in Present, store[k])
  /\ UNCHANGED store

Remove(k) ==
  /\ call' = <<"remove", k>>
  /\ store' = [store EXCEPT ![k] = NoValue]
  /\ res' = Result(k \in Present, NoValue)

Clear ==
  /\ call' = <<"clear">>
  /\ store' = [k \in Keys |-> NoValue]
  /\ res' = Result(TRUE, NoValue)

Next ==
  \/ \E k \in Keys, v \in Values : Put(k, v)
  \/ \E k \in Keys : Get(k) \/ Remove(k)
  \/ Clear

Spec == Init /\ [][Next]_vars
=============================================================================
