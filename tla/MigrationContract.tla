-------------------------- MODULE MigrationContract --------------------------
(***************************************************************************)
(* What a layout migration promises the readers of the public tree: no     *)
(* view changes before one plan is committed, every view then goes once    *)
(* from its old metadata to that plan's, and the legacy aliases, which the *)
(* old metadata names, go only when every view is new and the committed    *)
(* deadline has passed.  The layout is called single only when nothing is  *)
(* left to do.  Nothing is ever taken back.                                *)
(***************************************************************************)
EXTENDS Naturals

CONSTANTS View, Alias, None

VARIABLES plan,     \* the committed plan and its deadline, or None
          served,   \* the metadata of each view: 0 is the old one
          aliases,  \* the legacy aliases readers can fetch
          done,     \* the ledger calls the layout single
          now

Switched == \A v \in View : served[v] # 0

Init ==
  /\ plan = None
  /\ served = [v \in View |-> 0]
  /\ aliases = Alias
  /\ done = FALSE
  /\ now = 1

Commit ==
  /\ plan = None
  /\ plan' # None
  /\ UNCHANGED <<served, aliases, done, now>>

Switch(v) ==
  /\ plan # None
  /\ served[v] = 0
  /\ served' = [served EXCEPT ![v] = plan.plan]
  /\ UNCHANGED <<plan, aliases, done, now>>

Delete(a) ==
  /\ Switched
  /\ now >= plan.notBefore
  /\ aliases' = aliases \ {a}
  /\ UNCHANGED <<plan, served, done, now>>

Finish ==
  /\ Switched
  /\ aliases = {}
  /\ done' = TRUE
  /\ UNCHANGED <<plan, served, aliases, now>>

Pass ==
  /\ now' = now + 1
  /\ UNCHANGED <<plan, served, aliases, done>>

Next ==
  \/ Commit \/ Finish \/ Pass
  \/ \E v \in View : Switch(v)
  \/ \E a \in Alias : Delete(a)

Spec == Init /\ [][Next]_<<plan, served, aliases, done, now>>
=============================================================================
