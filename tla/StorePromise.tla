----------------------------- MODULE StorePromise -----------------------------
(***************************************************************************)
(* What the profile file promises the profile service: the profile in      *)
(* memory is the profile in the store, at every moment.  The store changes *)
(* as a whole and together with the memory; ending the program forgets the *)
(* memory only; a store nobody has accepted may be set aside.              *)
(***************************************************************************)
CONSTANTS
  Profiles,  \* the contents a profile can have
  None       \* no readable store, no accepted profile

VARIABLES
  durable,   \* the profile a load of the store would give
  accepted   \* the profile in memory

promiseVars == <<durable, accepted>>

Init == durable \in Profiles \cup {None} /\ accepted = None

\* Reading the store, or rewriting the same profile in another format.
Open ==
  /\ durable # None
  /\ accepted' = durable
  /\ UNCHANGED durable

Commit ==
  /\ durable' # None /\ durable' \in Profiles
  /\ accepted' = durable'

SetAside ==
  /\ accepted = None
  /\ durable' = None
  /\ UNCHANGED accepted

Forget ==
  /\ accepted' = None
  /\ UNCHANGED durable

Next == Open \/ Commit \/ SetAside \/ Forget

Spec == Init /\ [][Next]_promiseVars
=============================================================================
