-------------------------- MODULE CheckoutDelivery --------------------------
(***************************************************************************)
(* What a delivery promises to the owner of a game checkout: the managed   *)
(* files and gams-lock.json change together or not at all.  The one        *)
(* exception is a process that dies, or that cannot record its receipt,    *)
(* in the middle: then each path that one delivery may touch is in one of  *)
(* its two versions or gone, and every other path is as it was.            *)
(***************************************************************************)
EXTENDS Integers, FiniteSets, Functions

CONSTANTS Paths,        \* files of the checkout other than the lock
          LockPath,     \* gams-lock.json
          Releases,
          Content,      \* Content[r]: the files of release r, a function
          Absent,       \* no file there
          UserBytes,    \* what a person wrote
          Unreadable    \* a lock that does not parse or names another project

VARIABLES tree,         \* the checkout, path by path
          edits,        \* edits by people so far
          faults        \* deaths and lost receipts so far

AllPaths == Paths \cup {LockPath}

\* The files the lock claims.
ManagedBy(lock) == IF lock \in Releases THEN DOMAIN Content[lock] ELSE {}

Intact(t) ==
    \A f \in ManagedBy(t[LockPath]) : t[f] = Content[t[LockPath]][f]

\* Nothing that is not ours is where release r wants to write.
RoomFor(t, r) ==
    /\ t[LockPath] \in Releases \cup {Absent}
    /\ \A f \in DOMAIN Content[r] \ ManagedBy(t[LockPath]) : t[f] = Absent

Deliverable(t, r) == Intact(t) /\ RoomFor(t, r)

Delivered(t, r) ==
    [f \in AllPaths |->
        IF f = LockPath THEN r
        ELSE IF f \in DOMAIN Content[r] THEN Content[r][f]
        ELSE IF f \in ManagedBy(t[LockPath]) THEN Absent ELSE t[f]]

Init ==
    /\ tree \in [AllPaths -> {Absent, UserBytes}] /\ tree[LockPath] = Absent
    /\ edits = 0 /\ faults = 0

Deliver(r) ==
    /\ Deliverable(tree, r)
    /\ tree' = Delivered(tree, r)
    /\ UNCHANGED <<edits, faults>>

\* A delivery of r dies on the way.
Tear(r) ==
    /\ Deliverable(tree, r)
    /\ DOMAIN tree' = AllPaths
    /\ \A f \in AllPaths :
          tree'[f] \in IF f \in DOMAIN Content[r] \cup ManagedBy(tree[LockPath]) \cup {LockPath}
                      THEN {tree[f], Delivered(tree, r)[f], Absent} ELSE {tree[f]}

Fault ==
    /\ faults' = faults + 1
    /\ UNCHANGED edits
    /\ tree' = tree \/ \E r \in Releases : Tear(r)

\* The receipt of a finished delivery was lost and its additions are removed.
Withdraw(r) ==
    /\ faults > 0
    /\ tree[LockPath] = r /\ Intact(tree)
    /\ DOMAIN tree' = AllPaths
    /\ \A f \in AllPaths :
          tree'[f] \in IF f \in DOMAIN Content[r] \cup {LockPath}
                      THEN {tree[f], Absent} ELSE {tree[f]}
    /\ UNCHANGED <<edits, faults>>

Edit(f) ==
    /\ \E b \in {Absent, IF f = LockPath THEN Unreadable ELSE UserBytes} :
          tree' = [tree EXCEPT ![f] = b]
    /\ edits' = edits + 1
    /\ UNCHANGED faults

Next == \/ \E r \in Releases : Deliver(r) \/ Withdraw(r)
        \/ \E f \in AllPaths : Edit(f)
        \/ Fault

Spec == Init /\ [][Next]_<<tree, edits, faults>>
=============================================================================
