---------------------------- MODULE AtLeastOnce ----------------------------
(***************************************************************************)
(* What a store-and-forward stage promises, whichever way it is built: it  *)
(* takes items, holds them, hands them on at least once, and forgets an    *)
(* item only after it was handed on -- or drops it, and then the item is   *)
(* in `lost' and nowhere else.  The agent's local buffer and the API's     *)
(* ingest queue both implement it.                                         *)
(***************************************************************************)
EXTENDS Naturals

CONSTANTS Item

VARIABLES
    held,       \* taken and not forgotten
    delivered,  \* handed on at least once
    lost        \* dropped without ever having been handed on

vars == <<held, delivered, lost>>

Known == held \cup delivered \cup lost

Init == held = {} /\ delivered = {} /\ lost = {}

\* The items of S are dropped; of those, the delivered ones are not a loss.
Forget(S) == lost' = lost \cup (S \ delivered)

\* Taking an item may make the stage drop others, or the item itself.
Take(i, S) ==
    /\ i \in Item \ Known
    /\ S \subseteq held \cup {i}
    /\ held' = (held \cup {i}) \ S
    /\ Forget(S)
    /\ UNCHANGED delivered

\* Handing on needs the items in hand: those of a request that is under way
\* may meanwhile have been dropped or handed on by someone else.
Deliver(S) ==
    /\ S \subseteq Known
    /\ delivered' = delivered \cup S
    /\ lost' = lost \ S
    /\ UNCHANGED held

Finish(S) ==
    /\ S \subseteq held \cap delivered
    /\ held' = held \ S
    /\ UNCHANGED <<delivered, lost>>

Lose(S) ==
    /\ S \subseteq held
    /\ held' = held \ S
    /\ Forget(S)
    /\ UNCHANGED delivered

\* A copy that was still under way when the stage forgot the items turns up
\* again: they are held once more.
Reappear(S) ==
    /\ S \subseteq delivered \cup lost
    /\ held' = held \cup S
    /\ lost' = lost \ S
    /\ UNCHANGED delivered

Next ==
    \/ \E i \in Item : \E S \in SUBSET (held \cup {i}) : Take(i, S)
    \/ \E S \in SUBSET Known : Deliver(S)
    \/ \E S \in SUBSET held : Finish(S) \/ Lose(S)
    \/ \E S \in SUBSET (delivered \cup lost) : Reappear(S)

Spec == Init /\ [][Next]_vars

-----------------------------------------------------------------------------
\* The promise: what was taken stays accounted for ...
NothingVanishes == [][Known \subseteq Known']_vars

\* ... and what was delivered stays delivered, and is never counted lost.
LostIsUndelivered == lost \cap (held \cup delivered) = {}
=============================================================================
