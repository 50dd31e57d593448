--------------------------- MODULE LastKnownGood ---------------------------
(***************************************************************************)
(* What ProxyFlow promises of the snapshot of one subscription source      *)
(* during a session, without saying how: a snapshot is shown, and copies   *)
(* of what was shown reach the cache, in order, or are given up.           *)
(* docs/adr/0002 calls the snapshot the Last Known Good.                   *)
(***************************************************************************)
EXTENDS Naturals

CONSTANTS
    Keys,    \* subscription sources
    Gens     \* numbers that order the snapshots of a source, 0 for none

VARIABLES
    started,   \* number of the last refresh that announced itself, or 0
    shown,     \* the snapshot the user works with
    offered,   \* number of an empty result the user may accept, or 0
    unsaved,   \* snapshots shown at some time and on their way to the cache
    saved      \* the snapshot in the cache

screen == <<started, shown, offered>>
vars   == <<screen, unsaved, saved>>

Quality  == {"none", "usable", "empty"}
Snapshot == [gen : Gens, quality : Quality]
Nothing  == [gen |-> 0, quality |-> "none"]

Init ==
    /\ started = [k \in Keys |-> 0]
    /\ shown = [k \in Keys |-> Nothing]
    /\ offered = [k \in Keys |-> 0]
    /\ unsaved = [k \in Keys |-> {}]
    /\ saved = [k \in Keys |-> Nothing]

\* Copies on their way may be given up at any time.
GiveUp(k) == \E rest \in SUBSET unsaved[k] :
               unsaved' = [unsaved EXCEPT ![k] = rest]

\* A copy of s is sent to the cache, or is not.
Send(k, s) == unsaved' \in {unsaved, [unsaved EXCEPT ![k] = @ \cup {s}]}

\* A newer refresh announces itself; what was offered is withdrawn.
Announce(k, g) ==
    /\ g > started[k]
    /\ g > shown[k].gen
    /\ started' = [started EXCEPT ![k] = g]
    /\ offered' = [offered EXCEPT ![k] = 0]
    /\ UNCHANGED <<shown, unsaved, saved>>

\* Only the refresh announced last shows a result, and an empty result takes
\* the place of a usable snapshot only if it was offered.
Show(k, s) ==
    /\ s.quality # "none"
    /\ s.gen = started[k]
    /\ s.gen > shown[k].gen
    /\ shown[k].quality = "usable" /\ s.quality = "empty"
         => offered[k] = s.gen
    /\ shown' = [shown EXCEPT ![k] = s]
    /\ offered' = [offered EXCEPT ![k] = 0]
    /\ Send(k, s)
    /\ UNCHANGED <<started, saved>>

\* Its empty result is offered, or the offer is declined.
Offer(k, g) ==
    /\ g # 0 => g = started[k] /\ g > shown[k].gen
    /\ offered' = [offered EXCEPT ![k] = g]
    /\ UNCHANGED <<started, shown, unsaved, saved>>

\* The user picks a snapshot from the history; no refresh may follow it up.
Restore(k, s) ==
    /\ s.quality # "none"
    /\ s.gen > shown[k].gen
    /\ started' = [started EXCEPT ![k] = 0]
    /\ shown' = [shown EXCEPT ![k] = s]
    /\ offered' = [offered EXCEPT ![k] = 0]
    /\ Send(k, s)
    /\ UNCHANGED saved

\* The source is removed, changed or closed: the user sees nothing of it.
Blank(k) ==
    /\ started' = [started EXCEPT ![k] = 0]
    /\ shown' = [shown EXCEPT ![k] = Nothing]
    /\ offered' = [offered EXCEPT ![k] = 0]

Forget(k) == Blank(k) /\ UNCHANGED <<unsaved, saved>>

\* A copy reaches the cache, never to replace a newer one, and older copies
\* still on their way will not come after it.
Save(k, s) ==
    /\ s.gen > saved[k].gen
    /\ saved' = [saved EXCEPT ![k] = s]
    /\ \E rest \in SUBSET {t \in unsaved[k] : t.gen > s.gen} :
         unsaved' = [unsaved EXCEPT ![k] = rest]
    /\ UNCHANGED screen

\* The cache row is removed, or the attempt fails.
Erase(k) ==
    /\ saved' \in {saved, [saved EXCEPT ![k] = Nothing]}
    /\ GiveUp(k)
    /\ Blank(k) \/ UNCHANGED screen

Next ==
    \E k \in Keys :
      \/ \E g \in Gens : Announce(k, g) \/ Offer(k, g)
      \/ \E s \in Snapshot : Show(k, s) \/ Restore(k, s)
      \/ Forget(k)
      \/ \E s \in unsaved[k] : Save(k, s)
      \/ Erase(k)

Spec == Init /\ [][Next]_vars
=============================================================================
