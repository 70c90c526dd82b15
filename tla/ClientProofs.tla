----------------------------- MODULE ClientProofs -----------------------------
(***************************************************************************)
(* Proofs about Client, for every set of scenes and every bound on the     *)
(* versions: its type invariant, that a query shows the user's own writes  *)
(* in every scene whose calls invalidate it, that a form closes onto the   *)
(* write whose refetch it has awaited, that a form with one call whose     *)
(* control is locked while the call is pending takes effect once, and that *)
(* typed text is kept where nothing earlier can end under it.              *)
(***************************************************************************)
EXTENDS Client, FiniteSetTheorems, TLAPS

\* The versions that a submission may still make.
WritesFrom(sc, i) == Cardinality({j \in i .. Len(sc.calls) : sc.calls[j].meets})

Room(sc, r) ==
    IF r = Idle THEN 0
    ELSE IF r.step = "asked" THEN WritesFrom(sc, r.call) ELSE WritesFrom(sc, r.call + 1)

\* Every submission has room for its writes.
Fits == version + Room(scene, sub[1]) + Room(scene, sub[2]) <= MaxVersion

\* No effect and no promise is of a version that is yet to come.
PastVersions ==
    /\ owed <= version
    /\ \A s \in Slots : InFlight(s) => sub[s].took <= version

\* Data that lacks a write the client was told of is marked, and on the screen on its way;
\* a fetch under way will bring the write.
StaleIsMarked ==
    EveryWriteIsTold(scene) /\ ~spoiled =>
        /\ data # None /\ data < owed => invalid /\ (Mounted => fetch # "none")
        /\ fetch = "answered" => found >= owed

\* A submission that has been acknowledged has been promised, and when it goes on, in the form
\* it came from, the data on the screen has its write.
CaughtUp ==
    EveryWriteIsAwaited(scene) =>
        \A s \in Slots : InFlight(s) /\ sub[s].step \in {"waiting", "ready"} =>
            /\ sub[s].took <= owed
            /\ (/\ sub[s].step = "ready" /\ sub[s].whose = "mine"
                /\ Mounted /\ data # None /\ ~spoiled) => data >= sub[s].took

\* A submission of the draft that is in the form now.
Current(s) == InFlight(s) /\ sub[s].same

\* There is at most one, its form is on the screen, and what has taken effect is its doing.
OneCurrent ==
    SentOnce(scene) =>
        /\ \A s \in Slots : Current(s) =>
              sub[s].whose = "mine" /\ open /\ draft \in {"seeded", "sent"}
        /\ \A s, r \in Slots : Current(s) /\ Current(r) => s = r
        /\ ~doubt => /\ effects[1] <= 1
                     /\ effects[1] = 1 => \E s \in Slots : Current(s) /\ sub[s].step # "asked"

IInv ==
    /\ scene \in Scenes /\ TypeOK /\ Fits /\ PastVersions /\ StaleIsMarked /\ CaughtUp
    /\ OneCurrent
-----------------------------------------------------------------------------
(* Submissions.                                                            *)

\* The empty slot is no submission.
LEMMA IdleIsNoSub == Idle \notin Subs
<1>1. \A r \in Subs : r.step # "idle"
    BY DEF Subs
<1>2. Idle.step = "idle"
    BY DEF Idle
<1> QED
    BY <1>1, <1>2

\* What a step that neither sends nor takes effect may make of a submission.
Calmer(r, n) ==
    \/ n = Idle
    \/ n = r
    \/ /\ r \in Subs /\ n \in Subs
       /\ n.call = r.call /\ n.took = r.took
       /\ n.step = "asked" <=> r.step = "asked"
       /\ n.whose = "mine" => r.whose = "mine"
       /\ n.same => r.same /\ n.whose = r.whose

\* Dismissing a form and leaving its page orphan what was sent from it.
LEMMA OrphanedSubs ==
    ASSUME TypeOK, NEW w \in {"dismissed", "left"}
    PROVE  /\ Orphaned(w) \in [Slots -> Subs \cup {Idle}]
           /\ \A s \in Slots :
                /\ Calmer(sub[s], Orphaned(w)[s])
                /\ Orphaned(w)[s] # Idle /\ Orphaned(w)[s].same =>
                        sub[s] # Idle /\ sub[s].same /\ sub[s].whose = "left"
                /\ Orphaned(w)[s] # Idle =>
                        /\ sub[s] # Idle /\ Orphaned(w)[s].step = sub[s].step
                        /\ Orphaned(w)[s].whose # "mine"
<1>1. \A r \in Subs :
        LET n == [r EXCEPT !.whose = w, !.same = FALSE]
        IN  /\ n \in Subs /\ n.call = r.call /\ n.took = r.took /\ n.step = r.step
            /\ ~n.same /\ n.whose = w
    BY DEF Subs
<1>2. \A s \in Slots : sub[s] \in Subs \cup {Idle}
    BY DEF TypeOK
<1>3. \A s \in Slots : Orphaned(w)[s] =
        IF sub[s] # Idle /\ sub[s].whose # "left"
        THEN [sub[s] EXCEPT !.whose = w, !.same = FALSE] ELSE sub[s]
    BY DEF Orphaned, InFlight
<1>4. ASSUME NEW s \in Slots
      PROVE  /\ Orphaned(w)[s] \in Subs \cup {Idle}
             /\ Calmer(sub[s], Orphaned(w)[s])
             /\ Orphaned(w)[s] # Idle /\ Orphaned(w)[s].same =>
                    sub[s] # Idle /\ sub[s].same /\ sub[s].whose = "left"
             /\ Orphaned(w)[s] # Idle =>
                    /\ sub[s] # Idle /\ Orphaned(w)[s].step = sub[s].step
                    /\ Orphaned(w)[s].whose # "mine"
    <2>1. CASE sub[s] # Idle /\ sub[s].whose # "left"
        <3> DEFINE n == [sub[s] EXCEPT !.whose = w, !.same = FALSE]
        <3>1. /\ sub[s] \in Subs /\ n \in Subs /\ n.call = sub[s].call
              /\ n.took = sub[s].took /\ n.step = sub[s].step /\ ~n.same /\ n.whose = w
            BY <1>1, <1>2, <2>1
        <3>2. Orphaned(w)[s] = n
            BY <1>3, <2>1
        <3> HIDE DEF n
        <3> QED
            BY <2>1, <3>1, <3>2 DEF Calmer
    <2>2. CASE ~(sub[s] # Idle /\ sub[s].whose # "left")
        BY <1>2, <1>3, <2>2 DEF Calmer
    <2> QED
        BY <2>1, <2>2
<1> QED
    BY <1>4 DEF Orphaned

\* The end of a fetch lets go on what waited for it, and changes nothing else.
LEMMA ReleasedSubs ==
    ASSUME TypeOK
    PROVE  /\ Released(sub) \in [Slots -> Subs \cup {Idle}]
           /\ \A s \in Slots :
                /\ Calmer(sub[s], Released(sub)[s])
                /\ Released(sub)[s] = Idle <=> sub[s] = Idle
                /\ sub[s] # Idle =>
                        /\ Released(sub)[s].same = sub[s].same
                        /\ sub[s].step = "taken" => Released(sub)[s].step = "taken"
<1>1. \A r \in Subs :
        LET n == [r EXCEPT !.step = "ready"]
        IN  /\ n \in Subs /\ n.call = r.call /\ n.took = r.took /\ n.step = "ready"
            /\ n.same = r.same /\ n.whose = r.whose
    BY DEF Subs
<1>2. \A s \in Slots : sub[s] \in Subs \cup {Idle}
    BY DEF TypeOK
<1>3. \A s \in Slots : Released(sub)[s] =
        IF sub[s] # Idle /\ sub[s].step = "waiting"
        THEN [sub[s] EXCEPT !.step = "ready"] ELSE sub[s]
    BY DEF Released
<1>4. ASSUME NEW s \in Slots
      PROVE  /\ Released(sub)[s] \in Subs \cup {Idle}
             /\ Calmer(sub[s], Released(sub)[s])
             /\ Released(sub)[s] = Idle <=> sub[s] = Idle
             /\ sub[s] # Idle =>
                    /\ Released(sub)[s].same = sub[s].same
                    /\ sub[s].step = "taken" => Released(sub)[s].step = "taken"
    <2>1. CASE sub[s] # Idle /\ sub[s].step = "waiting"
        <3> DEFINE n == [sub[s] EXCEPT !.step = "ready"]
        <3>1. /\ sub[s] \in Subs /\ n \in Subs /\ n.call = sub[s].call
              /\ n.took = sub[s].took /\ n.step = "ready"
              /\ n.same = sub[s].same /\ n.whose = sub[s].whose
            BY <1>1, <1>2, <2>1
        <3>2. Released(sub)[s] = n
            BY <1>3, <2>1
        <3> HIDE DEF n
        <3> QED
            BY <2>1, <3>1, <3>2, IdleIsNoSub DEF Calmer
    <2>2. CASE ~(sub[s] # Idle /\ sub[s].step = "waiting")
        BY <1>2, <1>3, <2>2 DEF Calmer
    <2> QED
        BY <2>1, <2>2
<1> QED
    BY <1>4 DEF Released
-----------------------------------------------------------------------------
(* The bound on the versions.                                              *)

\* The writes from a call on are its own and those of the calls after it.
LEMMA WritesStep ==
    ASSUME NEW sc \in SceneTraits, NEW i \in Nat, i > 0
    PROVE  /\ WritesFrom(sc, i) \in Nat
           /\ i <= Len(sc.calls) =>
                WritesFrom(sc, i) = WritesFrom(sc, i + 1) + IF sc.calls[i].meets THEN 1 ELSE 0
<1> DEFINE n == Len(sc.calls)
           S(k) == {j \in k .. n : sc.calls[j].meets}
<1>1. n \in Nat
    BY DEF SceneTraits
<1>2. ASSUME NEW k \in Nat
      PROVE  IsFiniteSet(S(k)) /\ Cardinality(S(k)) \in Nat
    <2>1. IsFiniteSet(k .. n)
        BY <1>1, FS_Interval
    <2> QED
        BY <2>1, FS_Subset, FS_CardinalityType
<1>3. ASSUME i <= n
      PROVE  Cardinality(S(i)) = Cardinality(S(i + 1)) + IF sc.calls[i].meets THEN 1 ELSE 0
    <2>0. IsFiniteSet(S(i + 1)) /\ Cardinality(S(i + 1)) \in Nat
        BY <1>2
    <2>1. CASE sc.calls[i].meets
        <3>1. S(i) = S(i + 1) \cup {i} /\ i \notin S(i + 1)
            BY <1>1, <1>3, <2>1
        <3> HIDE DEF S
        <3>2. Cardinality(S(i + 1) \cup {i}) = Cardinality(S(i + 1)) + 1
            BY <2>0, <3>1, FS_AddElement
        <3> QED
            BY <2>1, <3>1, <3>2
    <2>2. CASE ~sc.calls[i].meets
        <3>1. S(i) = S(i + 1)
            BY <1>1, <1>3, <2>2
        <3> HIDE DEF S
        <3> QED
            BY <2>0, <2>2, <3>1
    <2> QED
        BY <2>1, <2>2
<1> QED
    BY <1>2, <1>3 DEF WritesFrom

\* The room of a submission is a number, and a calmer one needs no more.
LEMMA RoomShrinks ==
    ASSUME NEW sc \in SceneTraits, NEW r \in Subs \cup {Idle}, NEW n \in Subs \cup {Idle}
    PROVE  /\ Room(sc, r) \in Nat
           /\ Calmer(r, n) => Room(sc, n) <= Room(sc, r)
<1>1. ASSUME NEW x \in Subs \cup {Idle}
      PROVE  Room(sc, x) \in Nat
    <2>1. CASE x = Idle
        BY <2>1 DEF Room
    <2>2. CASE x # Idle
        <3>1. x \in Subs /\ x.call \in Nat /\ x.call > 0 /\ x.call + 1 \in Nat /\ x.call + 1 > 0
            BY <2>2 DEF Subs
        <3>2. WritesFrom(sc, x.call) \in Nat /\ WritesFrom(sc, x.call + 1) \in Nat
            BY <3>1, WritesStep
        <3> QED
            BY <2>2, <3>2 DEF Room
    <2> QED
        BY <2>1, <2>2
<1>2. Calmer(r, n) => Room(sc, n) = Room(sc, r) \/ n = Idle
    BY IdleIsNoSub DEF Calmer, Room
<1>3. Room(sc, Idle) = 0
    BY DEF Room
<1> QED
    BY <1>1, <1>2, <1>3

\* Reserved is the room of the two slots.
LEMMA ReservedIsRoom ==
    Reserved = Room(scene, sub[1]) + Room(scene, sub[2])
BY DEF Reserved, Room, Writes, WritesFrom, InFlight
-----------------------------------------------------------------------------
(* Steps that neither send nor take effect.                                *)

\* They keep the types of the submissions, the room and the past.
LEMMA CalmStep ==
    ASSUME TypeOK, Fits, PastVersions, scene' = scene,
           sub' \in [Slots -> Subs \cup {Idle}],
           \A s \in Slots : Calmer(sub[s], sub'[s]),
           version' = version \/
               (version' = version + 1 /\ version + Reserved < MaxVersion),
           owed' \in Nat, owed' <= version
    PROVE  /\ version' \in Versions /\ owed' \in Versions
           /\ \A s \in Slots : sub'[s] # Idle => sub'[s].call <= Len(scene'.calls)
           /\ Fits' /\ PastVersions'
<1>1. /\ scene \in SceneTraits
      /\ \A s \in Slots : sub[s] \in Subs \cup {Idle} /\ sub'[s] \in Subs \cup {Idle}
    BY DEF TypeOK
<1>2. ASSUME NEW s \in Slots
      PROVE  /\ Room(scene, sub[s]) \in Nat /\ Room(scene, sub'[s]) \in Nat
             /\ Room(scene, sub'[s]) <= Room(scene, sub[s])
    BY <1>1, RoomShrinks
<1>3. MaxVersion \in Nat /\ version \in Nat /\ version <= MaxVersion
    BY BoundAssumption DEF TypeOK, Versions
<1>4. Fits'
    BY <1>2, <1>3, ReservedIsRoom DEF Fits, Slots
<1>5. version' \in Nat /\ version' <= MaxVersion /\ version <= version'
    BY <1>2, <1>3, ReservedIsRoom DEF Slots
<1>6. ASSUME NEW s \in Slots, sub'[s] # Idle
      PROVE  sub'[s].call <= Len(scene'.calls) /\ sub'[s].took <= version'
    <2>1. sub[s] # Idle /\ sub'[s].call = sub[s].call /\ sub'[s].took = sub[s].took
        BY <1>6, IdleIsNoSub DEF Calmer
    <2>2. sub[s] \in Subs /\ sub[s].took \in Nat /\ sub[s].took <= version
        BY <1>1, <2>1, BoundAssumption DEF PastVersions, InFlight, Subs, Versions
    <2>3. sub[s].call <= Len(scene.calls)
        BY <2>1 DEF TypeOK
    <2> QED
        BY <1>3, <1>5, <2>1, <2>2, <2>3
<1>7. PastVersions'
    BY <1>3, <1>5, <1>6 DEF PastVersions, InFlight
<1> QED
    BY <1>3, <1>4, <1>5, <1>6, <1>7 DEF Versions
CalmNext ==
    \/ Open \/ Type \/ Dismiss \/ Go \/ Age \/ Poll \/ Elsewhere \/ FetchStep
    \/ \E s \in Slots : Ack(s) \/ Succeed(s) \/ Fail(s)

\* Setting the step of a submission that has taken effect.
LEMMA StepSet ==
    ASSUME NEW r \in Subs, r.step # "asked", NEW t \in {"waiting", "ready"}
    PROVE  /\ [r EXCEPT !.step = t] \in Subs
           /\ Calmer(r, [r EXCEPT !.step = t])
           /\ [r EXCEPT !.step = t].same = r.same
           /\ [r EXCEPT !.step = t].step = t
BY DEF Subs, Calmer

\* Forgetting that a submission is of the present draft.
LEMMA SameSet ==
    ASSUME NEW r \in Subs, NEW b \in BOOLEAN, b => r.same
    PROVE  /\ [r EXCEPT !.same = b] \in Subs
           /\ Calmer(r, [r EXCEPT !.same = b])
           /\ [r EXCEPT !.same = b].same = b
           /\ [r EXCEPT !.same = b].step = r.step
BY DEF Subs, Calmer

\* They leave each submission, end it, let it go on, or take it for an earlier draft's.
LEMMA CalmSubs ==
    ASSUME TypeOK, CalmNext
    PROVE  /\ sub' \in [Slots -> Subs \cup {Idle}]
           /\ \A s \in Slots : Calmer(sub[s], sub'[s])
<1>1. \A s \in Slots : sub[s] \in Subs \cup {Idle}
    BY DEF TypeOK
<1>2. CASE sub' = sub
    BY <1>2 DEF TypeOK, Calmer
<1>3. CASE Type
    <2>1. sub' = [s \in Slots |-> IF sub[s] # Idle THEN [sub[s] EXCEPT !.same = FALSE] ELSE sub[s]]
        BY <1>3 DEF Type, InFlight
    <2>2. ASSUME NEW s \in Slots
          PROVE  sub'[s] \in Subs \cup {Idle} /\ Calmer(sub[s], sub'[s])
        <3>1. CASE sub[s] = Idle
            BY <2>1, <3>1 DEF Calmer
        <3>2. CASE sub[s] # Idle
            <4>1. sub[s] \in Subs /\ sub'[s] = [sub[s] EXCEPT !.same = FALSE]
                BY <1>1, <2>1, <3>2
            <4> QED
                BY <4>1, SameSet
        <3> QED
            BY <3>1, <3>2
    <2> QED
        BY <2>1, <2>2
<1>4. ASSUME NEW w \in {"dismissed", "left"}, sub' = Orphaned(w)
      PROVE  /\ sub' \in [Slots -> Subs \cup {Idle}]
             /\ \A s \in Slots : Calmer(sub[s], sub'[s])
    BY <1>4, OrphanedSubs
<1>5. ASSUME sub' = Released(sub)
      PROVE  /\ sub' \in [Slots -> Subs \cup {Idle}]
             /\ \A s \in Slots : Calmer(sub[s], sub'[s])
    BY <1>5, ReleasedSubs
<1>6. ASSUME NEW s \in Slots, sub' = [sub EXCEPT ![s] = Idle]
      PROVE  /\ sub' \in [Slots -> Subs \cup {Idle}]
             /\ \A r \in Slots : Calmer(sub[r], sub'[r])
    BY <1>6 DEF TypeOK, Calmer
<1>7. ASSUME NEW s \in Slots, sub' = [Orphaned("dismissed") EXCEPT ![s] = Idle]
      PROVE  /\ sub' \in [Slots -> Subs \cup {Idle}]
             /\ \A r \in Slots : Calmer(sub[r], sub'[r])
    <2> DEFINE F == Orphaned("dismissed")
    <2>1. F \in [Slots -> Subs \cup {Idle}] /\ \A r \in Slots : Calmer(sub[r], F[r])
        BY OrphanedSubs
    <2>2. sub' = [F EXCEPT ![s] = Idle]
        BY <1>7
    <2> HIDE DEF F
    <2>3. \A r \in Slots : sub'[r] = IF r = s THEN Idle ELSE F[r]
        BY <2>1, <2>2
    <2>4. sub' \in [Slots -> Subs \cup {Idle}]
        BY <2>1, <2>2
    <2> QED
        BY <2>1, <2>3, <2>4 DEF Calmer
<1>8. ASSUME NEW s \in Slots, Ack(s)
      PROVE  /\ sub' \in [Slots -> Subs \cup {Idle}]
             /\ \A r \in Slots : Calmer(sub[r], sub'[r])
    <2>1. sub[s] \in Subs /\ sub[s].step # "asked"
        BY <1>1, <1>8 DEF Ack, InFlight
    <2>2. ASSUME NEW F, F \in [Slots -> Subs \cup {Idle}],
                 \A r \in Slots : Calmer(sub[r], F[r]),
                 NEW n \in Subs, Calmer(sub[s], n), sub' = [F EXCEPT ![s] = n]
          PROVE  /\ sub' \in [Slots -> Subs \cup {Idle}]
                 /\ \A r \in Slots : Calmer(sub[r], sub'[r])
        <3>1. \A r \in Slots : sub'[r] = IF r = s THEN n ELSE F[r]
            BY <2>2
        <3>2. \A r \in Slots : Calmer(sub[r], sub'[r])
            BY <2>2, <3>1
        <3> QED
            BY <2>2, <3>2
    <2>3. sub \in [Slots -> Subs \cup {Idle}] /\ \A r \in Slots : Calmer(sub[r], sub[r])
        BY DEF TypeOK, Calmer
    <2>4. CASE Unmarked(s) \/ Marked(s)
        <3> DEFINE n == [sub[s] EXCEPT !.step = "ready"]
        <3>1. n \in Subs /\ Calmer(sub[s], n)
            BY <2>1, StepSet
        <3>2. sub' = [sub EXCEPT ![s] = n]
            BY <2>4 DEF Unmarked, Marked
        <3> HIDE DEF n
        <3> QED
            BY <2>2, <2>3, <3>1, <3>2
    <2>5. CASE Refetched(s)
        <3> DEFINE t == IF Call(s).awaits THEN "waiting" ELSE "ready"
                   n == [sub[s] EXCEPT !.step = t]
        <3>1. n \in Subs /\ Calmer(sub[s], n)
            BY <2>1, StepSet
        <3>2. sub' = [sub EXCEPT ![s] = n]
            BY <2>5 DEF Refetched
        <3> HIDE DEF n
        <3> QED
            BY <2>2, <2>3, <3>1, <3>2
    <2> QED
        BY <1>8, <2>4, <2>5 DEF Ack
<1>9. ASSUME NEW s \in Slots, Kept(s)
      PROVE  /\ sub' \in [Slots -> Subs \cup {Idle}]
             /\ \A r \in Slots : Calmer(sub[r], sub'[r])
    <2>1. ASSUME NEW r \in Slots
          PROVE  sub'[r] \in Subs \cup {Idle} /\ Calmer(sub[r], sub'[r])
        <3>1. CASE r = s \/ sub[r] = Idle
            BY <1>9, <3>1 DEF Kept, InFlight, Calmer
        <3>2. CASE r # s /\ sub[r] # Idle
            <4> DEFINE b == sub[r].same /\ draft' # "seeded"
            <4>1. sub[r] \in Subs /\ sub'[r] = [sub[r] EXCEPT !.same = b]
                BY <1>1, <1>9, <3>2 DEF Kept, InFlight
            <4>2. b \in BOOLEAN /\ (b => sub[r].same)
                BY <4>1 DEF Subs
            <4> HIDE DEF b
            <4> QED
                BY <4>1, <4>2, SameSet
        <3> QED
            BY <3>1, <3>2
    <2>2. sub' = [r \in Slots |-> sub'[r]]
        BY <1>9 DEF Kept
    <2> QED
        BY <2>1, <2>2
<1>10. CASE Open \/ Age \/ Poll \/ Elsewhere \/ Serve
    BY <1>2, <1>10 DEF Open, Age, Poll, Elsewhere, Serve, page
<1>11. CASE Dismiss \/ Go
    BY <1>4, <1>11 DEF Dismiss, Go
<1>12. CASE Fetched \/ FetchFailed
    BY <1>5, <1>12 DEF Fetched, FetchFailed
<1>13. ASSUME NEW s \in Slots, Succeed(s) \/ Fail(s)
       PROVE  /\ sub' \in [Slots -> Subs \cup {Idle}]
              /\ \A r \in Slots : Calmer(sub[r], sub'[r])
    BY <1>6, <1>7, <1>9, <1>13 DEF Succeed, Fail, Closed, Gone
<1> QED
    BY <1>3, <1>8, <1>10, <1>11, <1>12, <1>13 DEF CalmNext, FetchStep
\* The other variables keep their types, and no promise is of a version to come.
LEMMA CalmTypes ==
    ASSUME TypeOK, PastVersions, CalmNext
    PROVE  /\ scene' = scene
           /\ owed' \in Nat /\ owed' <= version
           /\ version' = version \/ (version' = version + 1 /\ version + Reserved < MaxVersion)
           /\ data' \in Versions \cup {None} /\ found' \in Versions
           /\ invalid' \in BOOLEAN /\ spoiled' \in BOOLEAN /\ open' \in BOOLEAN
           /\ doubt' \in BOOLEAN
           /\ fetch' \in {"none", "asked", "answered"}
           /\ place' \in {"form", "away"}
           /\ draft' \in {"none", "seeded", "typed", "sent"}
           /\ effects' \in [1 .. Len(scene.calls) -> 0 .. 2]
<1> USE DEF TypeOK
<1>1. /\ Versions \in SUBSET Nat /\ 0 \in Versions /\ owed <= version
      /\ scene.dialog \in BOOLEAN
      /\ NoEffects \in [1 .. Len(scene.calls) -> 0 .. 2]
    BY BoundAssumption DEF Versions, PastVersions, SceneTraits, NoEffects
<1>2. CASE Open
    BY <1>1, <1>2 DEF Open, NewDraft, query
<1>3. CASE Type
    BY <1>1, <1>3 DEF Type, NewDraft, query
<1>4. CASE Dismiss
    BY <1>1, <1>4 DEF Dismiss, NewDraft, query
<1>5. CASE Go
    <2>1. place' \in {"form", "away"} /\ fetch' \in {"none", "asked", "answered"}
        BY <1>5 DEF Go
    <2> QED
        BY <1>1, <1>5, <2>1 DEF Go, FormReset, NewDraft
<1>6. CASE Age \/ Poll
    BY <1>1, <1>6 DEF Age, Poll, page
<1>7. CASE Elsewhere
    BY <1>1, <1>7 DEF Elsewhere, page, query
<1>8. CASE Serve
    BY <1>1, <1>8 DEF Serve, page
<1>9. CASE Fetched
    <2>1. spoiled' \in BOOLEAN
        BY <1>9 DEF Fetched
    <2>2. /\ draft' \in {"none", "seeded", "typed", "sent"} /\ doubt' \in BOOLEAN
          /\ effects' \in [1 .. Len(scene.calls) -> 0 .. 2]
        BY <1>1, <1>9 DEF Fetched, NewDraft
    <2> QED
        BY <1>1, <1>9, <2>1, <2>2 DEF Fetched
<1>10. CASE FetchFailed
    BY <1>1, <1>10 DEF FetchFailed, page
<1>11. ASSUME NEW s \in Slots, Ack(s)
       PROVE  /\ scene' = scene /\ version' = version /\ UNCHANGED page
              /\ owed' \in Nat /\ owed' <= version
              /\ data' \in Versions \cup {None} /\ found' \in Versions
              /\ invalid' \in BOOLEAN /\ spoiled' \in BOOLEAN
              /\ fetch' \in {"none", "asked", "answered"}
    <2>1. sub[s] \in Subs /\ sub[s].took \in Versions /\ sub[s].took <= version
        BY <1>11 DEF Ack, InFlight, PastVersions, Subs
    <2>2. owed' \in Nat /\ owed' <= version
        BY <1>1, <1>11, <2>1 DEF Ack
    <2>3. Call(s) \in CallTraits
        BY <1>11, <2>1 DEF Ack, InFlight, Call, SceneTraits, Subs
    <2>4. CASE Unmarked(s)
        <3>1. data' \in Versions \cup {None} /\ UNCHANGED <<fetch, found>>
            BY <2>1, <2>4 DEF Unmarked
        <3>2. invalid' \in BOOLEAN /\ spoiled' \in BOOLEAN
            BY <2>3, <2>4 DEF Unmarked, CallTraits
        <3> QED
            BY <1>11, <2>2, <3>1, <3>2 DEF Ack
    <2>5. CASE Refetched(s)
        <3>1. fetch' \in {"none", "asked", "answered"} /\ found' \in Versions
            BY <1>1, <2>5 DEF Refetched
        <3>2. spoiled' \in BOOLEAN
            BY <2>5 DEF Refetched
        <3>3. invalid' \in BOOLEAN /\ data' \in Versions \cup {None}
            BY <2>5 DEF Refetched
        <3> QED
            BY <1>11, <2>2, <3>1, <3>2, <3>3 DEF Ack
    <2>6. CASE Marked(s)
        <3>1. spoiled' \in BOOLEAN
            BY <2>6 DEF Marked
        <3> QED
            BY <1>11, <2>2, <2>6, <3>1 DEF Ack, Marked
    <2> QED
        BY <1>11, <2>4, <2>5, <2>6 DEF Ack
<1>12. ASSUME NEW s \in Slots, Succeed(s)
       PROVE  /\ open' \in BOOLEAN /\ draft' \in {"none", "seeded", "typed", "sent"}
              /\ doubt' \in BOOLEAN
              /\ effects' \in [1 .. Len(scene.calls) -> 0 .. 2]
    <2>1. CASE Closed(s)
        BY <1>1, <2>1 DEF Closed, NewDraft
    <2>2. CASE Kept(s)
        BY <1>1, <2>2 DEF Kept, NewDraft
    <2>3. CASE Gone(s)
        BY <2>3 DEF Gone
    <2> QED
        BY <1>12, <2>1, <2>2, <2>3 DEF Succeed
<1>13. ASSUME NEW s \in Slots, Fail(s)
       PROVE  /\ open' \in BOOLEAN /\ draft' \in {"none", "seeded", "typed", "sent"}
              /\ doubt' \in BOOLEAN
              /\ effects' \in [1 .. Len(scene.calls) -> 0 .. 2]
    <2>1. CASE Closed(s)
        BY <1>1, <2>1 DEF Closed, NewDraft
    <2>2. CASE ~Closed(s)
        <3>1. UNCHANGED <<open, draft, effects>>
            BY <1>13, <2>2 DEF Fail
        <3>2. doubt' \in BOOLEAN
            BY <1>13, <2>2 DEF Fail
        <3> QED
            BY <3>1, <3>2
    <2> QED
        BY <2>1, <2>2
<1>14. ASSUME NEW s \in Slots, Succeed(s) \/ Fail(s)
       PROVE  UNCHANGED <<scene, version, owed, query, place>>
    BY <1>14 DEF Succeed, Fail
<1> QED
    BY <1>1, <1>2, <1>3, <1>4, <1>5, <1>6, <1>7, <1>8, <1>9, <1>10, <1>11, <1>12, <1>13, <1>14
    DEF CalmNext, FetchStep, query, page

\* What a calm step keeps of the invariant but for the data and the draft.
LEMMA CalmKeepsTypes ==
    ASSUME scene \in Scenes, TypeOK, Fits, PastVersions, CalmNext
    PROVE  scene' \in Scenes /\ TypeOK' /\ Fits' /\ PastVersions'
<1>1. /\ sub' \in [Slots -> Subs \cup {Idle}]
      /\ \A s \in Slots : Calmer(sub[s], sub'[s])
    BY CalmSubs
<1>2. /\ version' \in Versions /\ owed' \in Versions
      /\ \A s \in Slots : sub'[s] # Idle => sub'[s].call <= Len(scene'.calls)
      /\ Fits' /\ PastVersions'
    BY <1>1, CalmTypes, CalmStep
<1> QED
    BY <1>1, <1>2, CalmTypes DEF TypeOK
-----------------------------------------------------------------------------
(* Steps that send or take effect.                                         *)

\* Sending reserves the versions that its calls will make.
LEMMA SubmitKeepsTypes ==
    ASSUME scene \in Scenes, TypeOK, Fits, PastVersions, NEW s \in Slots, Submit(s)
    PROVE  scene' \in Scenes /\ TypeOK' /\ Fits' /\ PastVersions'
<1> DEFINE n == [step |-> "asked", call |-> 1, took |-> 0, whose |-> "mine", same |-> TRUE]
<1>1. n \in Subs /\ n.call = 1 /\ n.took = 0 /\ n.step = "asked"
    BY BoundAssumption DEF Subs, Versions
<1>2. sub' = [sub EXCEPT ![s] = n] /\ UNCHANGED <<scene, version, owed>> /\ draft' = "sent"
    BY <1>1 DEF Submit
<1>3. UNCHANGED <<query, place, open, effects, doubt>>
    BY DEF Submit
<1> HIDE DEF n
<1>4. \A r \in Slots : sub'[r] = IF r = s THEN n ELSE sub[r]
    BY <1>2 DEF TypeOK
<1>5. scene \in SceneTraits /\ Len(scene.calls) > 0 /\ version \in Nat /\ MaxVersion \in Nat
    BY ScenesAssumption, BoundAssumption DEF TypeOK, Versions
<1>6. Room(scene, n) = Writes(1) /\ Room(scene, sub[s]) = 0
    BY <1>1, IdleIsNoSub DEF Room, Writes, WritesFrom, Submit, InFlight
<1>7. \A r \in Slots : Room(scene, sub[r]) \in Nat /\ Room(scene, n) \in Nat
    BY <1>1, <1>5, RoomShrinks DEF TypeOK
<1>8. version + Room(scene, sub[1]) + Room(scene, sub[2]) + Room(scene, n) <= MaxVersion
    BY <1>5, <1>6, <1>7, ReservedIsRoom DEF Submit, Slots
<1>9. Fits'
    BY <1>2, <1>4, <1>5, <1>6, <1>7, <1>8 DEF Fits, Slots
<1>10. PastVersions'
    BY <1>1, <1>2, <1>4, <1>5 DEF PastVersions, InFlight
<1>11. TypeOK'
    BY <1>1, <1>2, <1>3, <1>4, <1>5 DEF TypeOK, query
<1> QED
    BY <1>2, <1>9, <1>10, <1>11

\* A call takes effect in the version that was reserved for it.
LEMMA TakeKeepsTypes ==
    ASSUME scene \in Scenes, TypeOK, Fits, PastVersions, NEW s \in Slots, Take(s)
    PROVE  /\ scene' \in Scenes /\ TypeOK' /\ Fits' /\ PastVersions'
           /\ version <= version'
           /\ sub'[s] \in Subs /\ sub'[s].step = "taken" /\ sub'[s].same = sub[s].same
           /\ sub'[s].whose = sub[s].whose
           /\ \A r \in Slots \ {s} : sub'[r] = sub[r]
<1> DEFINE n == [sub[s] EXCEPT !.step = "taken", !.took = version']
           one == IF Call(s).meets THEN 1 ELSE 0
<1>1. /\ scene \in SceneTraits /\ version \in Nat /\ MaxVersion \in Nat
      /\ sub[s] \in Subs /\ sub[s].step = "asked" /\ sub[s] # Idle
      /\ sub[s].call \in Nat /\ sub[s].call > 0 /\ sub[s].call <= Len(scene.calls)
    BY BoundAssumption DEF TypeOK, Versions, Take, InFlight, Subs
<1>2. UNCHANGED <<scene, owed, query, place, open, draft, doubt>> /\ version' = version + one
    BY <1>1 DEF Take
<1>3. sub' = [sub EXCEPT ![s] = n]
    BY DEF Take
<1>4. Room(scene, sub[s]) = WritesFrom(scene, sub[s].call + 1) + one
    BY <1>1, WritesStep DEF Room, Call
<1>5. \A r \in Slots : Room(scene, sub[r]) \in Nat
    BY <1>1, RoomShrinks DEF TypeOK
<1>6. WritesFrom(scene, sub[s].call + 1) \in Nat
    BY <1>1, WritesStep
<1>7. version' \in Nat /\ version' <= MaxVersion
    BY <1>1, <1>2, <1>4, <1>5, <1>6 DEF Fits, Slots
<1>8. /\ n \in Subs /\ n.call = sub[s].call /\ n.took = version' /\ n.step = "taken"
      /\ n.same = sub[s].same /\ n.whose = sub[s].whose
    <2>1. version' \in Versions
        BY <1>1, <1>7 DEF Versions
    <2>2. \A r \in Subs, v \in Versions :
            LET e == [r EXCEPT !.step = "taken", !.took = v]
            IN  /\ e \in Subs /\ e.call = r.call /\ e.took = v /\ e.step = "taken"
                /\ e.same = r.same /\ e.whose = r.whose
        BY DEF Subs
    <2> QED
        BY <1>1, <2>1, <2>2
<1> HIDE DEF n
<1>9. \A r \in Slots : sub'[r] = IF r = s THEN n ELSE sub[r]
    BY <1>3 DEF TypeOK
<1>10. Room(scene, n) = WritesFrom(scene, sub[s].call + 1)
    BY <1>8, IdleIsNoSub DEF Room
<1>11. Fits'
    BY <1>1, <1>2, <1>4, <1>5, <1>6, <1>9, <1>10 DEF Fits, Slots
<1>12. PastVersions'
    <2>1. \A r \in Slots : sub[r] # Idle => sub[r].took \in Nat
        BY DEF TypeOK, Subs, Versions
    <2>2. owed \in Nat
        BY DEF TypeOK, Versions
    <2> QED
        BY <1>1, <1>2, <1>7, <1>8, <1>9, <2>1, <2>2 DEF PastVersions, InFlight
<1>13. effects' \in [1 .. Len(scene.calls) -> 0 .. 2]
    BY <1>1 DEF Take, TypeOK
<1>14. TypeOK'
    BY <1>1, <1>2, <1>3, <1>7, <1>8, <1>9, <1>13 DEF TypeOK, query, Versions
<1> QED
    BY <1>1, <1>2, <1>8, <1>9, <1>11, <1>12, <1>14

\* The next call needs the room that was kept for it.
LEMMA ProceedKeepsTypes ==
    ASSUME scene \in Scenes, TypeOK, Fits, PastVersions, NEW s \in Slots, Proceed(s)
    PROVE  scene' \in Scenes /\ TypeOK' /\ Fits' /\ PastVersions'
<1> DEFINE n == [sub[s] EXCEPT !.step = "asked", !.call = sub[s].call + 1]
<1>1. /\ scene \in SceneTraits /\ version \in Nat /\ MaxVersion \in Nat /\ Len(scene.calls) \in Nat
      /\ sub[s] \in Subs /\ sub[s].step = "ready" /\ sub[s] # Idle
      /\ sub[s].call \in Nat /\ sub[s].call < Len(scene.calls)
    BY BoundAssumption DEF TypeOK, Versions, Proceed, InFlight, Subs, SceneTraits
<1>2. UNCHANGED <<scene, version, owed, query, page>> /\ sub' = [sub EXCEPT ![s] = n]
    BY DEF Proceed
<1>3. n \in Subs /\ n.call = sub[s].call + 1 /\ n.took = sub[s].took /\ n.step = "asked"
    <2>1. \A r \in Subs, c \in Nat \ {0} :
            LET e == [r EXCEPT !.step = "asked", !.call = c]
            IN  e \in Subs /\ e.call = c /\ e.took = r.took /\ e.step = "asked"
        BY DEF Subs
    <2>2. sub[s].call + 1 \in Nat \ {0}
        BY <1>1
    <2> QED
        BY <1>1, <2>1, <2>2
<1> HIDE DEF n
<1>4. \A r \in Slots : sub'[r] = IF r = s THEN n ELSE sub[r]
    BY <1>2 DEF TypeOK
<1>5. Room(scene, n) = Room(scene, sub[s])
    BY <1>1, <1>3, IdleIsNoSub DEF Room
<1>6. Fits'
    BY <1>2, <1>4, <1>5 DEF Fits, Slots
<1>7. PastVersions'
    BY <1>1, <1>2, <1>3, <1>4 DEF PastVersions, InFlight
<1>8. TypeOK'
    BY <1>1, <1>2, <1>3, <1>4 DEF TypeOK, query, page
<1> QED
    BY <1>2, <1>6, <1>7, <1>8
-----------------------------------------------------------------------------
(* What the query shows.                                                   *)

\* Every step of the query and every answer keeps data that is behind marked.
LEMMA StaleStaysMarked ==
    ASSUME IInv, [Next]_vars
    PROVE  StaleIsMarked'
<1> USE DEF StaleIsMarked, EveryWriteIsTold, Mounted, QueryPlace
<1>1. /\ Versions \in SUBSET Nat /\ version \in Nat /\ owed \in Nat /\ owed <= version
      /\ found \in Nat /\ data \in Nat \cup {None} /\ None \notin Nat
      /\ StaleIsMarked
    BY BoundAssumption DEF IInv, TypeOK, Versions, PastVersions
<1>2. CASE UNCHANGED <<scene, owed, query, place>>
    BY <1>1, <1>2 DEF query
<1>3. CASE Open \/ Type \/ Dismiss \/ Elsewhere
    BY <1>2, <1>3 DEF Open, Type, Dismiss, Elsewhere, page
<1>4. ASSUME NEW s \in Slots, Submit(s) \/ Take(s) \/ Proceed(s) \/ Succeed(s) \/ Fail(s)
      PROVE  StaleIsMarked'
    BY <1>2, <1>4 DEF Submit, Take, Proceed, Succeed, Fail, page
<1>5. CASE Go
    BY <1>1, <1>5 DEF Go
<1>6. CASE Age \/ Poll
    BY <1>1, <1>6 DEF Age, Poll, page
<1>7. CASE Serve
    BY <1>1, <1>7 DEF Serve, page
<1>8. CASE Fetched
    <2>1. scene' = scene /\ data' = found /\ fetch' = "none" /\ owed' = owed
        BY <1>8 DEF Fetched
    <2>2. ~spoiled' => ~spoiled \/ ~(found < owed)
        BY <1>8 DEF Fetched
    <2>3. fetch = "answered"
        BY <1>8 DEF Fetched
    <2>4. EveryWriteIsTold(scene) /\ ~spoiled => found >= owed
        BY <1>1, <2>3
    <2> QED
        BY <1>1, <2>1, <2>2, <2>4
<1>9. CASE FetchFailed
    BY <1>1, <1>9 DEF FetchFailed, page
<1>10. ASSUME NEW s \in Slots, Ack(s)
       PROVE  StaleIsMarked'
    <2>1. scene' = scene /\ place' = place
        BY <1>10 DEF Ack, page
    <2>2. sub[s] \in Subs /\ sub[s].call \in 1 .. Len(scene.calls) /\ scene \in SceneTraits
        BY <1>10 DEF Ack, InFlight, IInv, TypeOK, Subs
    <2>3. sub[s].call \in DOMAIN scene.calls
        BY <2>2 DEF SceneTraits
    <2>4. CASE ~EveryWriteIsTold(scene)
        BY <2>1, <2>4
    <2>5. CASE EveryWriteIsTold(scene) /\ ~Call(s).stales /\ Unmarked(s)
        <3>1. ~Call(s).meets /\ ~Call(s).puts
            BY <2>3, <2>5 DEF Call
        <3>2. UNCHANGED <<owed, data, fetch, found>>
            BY <1>10, <2>5, <3>1 DEF Ack, Unmarked
        <3>3. (invalid => invalid') /\ (spoiled => spoiled')
            BY <2>5, <3>1 DEF Unmarked
        <3> QED
            BY <1>1, <2>1, <3>2, <3>3
    <2>6. CASE Mounted /\ Refetched(s)
        <3>1. invalid' /\ fetch' # "none"
            BY <2>6 DEF Refetched
        <3>2. fetch' = "answered" /\ ~spoiled' => ~(found' < owed')
            BY <2>6 DEF Refetched
        <3>3. owed' \in Nat /\ found' \in Nat
            <4>1. owed' \in Nat
                BY <1>1, <1>10, <2>2, BoundAssumption DEF Ack, Subs, Versions
            <4>2. found' \in Nat
                BY <1>1, <2>6 DEF Refetched
            <4> QED
                BY <4>1, <4>2
        <3> QED
            BY <3>1, <3>2, <3>3
    <2>7. CASE ~Mounted /\ Marked(s)
        <3>1. invalid' /\ ~Mounted' /\ found' = found
            BY <2>1, <2>7 DEF Marked
        <3>2. fetch' = "answered" /\ ~spoiled' => ~(found < owed')
            BY <2>7 DEF Marked
        <3>3. owed' \in Nat
            BY <1>1, <1>10, <2>2, BoundAssumption DEF Ack, Subs, Versions
        <3> QED
            BY <1>1, <3>1, <3>2, <3>3
    <2> QED
        BY <1>10, <2>4, <2>5, <2>6, <2>7 DEF Ack
<1>11. CASE UNCHANGED vars
    BY <1>2, <1>11 DEF vars, query, page
<1> QED
    BY <1>3, <1>4, <1>5, <1>6, <1>7, <1>8, <1>9, <1>10, <1>11 DEF Next, FetchStep, SubStep
-----------------------------------------------------------------------------
(* What a form closes onto.                                                *)

\* What a step may make of a submission without letting it go on.
Steady(r, n) ==
    n = Idle \/ n.step \in {"asked", "taken"} \/
        /\ r # Idle /\ n.step = r.step /\ n.took = r.took
        /\ n.whose = "mine" => r.whose = "mine"

\* A step that lets no submission go on and leaves the data and the pages keeps CaughtUp.
LEMMA SteadyCaughtUp ==
    ASSUME IInv, scene' = scene, owed' = owed, data' = data, spoiled' = spoiled, place' = place,
           \A s \in Slots : Steady(sub[s], sub'[s])
    PROVE  CaughtUp'
BY DEF IInv, CaughtUp, EveryWriteIsAwaited, InFlight, Steady, Mounted, QueryPlace

\* Neither do the steps in which the user acts on the form or a call takes effect or fails.
LEMMA SteadySteps ==
    ASSUME IInv,
           \/ Open \/ Type \/ Dismiss \/ Go \/ Age \/ Poll \/ Elsewhere \/ Serve
           \/ \E s \in Slots : Submit(s) \/ Take(s) \/ Proceed(s) \/ Succeed(s) \/ Fail(s)
    PROVE  \A s \in Slots : Steady(sub[s], sub'[s])
<1>1. \A s \in Slots : sub[s] \in Subs \cup {Idle}
    BY DEF IInv, TypeOK
<1>2. \A r \in Subs, b \in BOOLEAN : Steady(r, [r EXCEPT !.same = b])
    BY IdleIsNoSub DEF Subs, Steady
<1>3. ASSUME sub' = sub
      PROVE  \A s \in Slots : Steady(sub[s], sub'[s])
    BY <1>3 DEF Steady
<1>4. CASE Open \/ Age \/ Poll \/ Elsewhere \/ Serve
    BY <1>3, <1>4 DEF Open, Age, Poll, Elsewhere, Serve, page
<1>5. CASE Type
    <2>1. ASSUME NEW s \in Slots
          PROVE  Steady(sub[s], sub'[s])
        <3>1. CASE sub[s] = Idle
            BY <1>5, <3>1 DEF Type, InFlight, Steady
        <3>2. CASE sub[s] # Idle
            <4>1. sub[s] \in Subs /\ sub'[s] = [sub[s] EXCEPT !.same = FALSE]
                BY <1>1, <1>5, <3>2 DEF Type, InFlight
            <4> QED
                BY <1>2, <4>1
        <3> QED
            BY <3>1, <3>2
    <2> QED
        BY <2>1
<1>6. ASSUME NEW w \in {"dismissed", "left"}, NEW s \in Slots, sub'[s] = Orphaned(w)[s]
      PROVE  Steady(sub[s], sub'[s])
    BY <1>6, OrphanedSubs, IdleIsNoSub DEF IInv, Calmer, Steady
<1>7. CASE Dismiss \/ Go
    BY <1>6, <1>7 DEF Dismiss, Go
<1>8. ASSUME NEW s \in Slots, NEW n, sub' = [sub EXCEPT ![s] = n],
             n = Idle \/ n.step \in {"asked", "taken"}
      PROVE  \A r \in Slots : Steady(sub[r], sub'[r])
    <2>1. \A r \in Slots : sub'[r] = IF r = s THEN n ELSE sub[r]
        BY <1>8 DEF IInv, TypeOK
    <2> QED
        BY <1>8, <2>1 DEF Steady
<1>9. ASSUME NEW s \in Slots, Submit(s)
      PROVE  \A r \in Slots : Steady(sub[r], sub'[r])
    BY <1>8, <1>9 DEF Submit
<1>10. ASSUME NEW s \in Slots, Take(s)
       PROVE  \A r \in Slots : Steady(sub[r], sub'[r])
    <2>1. sub'[s].step = "taken" /\ \A r \in Slots \ {s} : sub'[r] = sub[r]
        BY <1>10, TakeKeepsTypes DEF IInv
    <2> QED
        BY <2>1 DEF Steady
<1>11. ASSUME NEW s \in Slots, Proceed(s)
       PROVE  \A r \in Slots : Steady(sub[r], sub'[r])
    <2>1. sub[s] \in Subs
        BY <1>1, <1>11 DEF Proceed, InFlight
    <2>2. [sub[s] EXCEPT !.step = "asked", !.call = sub[s].call + 1].step = "asked"
        BY <2>1 DEF Subs
    <2> QED
        BY <1>8, <1>11, <2>2 DEF Proceed
<1>12. ASSUME NEW s \in Slots, Closed(s)
       PROVE  \A r \in Slots : Steady(sub[r], sub'[r])
    <2> DEFINE F == Orphaned("dismissed")
    <2>1. F \in [Slots -> Subs \cup {Idle}]
        BY OrphanedSubs DEF IInv
    <2>2. sub' = [F EXCEPT ![s] = Idle]
        BY <1>12 DEF Closed
    <2>3. \A r \in Slots : sub'[r] = IF r = s THEN Idle ELSE F[r]
        <3> HIDE DEF F
        <3> QED
            BY <2>1, <2>2
    <2> QED
        BY <1>6, <2>3 DEF Steady
<1>13. ASSUME NEW s \in Slots, Kept(s)
       PROVE  \A r \in Slots : Steady(sub[r], sub'[r])
    <2>1. ASSUME NEW r \in Slots
          PROVE  Steady(sub[r], sub'[r])
        <3>1. CASE r = s \/ sub[r] = Idle
            BY <1>13, <3>1 DEF Kept, InFlight, Steady
        <3>2. CASE r # s /\ sub[r] # Idle
            <4> DEFINE b == sub[r].same /\ draft' # "seeded"
            <4>1. sub[r] \in Subs /\ sub'[r] = [sub[r] EXCEPT !.same = b]
                BY <1>1, <1>13, <3>2 DEF Kept, InFlight
            <4>2. b \in BOOLEAN
                BY <4>1 DEF Subs
            <4> HIDE DEF b
            <4> QED
                BY <1>2, <4>1, <4>2
        <3> QED
            BY <3>1, <3>2
    <2> QED
        BY <2>1
<1>14. ASSUME NEW s \in Slots, Succeed(s) \/ Fail(s)
       PROVE  \A r \in Slots : Steady(sub[r], sub'[r])
    BY <1>8, <1>12, <1>13, <1>14 DEF Succeed, Fail, Gone
<1> QED
    BY <1>4, <1>5, <1>7, <1>9, <1>10, <1>11, <1>14

\* The end of a fetch brings what was waited for, or spoils the data; an acknowledgement
\* that starts the fetch again leaves whoever was waiting to wait for it.
LEMMA CaughtUpStays ==
    ASSUME IInv, [Next]_vars
    PROVE  CaughtUp'
<1>1. /\ version \in Nat /\ owed \in Nat /\ found \in Nat /\ data \in Nat \cup {None}
      /\ None \notin Nat /\ StaleIsMarked /\ CaughtUp
      /\ \A s \in Slots : sub[s] \in Subs \cup {Idle}
    BY BoundAssumption DEF IInv, TypeOK, Versions
<1>2. \A s \in Slots : sub[s] # Idle =>
        sub[s] \in Subs /\ sub[s].took \in Nat /\ sub[s].took <= version
    BY <1>1, BoundAssumption DEF Subs, Versions, IInv, PastVersions, InFlight
<1>3. EveryWriteIsAwaited(scene) => EveryWriteIsTold(scene)
    BY DEF EveryWriteIsAwaited, EveryWriteIsTold
<1>4. CASE Open \/ Type \/ Dismiss \/ Age \/ Poll \/ Elsewhere \/ Serve
    BY <1>4, SteadySteps, SteadyCaughtUp
    DEF Open, Type, Dismiss, Age, Poll, Elsewhere, Serve, query, page
<1>5. ASSUME NEW s \in Slots, Submit(s) \/ Take(s) \/ Proceed(s) \/ Succeed(s) \/ Fail(s)
      PROVE  CaughtUp'
    <2>1. UNCHANGED <<scene, owed, query, place>>
        BY <1>5 DEF Submit, Take, Proceed, Succeed, Fail, page
    <2> QED
        BY <1>5, <2>1, SteadySteps, SteadyCaughtUp DEF query
<1>6. CASE Go
    <2>1. \A s \in Slots : Steady(sub[s], sub'[s])
        BY <1>6, SteadySteps
    <2>2. \A s \in Slots : sub'[s] # Idle => sub'[s].whose # "mine"
        BY <1>6, OrphanedSubs DEF Go, IInv
    <2>3. scene' = scene /\ owed' = owed
        BY <1>6 DEF Go
    <2> QED
        BY <1>1, <2>1, <2>2, <2>3 DEF CaughtUp, EveryWriteIsAwaited, InFlight, Steady
<1>7. ASSUME sub' = Released(sub), scene' = scene, owed' = owed, place' = place,
             EveryWriteIsAwaited(scene)
      PROVE  \A s \in Slots : sub'[s] # Idle /\ sub'[s].step \in {"waiting", "ready"} =>
                /\ sub[s] # Idle /\ sub'[s].took = sub[s].took /\ sub'[s].took \in Nat
                /\ sub'[s].took <= owed
    <2>1. ASSUME NEW s \in Slots, sub'[s] # Idle, sub'[s].step \in {"waiting", "ready"}
          PROVE  /\ sub[s] # Idle /\ sub'[s].took = sub[s].took /\ sub'[s].took \in Nat
                 /\ sub'[s].took <= owed
        <3>1. /\ sub[s] # Idle /\ sub'[s].took = sub[s].took
              /\ sub'[s].step = "asked" <=> sub[s].step = "asked"
              /\ sub[s].step = "taken" => sub'[s].step = "taken"
            BY <1>7, <2>1, ReleasedSubs DEF IInv, Calmer
        <3>2. sub[s].step \in {"waiting", "ready"}
            BY <1>2, <2>1, <3>1 DEF Subs
        <3> QED
            BY <1>1, <1>2, <1>7, <3>1, <3>2 DEF CaughtUp, InFlight
    <2> QED
        BY <2>1
<1>8. CASE Fetched
    <2> SUFFICES ASSUME EveryWriteIsAwaited(scene)
                 PROVE  CaughtUp'
        BY <1>8 DEF Fetched, CaughtUp, EveryWriteIsAwaited
    <2>1. /\ sub' = Released(sub) /\ scene' = scene /\ owed' = owed /\ place' = place
          /\ data' = found /\ fetch = "answered"
          /\ ~spoiled' => ~spoiled \/ ~(found < owed)
        BY <1>8 DEF Fetched
    <2>2. ~spoiled' => found >= owed
        BY <1>1, <1>3, <2>1 DEF StaleIsMarked
    <2>3. \A s \in Slots : sub'[s] # Idle /\ sub'[s].step \in {"waiting", "ready"} =>
            sub'[s].took \in Nat /\ sub'[s].took <= owed
        BY <1>7, <2>1
    <2> QED
        BY <1>1, <2>1, <2>2, <2>3 DEF CaughtUp, InFlight
<1>9. CASE FetchFailed
    <2> SUFFICES ASSUME EveryWriteIsAwaited(scene)
                 PROVE  CaughtUp'
        BY <1>9 DEF FetchFailed, CaughtUp, EveryWriteIsAwaited
    <2>1. /\ sub' = Released(sub) /\ scene' = scene /\ owed' = owed /\ place' = place /\ spoiled'
        BY <1>9 DEF FetchFailed, page
    <2>2. \A s \in Slots : sub'[s] # Idle /\ sub'[s].step \in {"waiting", "ready"} =>
            sub'[s].took <= owed
        BY <1>7, <2>1
    <2> QED
        BY <2>1, <2>2 DEF CaughtUp, InFlight
<1>10. ASSUME NEW s \in Slots, Ack(s)
       PROVE  CaughtUp'
    <2>1. scene' = scene /\ place' = place /\ sub[s] # Idle /\ sub[s].step = "taken"
        BY <1>10 DEF Ack, InFlight, page
    <2> SUFFICES ASSUME EveryWriteIsAwaited(scene)
                 PROVE  CaughtUp'
        BY <2>1 DEF CaughtUp, EveryWriteIsAwaited
    <2>2. sub[s].call \in DOMAIN scene.calls
        BY <1>1, <2>1 DEF IInv, TypeOK, SceneTraits, Subs
    <2>3. Call(s).meets /\ Call(s).stales /\ Call(s).awaits
        BY <2>2 DEF EveryWriteIsAwaited, Call
    <2>4. owed' \in Nat /\ owed <= owed' /\ sub[s].took <= owed'
        BY <1>1, <1>2, <1>10, <2>1, <2>3 DEF Ack
    <2>5. CASE Mounted /\ Refetched(s)
        <3> DEFINE n == [sub[s] EXCEPT !.step = "waiting"]
        <3>1. n \in Subs /\ n.step = "waiting" /\ n.took = sub[s].took
            BY <1>2, <2>1 DEF Subs
        <3>2. sub' = [sub EXCEPT ![s] = n]
            BY <2>3, <2>5 DEF Refetched
        <3>3. data' = data /\ (~spoiled' => ~spoiled) /\ (Mounted' => Mounted)
            BY <2>5 DEF Refetched
        <3> HIDE DEF n
        <3>4. \A r \in Slots : sub'[r] = IF r = s THEN n ELSE sub[r]
            BY <3>2 DEF IInv, TypeOK
        <3>5. ASSUME NEW r \in Slots \ {s}, sub'[r] # Idle, sub'[r].step \in {"waiting", "ready"}
              PROVE  /\ sub'[r].took <= owed'
                     /\ (/\ sub'[r].step = "ready" /\ sub'[r].whose = "mine"
                         /\ Mounted' /\ data' # None /\ ~spoiled') => data' >= sub'[r].took
            <4>1. sub'[r] = sub[r] /\ sub[r].took \in Nat /\ sub[r].took <= owed
                BY <1>1, <1>2, <3>4, <3>5 DEF CaughtUp, InFlight
            <4>2. sub'[r].took <= owed'
                BY <1>1, <2>4, <4>1
            <4>3. (/\ sub'[r].step = "ready" /\ sub'[r].whose = "mine"
                   /\ Mounted' /\ data' # None /\ ~spoiled') => data' >= sub'[r].took
                BY <1>1, <3>3, <3>5, <4>1 DEF CaughtUp, InFlight
            <4> QED
                BY <4>2, <4>3
        <3> QED
            BY <2>4, <3>1, <3>4, <3>5 DEF CaughtUp, InFlight
    <2>6. CASE ~Mounted /\ Marked(s)
        <3> DEFINE n == [sub[s] EXCEPT !.step = "ready"]
        <3>1. n \in Subs /\ n.took = sub[s].took
            BY <1>2, <2>1 DEF Subs
        <3>2. sub' = [sub EXCEPT ![s] = n]
            BY <2>6 DEF Marked
        <3> HIDE DEF n
        <3>3. \A r \in Slots : sub'[r] = IF r = s THEN n ELSE sub[r]
            BY <3>2 DEF IInv, TypeOK
        <3>4. ~Mounted'
            BY <2>1, <2>6 DEF Mounted, QueryPlace
        <3>5. ASSUME NEW r \in Slots, sub'[r] # Idle, sub'[r].step \in {"waiting", "ready"}
              PROVE  sub'[r].took <= owed'
            <4>1. CASE r = s
                BY <2>4, <3>1, <3>3, <4>1
            <4>2. CASE r # s
                <5>1. sub[r].took <= owed /\ sub[r].took \in Nat /\ sub'[r] = sub[r]
                    BY <1>1, <1>2, <3>3, <3>5, <4>2 DEF CaughtUp, InFlight
                <5> QED
                    BY <1>1, <2>4, <5>1
            <4> QED
                BY <4>1, <4>2
        <3> QED
            BY <3>4, <3>5 DEF CaughtUp, InFlight
    <2> QED
        BY <1>10, <2>3, <2>5, <2>6 DEF Ack
<1>11. CASE UNCHANGED vars
    BY <1>1, <1>11 DEF vars, query, page, CaughtUp, EveryWriteIsAwaited, InFlight, Mounted,
        QueryPlace
<1> QED
    BY <1>4, <1>5, <1>6, <1>8, <1>9, <1>10, <1>11 DEF Next, FetchStep, SubStep
-----------------------------------------------------------------------------
(* What takes effect for a draft.                                          *)

\* A step that makes nothing current keeps OneCurrent if the current submissions that
\* remain are in a form that is shown, and the effects are forgotten or still theirs.
LEMMA CalmerCurrent ==
    ASSUME IInv, scene' = scene,
           \A s \in Slots : Calmer(sub[s], sub'[s]),
           SentOnce(scene) => \A s \in Slots : Current(s)' => open' /\ draft' \in {"seeded", "sent"},
           SentOnce(scene) /\ ~doubt' =>
               \/ effects' = NoEffects
               \/ /\ effects' = effects /\ ~doubt
                  /\ \A s \in Slots : Current(s) /\ sub[s].step # "asked" => Current(s)'
    PROVE  OneCurrent'
<1> SUFFICES ASSUME SentOnce(scene)
             PROVE  OneCurrent'
    BY DEF OneCurrent, SentOnce
<1>1. \A s \in Slots : sub[s] \in Subs \cup {Idle}
    BY DEF IInv, TypeOK
<1>2. \A s \in Slots : Current(s)' =>
        /\ Current(s) /\ sub'[s].whose = sub[s].whose
        /\ sub'[s].step = "asked" <=> sub[s].step = "asked"
    BY IdleIsNoSub DEF Calmer, Current, InFlight
<1>3. \A s \in Slots : Current(s)' =>
        sub'[s].whose = "mine" /\ open' /\ draft' \in {"seeded", "sent"}
    BY <1>2 DEF IInv, OneCurrent
<1>4. \A s, r \in Slots : Current(s)' /\ Current(r)' => s = r
    BY <1>2 DEF IInv, OneCurrent
<1>5. ASSUME ~doubt'
      PROVE  /\ effects'[1] <= 1
             /\ effects'[1] = 1 => \E s \in Slots : Current(s)' /\ sub'[s].step # "asked"
    <2>1. CASE effects' = NoEffects
        <3>1. effects'[1] = 0
            BY <2>1 DEF NoEffects, SentOnce
        <3> QED
            BY <3>1
    <2>2. CASE /\ effects' = effects /\ ~doubt
               /\ \A s \in Slots : Current(s) /\ sub[s].step # "asked" => Current(s)'
        BY <1>2, <2>2 DEF IInv, OneCurrent
    <2> QED
        BY <1>5, <2>1, <2>2
<1> QED
    BY <1>3, <1>4, <1>5 DEF OneCurrent

\* The acknowledgement of a call leaves its submission current.
LEMMA AckKeepsCurrent ==
    ASSUME IInv, NEW s \in Slots, Ack(s), NEW r \in Slots, Current(r)
    PROVE  Current(r)'
<1>1. sub[s] \in Subs /\ sub[s].step # "asked" /\ sub[r] \in Subs
    BY DEF Ack, InFlight, IInv, TypeOK, Current
<1>2. CASE Unmarked(s) \/ Marked(s)
    <2> DEFINE n == [sub[s] EXCEPT !.step = "ready"]
    <2>1. n \in Subs /\ n.same = sub[s].same
        BY <1>1, StepSet
    <2>2. sub' = [sub EXCEPT ![s] = n]
        BY <1>2 DEF Unmarked, Marked
    <2> HIDE DEF n
    <2>3. sub'[r] = IF r = s THEN n ELSE sub[r]
        BY <2>2 DEF IInv, TypeOK
    <2> QED
        BY <1>1, <2>1, <2>3, IdleIsNoSub DEF Current, InFlight
<1>3. CASE Refetched(s)
    <2> DEFINE t == IF Call(s).awaits THEN "waiting" ELSE "ready"
               n == [sub[s] EXCEPT !.step = t]
    <2>1. n \in Subs /\ n.same = sub[s].same
        BY <1>1, StepSet
    <2>2. sub' = [sub EXCEPT ![s] = n]
        BY <1>3 DEF Refetched
    <2> HIDE DEF n
    <2>3. sub'[r] = IF r = s THEN n ELSE sub[r]
        BY <2>2 DEF IInv, TypeOK
    <2> QED
        BY <1>1, <2>1, <2>3, IdleIsNoSub DEF Current, InFlight
<1> QED
    BY <1>2, <1>3 DEF Ack
\* A calm step keeps what is current within its form.
LEMMA CalmKeepsCurrent ==
    ASSUME IInv, CalmNext
    PROVE  OneCurrent'
<1>1. /\ \A s \in Slots : Calmer(sub[s], sub'[s])
      /\ \A s \in Slots : sub[s] \in Subs \cup {Idle}
      /\ scene' = scene
    BY CalmSubs, CalmTypes DEF IInv, TypeOK
<1>2. \A s \in Slots : Current(s)' => Current(s)
    BY <1>1, IdleIsNoSub DEF Calmer, Current, InFlight
<1>3. SentOnce(scene) => \A s \in Slots : Current(s) =>
        sub[s].whose = "mine" /\ open /\ draft \in {"seeded", "sent"}
    BY DEF IInv, OneCurrent
<1>4. ASSUME SentOnce(scene) => \A s \in Slots : ~Current(s)', effects' = NoEffects
      PROVE  OneCurrent'
    BY <1>1, <1>4, CalmerCurrent
<1>5. CASE UNCHANGED <<page, sub>>
    <2>1. \A s \in Slots : Current(s) => Current(s)'
        BY <1>5 DEF Current, InFlight
    <2> QED
        BY <1>1, <1>2, <1>3, <1>5, <2>1, CalmerCurrent DEF page
<1>6. ASSUME NEW w \in {"dismissed", "left"}, NEW s \in Slots,
             sub'[s] = Orphaned(w)[s], SentOnce(scene)
      PROVE  ~Current(s)'
    BY <1>3, <1>6, OrphanedSubs DEF Current, InFlight, IInv
<1>7. CASE Open
    BY <1>1, <1>7, CalmerCurrent DEF Open, NewDraft
<1>8. CASE Type
    <2>1. ASSUME NEW s \in Slots
          PROVE  ~Current(s)'
        <3>1. sub[s] # Idle => sub'[s] = [sub[s] EXCEPT !.same = FALSE] /\ sub[s] \in Subs
            BY <1>1, <1>8 DEF Type, InFlight
        <3>2. sub[s] = Idle => sub'[s] = Idle
            BY <1>8 DEF Type, InFlight
        <3> QED
            BY <3>1, <3>2, SameSet DEF Current, InFlight
    <2> QED
        BY <1>4, <1>8, <2>1 DEF Type, NewDraft
<1>9. CASE Dismiss \/ Go
    BY <1>4, <1>6, <1>9 DEF Dismiss, Go, FormReset, NewDraft
<1>10. CASE Age \/ Poll \/ Elsewhere \/ Serve
    BY <1>5, <1>10 DEF Age, Poll, Elsewhere, Serve, page
<1>11. ASSUME sub' = Released(sub), open' = open,
              \/ draft' = "seeded" /\ effects' = NoEffects
              \/ UNCHANGED <<draft, effects, doubt>>
       PROVE  OneCurrent'
    <2>1. \A s \in Slots : Current(s) => Current(s)'
        BY <1>11, ReleasedSubs DEF Current, InFlight, IInv
    <2> QED
        BY <1>1, <1>2, <1>3, <1>11, <2>1, CalmerCurrent
<1>12. CASE Fetched \/ FetchFailed
    BY <1>11, <1>12 DEF Fetched, FetchFailed, NewDraft, page
<1>13. ASSUME NEW s \in Slots, Ack(s)
       PROVE  OneCurrent'
    <2>1. UNCHANGED page
        BY <1>13 DEF Ack
    <2>2. \A r \in Slots : Current(r) => Current(r)'
        BY <1>13, AckKeepsCurrent
    <2> QED
        BY <1>1, <1>2, <1>3, <2>1, <2>2, CalmerCurrent DEF page
<1>14. ASSUME NEW s \in Slots, Closed(s)
       PROVE  OneCurrent'
    <2> DEFINE F == Orphaned("dismissed")
    <2>1. F \in [Slots -> Subs \cup {Idle}]
        BY OrphanedSubs DEF IInv
    <2>2. sub' = [F EXCEPT ![s] = Idle]
        BY <1>14 DEF Closed
    <2>3. \A r \in Slots : sub'[r] = IF r = s THEN Idle ELSE F[r]
        <3> HIDE DEF F
        <3> QED
            BY <2>1, <2>2
    <2>4. ASSUME NEW r \in Slots, SentOnce(scene)
          PROVE  ~Current(r)'
        <3>1. CASE r = s
            BY <2>3, <3>1 DEF Current, InFlight
        <3>2. CASE r # s
            BY <1>6, <2>3, <2>4, <3>2
        <3> QED
            BY <3>1, <3>2
    <2> QED
        BY <1>4, <1>14, <2>4 DEF Closed, NewDraft
<1>15. ASSUME NEW s \in Slots, sub' = [sub EXCEPT ![s] = Idle],
              UNCHANGED <<open, draft, effects>>,
              SentOnce(scene) /\ ~doubt' =>
                  ~doubt /\ ~(Current(s) /\ sub[s].step # "asked")
       PROVE  OneCurrent'
    <2>1. \A r \in Slots : sub'[r] = IF r = s THEN Idle ELSE sub[r]
        BY <1>15 DEF IInv, TypeOK
    <2>2. \A r \in Slots : Current(r) /\ r # s => Current(r)'
        BY <2>1 DEF Current, InFlight
    <2> QED
        BY <1>1, <1>2, <1>3, <1>15, <2>2, CalmerCurrent
<1>16. ASSUME NEW s \in Slots, Succeed(s)
       PROVE  OneCurrent'
    <2>1. CASE Kept(s)
        <3>1. CASE draft' = "seeded"
            <4>1. effects' = NoEffects /\ open' = open
                BY <2>1, <3>1 DEF Kept, NewDraft
            <4> QED
                BY <1>1, <1>2, <1>3, <3>1, <4>1, CalmerCurrent
        <3>2. CASE draft' # "seeded"
            <4>1. UNCHANGED <<open, draft, effects, doubt>> /\ ~(draft = "sent" /\ sub[s].same)
                BY <2>1, <3>2 DEF Kept
            <4>2. SentOnce(scene) => ~Current(s)
                BY <1>3, <3>2, <4>1 DEF Current
            <4>3. ASSUME NEW r \in Slots, Current(r), r # s
                  PROVE  Current(r)'
                <5> DEFINE b == sub[r].same /\ draft' # "seeded"
                <5>1. sub[r] \in Subs /\ sub'[r] = [sub[r] EXCEPT !.same = b]
                    BY <1>1, <2>1, <4>3 DEF Kept, Current, InFlight
                <5>2. b \in BOOLEAN /\ b /\ (b => sub[r].same)
                    BY <3>2, <4>3, <5>1 DEF Subs, Current
                <5> HIDE DEF b
                <5>3. sub'[r] \in Subs /\ sub'[r].same
                    BY <5>1, <5>2, SameSet
                <5> QED
                    BY <5>3, IdleIsNoSub DEF Current, InFlight
            <4> QED
                BY <1>1, <1>2, <1>3, <4>1, <4>2, <4>3, CalmerCurrent
        <3> QED
            BY <3>1, <3>2
    <2>2. CASE ~(Continues(s) /\ open) /\ Gone(s)
        <3>1. SentOnce(scene) => ~Current(s)
            BY <1>3, <2>2 DEF Continues
        <3> QED
            BY <1>15, <2>2, <3>1 DEF Gone
    <2> QED
        BY <1>14, <1>16, <2>1, <2>2 DEF Succeed
<1>17. ASSUME NEW s \in Slots, Fail(s)
       PROVE  OneCurrent'
    <2>1. CASE Closed(s)
        BY <1>14, <2>1
    <2>2. CASE ~Closed(s)
        <3>1. /\ sub' = [sub EXCEPT ![s] = Idle] /\ UNCHANGED <<open, draft, effects>>
              /\ doubt' = (doubt \/ (sub[s].same /\ sub[s].step = "taken"))
            BY <1>17, <2>2 DEF Fail
        <3>2. sub[s].step \in {"asked", "taken"}
            BY <1>17 DEF Fail
        <3>3. ~doubt' => ~doubt /\ ~(Current(s) /\ sub[s].step # "asked")
            BY <3>1, <3>2 DEF Current
        <3> QED
            BY <1>15, <3>1, <3>3
    <2> QED
        BY <2>1, <2>2
<1> QED
    BY <1>7, <1>8, <1>9, <1>10, <1>12, <1>13, <1>16, <1>17 DEF CalmNext, FetchStep

\* The lock, or the change of what was picked, keeps a second submission of one draft out.
LEMMA SubmitKeepsCurrent ==
    ASSUME IInv, NEW s \in Slots, Submit(s)
    PROVE  OneCurrent'
<1> DEFINE n == [step |-> "asked", call |-> 1, took |-> 0, whose |-> "mine", same |-> TRUE]
<1>1. /\ sub' = [sub EXCEPT ![s] = n] /\ draft' = "sent" /\ open
      /\ UNCHANGED <<scene, open, effects, doubt>>
    BY DEF Submit
<1>2. n.same /\ n.whose = "mine" /\ n.step = "asked" /\ n # Idle
    BY DEF Idle
<1> HIDE DEF n
<1>3. \A r \in Slots : sub'[r] = IF r = s THEN n ELSE sub[r]
    BY <1>1 DEF IInv, TypeOK
<1>4. SUFFICES ASSUME SentOnce(scene)
               PROVE  OneCurrent'
    BY <1>1 DEF OneCurrent, SentOnce
<1>5. \A r \in Slots : ~Current(r)
    <2> SUFFICES ASSUME NEW r \in Slots, Current(r)
                 PROVE  FALSE
        OBVIOUS
    <2>1. sub[r].whose = "mine" /\ draft \in {"seeded", "sent"}
        BY <1>4 DEF IInv, OneCurrent
    <2>2. Busy
        BY <2>1 DEF Busy, Seen, Current
    <2>3. scene.picks /\ scene.types
        BY <1>4, <2>2 DEF SentOnce, Submit
    <2>4. draft = "typed"
        BY <2>3 DEF Submit
    <2> QED
        BY <2>1, <2>4
<1>6. \A r \in Slots : Current(r)' => r = s /\ sub'[r] = n
    BY <1>3, <1>5 DEF Current, InFlight
<1>7. ~doubt => effects[1] <= 1 /\ effects[1] # 1
    BY <1>4, <1>5 DEF IInv, OneCurrent
<1> QED
    BY <1>1, <1>2, <1>6, <1>7 DEF OneCurrent

\* A call takes effect for a draft that has had no effect, or for none.
LEMMA TakeKeepsCurrent ==
    ASSUME IInv, NEW s \in Slots, Take(s)
    PROVE  OneCurrent'
<1>1. /\ sub'[s] \in Subs /\ sub'[s].step = "taken" /\ sub'[s].same = sub[s].same
      /\ sub'[s].whose = sub[s].whose
      /\ \A r \in Slots \ {s} : sub'[r] = sub[r]
    BY TakeKeepsTypes DEF IInv
<1>2. sub[s] # Idle /\ sub[s].step = "asked" /\ UNCHANGED <<scene, open, draft, doubt>>
    BY DEF Take, InFlight
<1>3. effects' = IF sub[s].same /\ effects[sub[s].call] < 2
                 THEN [effects EXCEPT ![sub[s].call] = effects[sub[s].call] + 1] ELSE effects
    BY DEF Take
<1>4. SUFFICES ASSUME SentOnce(scene)
               PROVE  OneCurrent'
    BY <1>2 DEF OneCurrent, SentOnce
<1>5. \A r \in Slots : /\ Current(r)' <=> Current(r)
                       /\ Current(r) => sub'[r].whose = sub[r].whose
    BY <1>1, <1>2, IdleIsNoSub DEF Current, InFlight
<1>6. sub[s].call = 1 /\ effects \in [1 .. 1 -> 0 .. 2]
    BY <1>2, <1>4 DEF IInv, TypeOK, Subs, SentOnce
<1>7. ASSUME ~doubt'
      PROVE  /\ effects'[1] <= 1
             /\ effects'[1] = 1 => \E r \in Slots : Current(r)' /\ sub'[r].step # "asked"
    <2>1. /\ effects[1] <= 1
          /\ effects[1] = 1 => \E r \in Slots : Current(r) /\ sub[r].step # "asked"
        BY <1>2, <1>4, <1>7 DEF IInv, OneCurrent
    <2>2. CASE Current(s)
        <3>1. \A r \in Slots : Current(r) => r = s
            BY <1>4, <2>2 DEF IInv, OneCurrent
        <3>2. effects[1] = 0
            BY <1>2, <1>6, <2>1, <3>1
        <3>3. effects'[1] <= 1
            BY <1>3, <1>6, <3>2
        <3> QED
            BY <1>1, <1>5, <2>2, <3>3
    <2>3. CASE ~Current(s)
        <3>1. effects' = effects
            BY <1>2, <1>3, <2>3 DEF Current, InFlight
        <3> QED
            BY <1>1, <1>5, <2>1, <2>3, <3>1
    <2> QED
        BY <2>2, <2>3
<1>8. \A r \in Slots : Current(r)' =>
        sub'[r].whose = "mine" /\ open' /\ draft' \in {"seeded", "sent"}
    BY <1>2, <1>4, <1>5 DEF IInv, OneCurrent
<1>9. \A r, q \in Slots : Current(r)' /\ Current(q)' => r = q
    BY <1>4, <1>5 DEF IInv, OneCurrent
<1> QED
    BY <1>7, <1>8, <1>9 DEF OneCurrent

\* A form with one call has no next one.
LEMMA ProceedKeepsCurrent ==
    ASSUME IInv, NEW s \in Slots, Proceed(s)
    PROVE  OneCurrent'
<1>1. scene' = scene /\ sub[s] \in Subs /\ sub[s].call < Len(scene.calls)
    BY DEF Proceed, InFlight, IInv, TypeOK
<1>2. sub[s].call \in Nat /\ sub[s].call > 0 /\ Len(scene.calls) \in Nat
    BY <1>1 DEF Subs, IInv, TypeOK, SceneTraits
<1>3. Len(scene.calls) # 1
    <2> DEFINE n == Len(scene.calls)
               c == sub[s].call
    <2>1. c \in Nat /\ c > 0 /\ n \in Nat /\ c < n
        BY <1>1, <1>2
    <2> HIDE DEF n, c
    <2>2. n # 1
        BY <2>1
    <2> QED
        BY <2>2 DEF n
<1> QED
    BY <1>1, <1>3 DEF OneCurrent, SentOnce
-----------------------------------------------------------------------------
(* The invariant.                                                          *)

LEMMA InitHolds == Init => IInv
<1> SUFFICES ASSUME Init
             PROVE  IInv
    OBVIOUS
<1> USE DEF Init
<1>1. scene \in Scenes /\ scene \in SceneTraits /\ Len(scene.calls) > 0
    BY ScenesAssumption
<1>2. /\ 0 \in Versions /\ MaxVersion \in Nat /\ \A s \in Slots : sub[s] = Idle
      /\ NoEffects \in [1 .. Len(scene.calls) -> 0 .. 2]
    BY BoundAssumption DEF Versions, NoEffects
<1>3. TypeOK
    <2>1. open \in BOOLEAN
        BY <1>1 DEF SceneTraits
    <2> QED
        BY <1>1, <1>2, <2>1 DEF TypeOK
<1>4. Fits
    BY <1>2 DEF Fits, Room, Slots
<1>5. PastVersions
    BY <1>2 DEF PastVersions, InFlight
<1>6. StaleIsMarked /\ CaughtUp
    BY <1>2 DEF StaleIsMarked, CaughtUp, InFlight
<1>7. OneCurrent
    <2>1. SentOnce(scene) => effects[1] = 0
        BY DEF SentOnce, NoEffects
    <2> QED
        BY <1>2, <2>1 DEF OneCurrent, Current, InFlight
<1> QED
    BY <1>1, <1>3, <1>4, <1>5, <1>6, <1>7 DEF IInv

LEMMA StepHolds == IInv /\ [Next]_vars => IInv'
<1> SUFFICES ASSUME IInv, [Next]_vars
             PROVE  IInv'
    OBVIOUS
<1>1. scene \in Scenes /\ TypeOK /\ Fits /\ PastVersions
    BY DEF IInv
<1>2. StaleIsMarked' /\ CaughtUp'
    BY StaleStaysMarked, CaughtUpStays
<1>3. CASE CalmNext
    BY <1>1, <1>2, <1>3, CalmKeepsTypes, CalmKeepsCurrent DEF IInv
<1>4. ASSUME NEW s \in Slots, Submit(s)
      PROVE  IInv'
    BY <1>1, <1>2, <1>4, SubmitKeepsTypes, SubmitKeepsCurrent DEF IInv
<1>5. ASSUME NEW s \in Slots, Take(s)
      PROVE  IInv'
    BY <1>1, <1>2, <1>5, TakeKeepsTypes, TakeKeepsCurrent DEF IInv
<1>6. ASSUME NEW s \in Slots, Proceed(s)
      PROVE  IInv'
    BY <1>1, <1>2, <1>6, ProceedKeepsTypes, ProceedKeepsCurrent DEF IInv
<1>7. CASE UNCHANGED vars
    BY <1>2, <1>7 DEF vars, query, page, IInv, TypeOK, Fits, PastVersions, OneCurrent,
        InFlight, SentOnce, Current
<1> QED
    BY <1>3, <1>4, <1>5, <1>6, <1>7 DEF Next, SubStep, CalmNext, FetchStep

\* The inductive invariant holds for every set of scenes and every bound.
THEOREM ClientInvariant == Spec => []IInv
    BY InitHolds, StepHolds, PTL DEF Spec

\* The variables keep their types and the versions their bound.
THEOREM ClientTypeCorrect == Spec => []TypeOK
<1>1. IInv => TypeOK
    BY DEF IInv
<1> QED
    BY <1>1, ClientInvariant, PTL

\* A query whose writers all invalidate it never shows data from before a write that the
\* client was told of, however the writes, the answers, the fetches and the user's way
\* through the pages interleave (lib/queryClient.ts, the hooks of api/hooks), unless the
\* fetch that was to show the write failed or was served before it.
THEOREM ClientOwnWriteIsShown == Spec => [](EveryWriteIsTold(scene) => OwnWriteIsShown)
<1>1. IInv => (EveryWriteIsTold(scene) => OwnWriteIsShown)
    BY BoundAssumption DEF IInv, TypeOK, Versions, StaleIsMarked, OwnWriteIsShown
<1> QED
    BY <1>1, ClientInvariant, PTL

\* A form whose hooks return the promise of the invalidation closes onto a list that has its
\* write, although other submissions cancel and restart the refetch it waits for, in every
\* scene each of whose calls writes what the list shows.
THEOREM ClientClosesOntoOwnWrite ==
    Spec /\ [](\A i \in DOMAIN scene.calls : scene.calls[i].meets) => ClosesOntoOwnWrite
<1>1. IInv /\ (\A i \in DOMAIN scene.calls : scene.calls[i].meets) =>
        (\A s \in Slots :
            (/\ InFlight(s) /\ sub'[s] = Idle /\ sub[s].step = "ready" /\ sub[s].whose = "mine"
             /\ \A i \in 1 .. Len(scene.calls) : scene.calls[i].stales /\ scene.calls[i].awaits
             /\ Mounted /\ data # None /\ ~spoiled)
            => data >= sub[s].took)
    <2>1. TypeOK => DOMAIN scene.calls = 1 .. Len(scene.calls)
        BY DEF TypeOK, SceneTraits
    <2> QED
        BY <2>1 DEF IInv, CaughtUp, EveryWriteIsAwaited
<1> QED
    BY <1>1, ClientInvariant, PTL DEF ClosesOntoOwnWrite

\* A form of one call, locked while the call is pending (components/ui/Button), takes effect
\* once for what was typed once, through dismissals, reopenings and refusals.
THEOREM ClientEffectOnce == Spec => [](SentOnce(scene) => EffectOnce)
<1>1. IInv => (SentOnce(scene) => EffectOnce)
    BY DEF IInv, TypeOK, SentOnce, OneCurrent, EffectOnce
<1> QED
    BY <1>1, ClientInvariant, PTL
-----------------------------------------------------------------------------
(* What has been typed.                                                    *)

\* What is typed is typed where one can type, a frozen form holds nothing typed since it sent,
\* and one that cannot be dismissed has only ended with what it had sent.
TypedLate ==
    /\ ~scene.types => draft # "typed"
    /\ scene.freezes => \A s \in Slots : InFlight(s) /\ sub[s].whose = "mine" => draft # "typed"
    /\ ~scene.dialog => \A s \in Slots : InFlight(s) /\ sub[s].whose = "dismissed" => ~open

\* A submission ends or stays whose it was.
SameWhose(r, n) == n = Idle \/ (r # Idle /\ n.whose = r.whose)

\* No step but dismissing, leaving, closing and sending changes whose a submission is.
LEMMA WhoseStays ==
    ASSUME TypeOK,
           \/ sub' = sub
           \/ Type \/ Fetched \/ FetchFailed
           \/ \E s \in Slots : \/ Take(s) \/ Ack(s) \/ Proceed(s) \/ Kept(s)
                               \/ sub' = [sub EXCEPT ![s] = Idle]
    PROVE  \A s \in Slots : SameWhose(sub[s], sub'[s])
<1>1. sub \in [Slots -> Subs \cup {Idle}] /\ Idle \notin Subs
    BY IdleIsNoSub DEF TypeOK
<1>2. ASSUME NEW r \in Subs, NEW n, n.whose = r.whose
      PROVE  SameWhose(r, n)
    BY <1>1, <1>2 DEF SameWhose
<1>3. \A r \in Subs \cup {Idle} : SameWhose(r, r) /\ SameWhose(r, Idle)
    BY DEF SameWhose
<1>4. CASE sub' = sub
    BY <1>1, <1>3, <1>4
<1>5. CASE Type
    <2>1. ASSUME NEW s \in Slots
          PROVE  SameWhose(sub[s], sub'[s])
        <3>1. CASE sub[s] = Idle
            BY <1>5, <3>1 DEF Type, InFlight, SameWhose
        <3>2. CASE sub[s] # Idle
            <4>1. sub[s] \in Subs /\ sub'[s] = [sub[s] EXCEPT !.same = FALSE]
                BY <1>1, <1>5, <3>2 DEF Type, InFlight
            <4> QED
                BY <1>2, <4>1 DEF Subs
        <3> QED
            BY <3>1, <3>2
    <2> QED
        BY <2>1
<1>6. ASSUME NEW s \in Slots
      PROVE  SameWhose(sub[s], Released(sub)[s]) /\ Released(sub)[s] \in Subs \cup {Idle}
    <2>1. Released(sub)[s] \in Subs \cup {Idle}
        BY ReleasedSubs
    <2>2. CASE Released(sub)[s] = sub[s]
        BY <1>1, <1>3, <2>2
    <2>3. CASE sub[s] \in Subs /\ Released(sub)[s] = [sub[s] EXCEPT !.step = "ready"]
        BY <1>2, <2>1, <2>3 DEF Subs
    <2> QED
        BY <1>1, <2>1, <2>2, <2>3 DEF Released
<1>7. CASE Fetched \/ FetchFailed
    BY <1>6, <1>7 DEF Fetched, FetchFailed
<1>8. ASSUME NEW s \in Slots, NEW n, SameWhose(sub[s], n), sub' = [sub EXCEPT ![s] = n]
      PROVE  \A r \in Slots : SameWhose(sub[r], sub'[r])
    <2>1. \A r \in Slots : sub'[r] = IF r = s THEN n ELSE sub[r]
        BY <1>1, <1>8
    <2> QED
        BY <1>1, <1>3, <1>8, <2>1
<1>9. ASSUME NEW s \in Slots, Take(s)
      PROVE  \A r \in Slots : SameWhose(sub[r], sub'[r])
    <2> DEFINE n == [sub[s] EXCEPT !.step = "taken", !.took = version']
    <2>1. sub' = [sub EXCEPT ![s] = n]
        BY <1>9 DEF Take
    <2>2. sub[s] \in Subs
        BY <1>1, <1>9 DEF Take, InFlight
    <2>3. n.whose = sub[s].whose
        BY <2>2 DEF Subs
    <2> HIDE DEF n
    <2>4. SameWhose(sub[s], n)
        BY <1>2, <2>2, <2>3
    <2> QED
        BY <1>8, <2>1, <2>4
<1>10. ASSUME NEW s \in Slots, Ack(s)
       PROVE  \A r \in Slots : SameWhose(sub[r], sub'[r])
    <2>1. sub[s] \in Subs
        BY <1>1, <1>10 DEF Ack, InFlight
    <2>2. PICK t \in {"waiting", "ready"} : sub' = [sub EXCEPT ![s] = [sub[s] EXCEPT !.step = t]]
        BY <1>10 DEF Ack, Unmarked, Marked, Refetched
    <2> DEFINE n == [sub[s] EXCEPT !.step = t]
    <2>3. SameWhose(sub[s], n)
        BY <1>2, <2>1 DEF Subs
    <2>4. sub' = [sub EXCEPT ![s] = n]
        BY <2>2
    <2> HIDE DEF n
    <2> QED
        BY <1>8, <2>3, <2>4
<1>11. ASSUME NEW s \in Slots, Proceed(s)
       PROVE  \A r \in Slots : SameWhose(sub[r], sub'[r])
    <2> DEFINE n == [sub[s] EXCEPT !.step = "asked", !.call = sub[s].call + 1]
    <2>1. sub' = [sub EXCEPT ![s] = n]
        BY <1>11 DEF Proceed
    <2>2. sub[s] \in Subs
        BY <1>1, <1>11 DEF Proceed, InFlight
    <2>3. n.whose = sub[s].whose
        BY <2>2 DEF Subs
    <2> HIDE DEF n
    <2>4. SameWhose(sub[s], n)
        BY <1>2, <2>2, <2>3
    <2> QED
        BY <1>8, <2>1, <2>4
<1>12. ASSUME NEW s \in Slots, Kept(s)
       PROVE  \A r \in Slots : SameWhose(sub[r], sub'[r])
    <2>1. ASSUME NEW r \in Slots
          PROVE  SameWhose(sub[r], sub'[r])
        <3>1. CASE r = s \/ sub[r] = Idle
            BY <1>12, <3>1 DEF Kept, InFlight, SameWhose
        <3>2. CASE r # s /\ sub[r] # Idle
            <4>1. /\ sub[r] \in Subs
                  /\ sub'[r] = [sub[r] EXCEPT !.same = sub[r].same /\ draft' # "seeded"]
                BY <1>1, <1>12, <3>2 DEF Kept, InFlight
            <4> QED
                BY <1>2, <4>1 DEF Subs
        <3> QED
            BY <3>1, <3>2
    <2> QED
        BY <2>1
<1>13. ASSUME NEW s \in Slots, sub' = [sub EXCEPT ![s] = Idle]
       PROVE  \A r \in Slots : SameWhose(sub[r], sub'[r])
    BY <1>1, <1>3, <1>8, <1>13
<1> QED
    BY <1>4, <1>5, <1>7, <1>9, <1>10, <1>11, <1>12, <1>13

\* Only typing makes typed text, and it waits until the form's own submission has ended.
LEMMA TypedLateStays == TypeOK /\ TypedLate /\ [Next]_vars => TypedLate'
<1> SUFFICES ASSUME TypeOK, TypedLate, [Next]_vars
             PROVE  TypedLate'
    OBVIOUS
<1>1. sub \in [Slots -> Subs \cup {Idle}] /\ Idle \notin Subs
    BY IdleIsNoSub DEF TypeOK
<1>2. scene' = scene
    BY DEF Next, Open, Type, Dismiss, Go, Age, Poll, Elsewhere, FetchStep, Serve, Fetched,
        FetchFailed, Submit, SubStep, Take, Ack, Proceed, Succeed, Fail, vars
<1>3. ASSUME \A s \in Slots : SameWhose(sub[s], sub'[s]),
             draft' = "typed" => draft = "typed",
             open' => open
      PROVE  TypedLate'
    BY <1>1, <1>2, <1>3 DEF TypedLate, InFlight, SameWhose
<1>4. ASSUME NEW w \in {"dismissed", "left"}, NEW s \in Slots
      PROVE  /\ Orphaned(w)[s] # Idle => Orphaned(w)[s].whose # "mine"
             /\ Orphaned("left")[s] # Idle => Orphaned("left")[s].whose = "left"
    <2>1. \A r \in Subs : [r EXCEPT !.whose = "left", !.same = FALSE].whose = "left"
        BY DEF Subs
    <2> QED
        BY <1>1, <2>1, OrphanedSubs DEF Orphaned, InFlight
<1>5. CASE Open
    BY <1>1, <1>2, <1>5 DEF Open, TypedLate, InFlight
<1>6. CASE Type
    <2>1. \A s \in Slots : SameWhose(sub[s], sub'[s])
        BY <1>6, WhoseStays
    <2> QED
        BY <1>1, <1>2, <1>6, <2>1 DEF Type, TypedLate, InFlight, SameWhose
<1>7. CASE Dismiss
    BY <1>2, <1>7 DEF Dismiss, TypedLate
<1>8. CASE Go
    <2>1. draft' # "typed" /\ sub' = Orphaned("left")
        BY <1>8 DEF Go, FormReset
    <2> QED
        BY <1>2, <1>4, <2>1 DEF TypedLate, InFlight
<1>9. CASE Age \/ Poll \/ Elsewhere \/ Serve \/ UNCHANGED vars
    BY <1>3, <1>9, WhoseStays DEF Age, Poll, Elsewhere, Serve, vars, page
<1>10. CASE Fetched \/ FetchFailed
    <2>1. (draft' = "typed" => draft = "typed") /\ open' = open
        BY <1>10 DEF Fetched, FetchFailed, page
    <2> QED
        BY <1>3, <1>10, <2>1, WhoseStays
<1>11. ASSUME NEW s \in Slots, Submit(s)
       PROVE  TypedLate'
    <2>1. /\ draft' # "typed" /\ open' = open /\ open
          /\ \A r \in Slots : r # s => sub'[r] = sub[r]
          /\ sub'[s].whose = "mine"
        BY <1>1, <1>11 DEF Submit
    <2> QED
        BY <1>2, <2>1 DEF TypedLate, InFlight
<1>12. ASSUME NEW s \in Slots, Take(s) \/ Ack(s) \/ Proceed(s)
       PROVE  TypedLate'
    <2>1. draft' = draft /\ open' = open
        BY <1>12 DEF Take, Ack, Proceed, page
    <2> QED
        BY <1>3, <1>12, <2>1, WhoseStays
<1>13. ASSUME NEW s \in Slots, Closed(s)
       PROVE  TypedLate'
    BY <1>2, <1>13 DEF Closed, TypedLate
<1>14. ASSUME NEW s \in Slots, Succeed(s) \/ Fail(s), ~Closed(s)
       PROVE  TypedLate'
    <2>1. /\ draft' = "typed" => draft = "typed"
          /\ open' = open
          /\ Kept(s) \/ sub' = [sub EXCEPT ![s] = Idle]
        BY <1>14 DEF Succeed, Fail, Kept, Gone
    <2> QED
        BY <1>3, <2>1, WhoseStays
<1> QED
    BY <1>5, <1>6, <1>7, <1>8, <1>9, <1>10, <1>11, <1>12, <1>13, <1>14
    DEF Next, FetchStep, SubStep

\* Typed text goes with no new data and with the end of no submission, in every scene whose
\* traits rule that out or whose weaknesses the catalogs list: a form that is not seeded
\* again, whose inputs are frozen while it saves, or whose earlier submission ends without
\* closing or clearing it (pages and components of frontend/src, their onSuccess and
\* onError), whatever else the user, the query and the network do meanwhile.
THEOREM ClientTypedIsKept == Spec /\ []KeepsTyped(scene) => TypedIsKept
<1>1. Init => TypedLate
    BY DEF Init, TypedLate, InFlight
<1>2. Spec => []TypedLate
    BY <1>1, TypedLateStays, ClientTypeCorrect, PTL DEF Spec
<1>3. TypeOK /\ TypedLate /\ KeepsTyped(scene) /\ [Next]_vars =>
        [/\ (Forgotten /\ data' # data) => "reseeded" \in scene.known
         /\ (Forgotten /\ Ended /\ ~open') => "closed" \in scene.known
         /\ (Forgotten /\ Ended /\ open') => "cleared" \in scene.known]_vars
    <2> SUFFICES ASSUME TypeOK, TypedLate, KeepsTyped(scene), Next, Forgotten
                 PROVE  /\ (data' # data) => "reseeded" \in scene.known
                        /\ (Ended /\ ~open') => "closed" \in scene.known
                        /\ (Ended /\ open') => "cleared" \in scene.known
        OBVIOUS
    <2>1. /\ sub \in [Slots -> Subs \cup {Idle}] /\ Idle \notin Subs
          /\ draft = "typed" /\ scene.types /\ draft' \in {"none", "seeded"}
        BY IdleIsNoSub DEF TypeOK, TypedLate, Forgotten
    <2>2. ASSUME NEW s \in Slots, Continues(s), open, InFlight(s)
          PROVE  ~Undisturbed(scene)
        BY <2>1, <2>2 DEF Undisturbed, TypedLate, Continues, InFlight
    <2>3. ASSUME NEW s \in Slots, Closed(s), Continues(s), open, InFlight(s),
                 scene.success = "close" \/ scene.failure # "keep"
          PROVE  "closed" \in scene.known /\ ~open'
        BY <2>2, <2>3 DEF Closed, KeepsTyped
    <2>4. ASSUME NEW s \in Slots, Kept(s), Continues(s), open, InFlight(s)
          PROVE  "cleared" \in scene.known /\ open'
        BY <2>1, <2>2, <2>4 DEF Kept, KeepsTyped
    <2>5. ASSUME NEW s \in Slots, Succeed(s) \/ Fail(s)
          PROVE  /\ data' = data
                 /\ ~open' => "closed" \in scene.known
                 /\ open' => "cleared" \in scene.known
        <3>1. data' = data
            BY <2>5 DEF Succeed, Fail, query
        <3>2. CASE Succeed(s)
            BY <2>1, <2>3, <2>4, <3>1, <3>2 DEF Succeed, Gone
        <3>3. CASE Fail(s)
            BY <2>1, <2>3, <3>1, <3>3 DEF Fail
        <3> QED
            BY <2>5, <3>2, <3>3
    <2>6. ASSUME ~Fetched, ~\E s \in Slots : Succeed(s) \/ Fail(s)
          PROVE  data' = data /\ ~Ended
        <3>1. CASE Open \/ Age \/ Poll \/ Elsewhere \/ Serve
            BY <2>1, <3>1 DEF Open, Age, Poll, Elsewhere, Serve, query, page, Ended, InFlight
        <3>2. CASE Dismiss \/ Go
            <4>1. ASSUME NEW w \in {"dismissed", "left"}, NEW s \in Slots, sub[s] # Idle
                  PROVE  Orphaned(w)[s] # Idle
                <5>1. sub[s] \in Subs
                    BY <2>1, <4>1
                <5>2. [sub[s] EXCEPT !.whose = w, !.same = FALSE] \in Subs
                    BY <5>1 DEF Subs
                <5> QED
                    BY <2>1, <5>1, <5>2 DEF Orphaned
            <4> QED
                BY <3>2, <4>1 DEF Dismiss, Go, query, Ended, InFlight
        <3>3. CASE Type \/ FetchFailed \/ \E s \in Slots : Submit(s) \/ Take(s) \/ Ack(s) \/ Proceed(s)
            BY <2>1, <3>3 DEF Type, FetchFailed, Submit, Take, Ack, Proceed, page
        <3> QED
            BY <2>6, <3>1, <3>2, <3>3 DEF Next, FetchStep, SubStep
    <2>7. CASE Fetched
        <3>1. scene.follows
            BY <2>1, <2>7 DEF Fetched
        <3>2. sub' = Released(sub)
            BY <2>7 DEF Fetched
        <3>3. ~Ended
            <4>1. \A s \in Slots : sub[s] # Idle => Released(sub)[s] # Idle
                BY <2>1, ReleasedSubs DEF Released
            <4> QED
                BY <3>2, <4>1 DEF Ended, InFlight
        <3> QED
            BY <2>1, <3>1, <3>3 DEF KeepsTyped
    <2> QED
        BY <2>5, <2>6, <2>7
<1> QED
    BY <1>2, <1>3, ClientTypeCorrect, PTL DEF Spec, TypedIsKept
-----------------------------------------------------------------------------
(* The scenes of the catalogs.                                             *)

\* Where every scene has the traits its properties rest on, or lists the weakness that
\* excepts it, the properties hold for every bound on the versions.  The scenes of the
\* catalogs are such scenes (CoveredAssumption of MCClient): this is what the theorems above
\* say of the pages, forms and hooks of frontend/src.
THEOREM ClientScenesAreSound ==
    ASSUME \A sc \in Scenes : Covered(sc)
    PROVE  Spec => /\ []OwnWriteIsShown
                   /\ []EffectOnce
                   /\ ClosesOntoOwnWrite
                   /\ TypedIsKept
<1>1. IInv => Covered(scene)
    BY DEF IInv
<1>2. IInv => OwnWriteIsShown
    <2>1. Covered(scene) => "overtaken" \in scene.known \/ EveryWriteIsTold(scene)
        BY DEF Covered
    <2> QED
        BY <1>1, <2>1, BoundAssumption
        DEF IInv, TypeOK, Versions, StaleIsMarked, OwnWriteIsShown
<1>3. IInv => EffectOnce
    <2>1. Covered(scene) => "doubled" \in scene.known \/ SentOnce(scene)
        BY DEF Covered
    <2> QED
        BY <1>1, <2>1 DEF IInv, TypeOK, SentOnce, OneCurrent, EffectOnce
<1>4. IInv =>
        (\A s \in Slots :
            (/\ InFlight(s) /\ sub'[s] = Idle /\ sub[s].step = "ready" /\ sub[s].whose = "mine"
             /\ \A i \in 1 .. Len(scene.calls) : scene.calls[i].stales /\ scene.calls[i].awaits
             /\ Mounted /\ data # None /\ ~spoiled)
            => data >= sub[s].took)
    <2>1. TypeOK => DOMAIN scene.calls = 1 .. Len(scene.calls)
        BY DEF TypeOK, SceneTraits
    <2>2. Covered(scene) =>
            \/ EveryWriteIsAwaited(scene)
            \/ \E i \in DOMAIN scene.calls :
                  ~(scene.calls[i].stales /\ scene.calls[i].awaits)
        BY DEF Covered
    <2> QED
        BY <1>1, <2>1, <2>2 DEF IInv, CaughtUp
<1>5. IInv => KeepsTyped(scene)
    BY <1>1 DEF Covered
<1> QED
    BY <1>2, <1>3, <1>4, <1>5, ClientInvariant, ClientTypedIsKept, PTL DEF ClosesOntoOwnWrite
=============================================================================
