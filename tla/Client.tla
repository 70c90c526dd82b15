-------------------------------- MODULE Client --------------------------------
(***************************************************************************)
(* What the React client does around the server's data: one query of the   *)
(* cache (lib/queryClient.ts, TanStack Query v5) and one form whose calls  *)
(* write what the query reads.  A scene is such a pair with the traits of  *)
(* the hooks and of the component; the catalogs (DocVaultClient and its    *)
(* siblings) give them and MCClient pairs them.  A call takes effect, is   *)
(* answered, invalidates the query, may wait for the refetch, and then     *)
(* closes or clears its form; meanwhile the user dismisses and reopens the *)
(* form or leaves the page, the query is fetched, polled and ages, other   *)
(* users write, and anything sent may fail or lose its answer.             *)
(***************************************************************************)
EXTENDS FiniteSets, Naturals, Sequences

CONSTANTS
    Scenes,     \* pairs of a form and a query
    None,       \* no data
    MaxVersion  \* bound on the writes to what the query reads

\* One call of a form against the query.  meets: it writes what the query reads.
\* stales: its hook invalidates the query.  puts: its hook puts the answer into the
\* cache.  awaits: the hook returns the invalidation's promise.
CallTraits == [meets: BOOLEAN, stales: BOOLEAN, puts: BOOLEAN, awaits: BOOLEAN]

Weaknesses == {"overtaken", "reseeded", "closed", "cleared", "doubled"}

\* names: the forms and queries that have these traits.  calls: in this order.  types:
\* the user types something.  picks: choosing it sends it.  dialog: it is opened and
\* dismissed.  lock: its control is disabled until its call has ended.  freezes: its
\* inputs take nothing in meanwhile.  persists: the component and its hooks stay mounted
\* when it is dismissed.  follows: it is seeded again when the query's data
\* changes.  how: the success code follows an await, or is a callback of mutate, which an
\* unmounted component does not get.  together: one page shows both.  known: weaknesses
\* the catalogs list.
SceneTraits ==
    [names: SUBSET (STRING \X STRING), calls: Seq(CallTraits), types: BOOLEAN,
     picks: BOOLEAN, dialog: BOOLEAN, lock: BOOLEAN, freezes: BOOLEAN,
     persists: BOOLEAN, follows: BOOLEAN,
     how: {"await", "callback"}, success: {"close", "clear", "stay"},
     failure: {"keep", "close", "either"}, together: BOOLEAN, polls: BOOLEAN,
     known: SUBSET Weaknesses]

ASSUME ScenesAssumption == \A s \in Scenes : s \in SceneTraits /\ Len(s.calls) > 0

ASSUME BoundAssumption == MaxVersion \in Nat /\ None \notin Nat

VARIABLES
    scene,      \* which pair this is
    version,    \* of what the query reads, on the server
    owed,       \* the last version the client was told its own write made
    data,       \* the version the cache holds
    invalid,    \* the cached data is marked, or older than staleTime
    fetch,      \* none, asked, or answered by the server
    found,      \* the version an answered fetch carries, 0 when there is none
    spoiled,    \* the fetch that was to show a write failed, or was served before it, and
                \* none has shown it since
    place,      \* form: the form's page.  away: another page, the query's unless together
    open,       \* the form is shown
    draft,      \* none, seeded, typed, or sent and not typed into since
    effects,    \* how often each call took effect for the present draft
    doubt,      \* an answer to the present draft was lost
    sub         \* the submissions in flight

page == <<place, open, draft, effects, doubt>>
query == <<data, invalid, fetch, found, spoiled>>
vars == <<scene, version, owed, query, page, sub>>

Versions == 0 .. MaxVersion

Slots == {1, 2}

Idle == [step |-> "idle"]

\* whose: mine, or the form was dismissed, or its page left, since it was sent.  same:
\* the draft is still what was sent.
Subs ==
    [step: {"asked", "taken", "waiting", "ready"}, call: Nat \ {0}, took: Versions,
     whose: {"mine", "dismissed", "left"}, same: BOOLEAN]

QueryPlace == IF scene.together THEN "form" ELSE "away"

Mounted == place = QueryPlace

TypeOK ==
    /\ scene \in SceneTraits
    /\ version \in Versions /\ owed \in Versions
    /\ data \in Versions \cup {None}
    /\ invalid \in BOOLEAN /\ spoiled \in BOOLEAN /\ open \in BOOLEAN /\ doubt \in BOOLEAN
    /\ fetch \in {"none", "asked", "answered"}
    /\ found \in Versions
    /\ place \in {"form", "away"}
    /\ draft \in {"none", "seeded", "typed", "sent"}
    /\ effects \in [1 .. Len(scene.calls) -> 0 .. 2]
    /\ sub \in [Slots -> Subs \cup {Idle}]
    /\ \A s \in Slots : sub[s] # Idle => sub[s].call <= Len(scene.calls)

NoEffects == [i \in 1 .. Len(scene.calls) |-> 0]

\* The form's page has just been entered for the first time.
Init ==
    /\ scene \in Scenes
    /\ version = 0 /\ owed = 0
    /\ data = None /\ invalid = FALSE /\ spoiled = FALSE
    /\ fetch = (IF scene.together THEN "asked" ELSE "none") /\ found = 0
    /\ place = "form"
    /\ open = ~scene.dialog
    /\ draft = (IF scene.dialog THEN "none" ELSE "seeded")
    /\ effects = NoEffects /\ doubt = FALSE
    /\ sub = [s \in Slots |-> Idle]
-----------------------------------------------------------------------------
(* Helpers.                                                                *)

InFlight(s) == sub[s] # Idle

Call(s) == scene.calls[sub[s].call]

\* The component that sent it is the one on the screen, so its pending state is seen.
Seen(s) ==
    /\ InFlight(s)
    /\ \/ sub[s].whose = "mine"
       \/ sub[s].whose = "dismissed" /\ scene.persists

\* Mistake, for comparison: a button shows that it is loading and can be pressed all the same.
BusyPressable == FALSE

Busy == \E s \in Slots : Seen(s)

\* Bound: the versions that the calls of a submission may still make from its i-th on.
Writes(i) == Cardinality({j \in i .. Len(scene.calls) : scene.calls[j].meets})

Reserved ==
    LET ofSlot(s) == IF ~InFlight(s) THEN 0
                     ELSE IF sub[s].step = "asked" THEN Writes(sub[s].call)
                     ELSE Writes(sub[s].call + 1)
    IN  ofSlot(1) + ofSlot(2)

\* The code after the call runs: its await continues in a dismissed form too, where it
\* acts on the page that shows the form again, while a callback needs its component.
Continues(s) ==
    \/ sub[s].whose = "mine"
    \/ sub[s].whose = "dismissed" /\ (scene.how = "await" \/ scene.persists)

\* The submissions once the form they came from is gone.
Orphaned(whose) ==
    [s \in Slots |->
        IF InFlight(s) /\ sub[s].whose # "left"
        THEN [sub[s] EXCEPT !.whose = whose, !.same = FALSE] ELSE sub[s]]

\* Those that wait for a refetch go on when it ends.
Released(subs) ==
    [s \in Slots |-> IF subs[s] # Idle /\ subs[s].step = "waiting"
                     THEN [subs[s] EXCEPT !.step = "ready"] ELSE subs[s]]

NewDraft == effects' = NoEffects /\ doubt' = FALSE

\* A dialog starts closed, an inline form seeded.
FormReset ==
    /\ open' = ~scene.dialog
    /\ draft' = (IF scene.dialog THEN "none" ELSE "seeded")
    /\ NewDraft
-----------------------------------------------------------------------------
(* The user and the time that passes.                                      *)

Open ==
    /\ place = "form" /\ scene.dialog /\ ~open
    /\ open' = TRUE /\ draft' = "seeded" /\ NewDraft
    /\ UNCHANGED <<scene, version, owed, query, place, sub>>

Type ==
    /\ place = "form" /\ open /\ scene.types
    /\ draft # "typed"
    /\ scene.freezes => \A s \in Slots : ~(InFlight(s) /\ sub[s].whose = "mine")
    /\ draft' = "typed" /\ NewDraft
    /\ sub' = [s \in Slots |-> IF InFlight(s) THEN [sub[s] EXCEPT !.same = FALSE] ELSE sub[s]]
    /\ UNCHANGED <<scene, version, owed, query, place, open>>

\* Escape, the backdrop, the cross: a dialog can be dismissed while it saves.
Dismiss ==
    /\ place = "form" /\ scene.dialog /\ open
    /\ open' = FALSE /\ draft' = "none" /\ NewDraft
    /\ sub' = Orphaned("dismissed")
    /\ UNCHANGED <<scene, version, owed, query, place>>

\* The control is pressed.
Submit(s) ==
    /\ place = "form" /\ open
    /\ \/ draft = "sent" /\ ~scene.picks
       \/ draft = (IF scene.types THEN "typed" ELSE "seeded")
    /\ scene.lock => ~Busy
    /\ ~InFlight(s) /\ \A r \in Slots : r < s => InFlight(r)
    /\ version + Reserved + Writes(1) <= MaxVersion
    /\ draft' = "sent"
    /\ sub' = [sub EXCEPT ![s] =
                [step |-> "asked", call |-> 1, took |-> 0, whose |-> "mine", same |-> TRUE]]
    /\ UNCHANGED <<scene, version, owed, query, place, open, effects, doubt>>

\* A query that comes on the screen is fetched unless its data is fresh or on its way.
Go ==
    /\ place' = (IF place = "form" THEN "away" ELSE "form")
    /\ FormReset
    /\ sub' = Orphaned("left")
    /\ fetch' = (IF place' = QueryPlace /\ fetch = "none" /\ (data = None \/ invalid)
                 THEN "asked" ELSE fetch)
    /\ UNCHANGED <<scene, version, owed, data, invalid, found, spoiled>>

\* The data of a query off the screen outlives its staleTime.
Age ==
    /\ data # None /\ ~Mounted
    /\ invalid' = TRUE
    /\ UNCHANGED <<scene, version, owed, data, fetch, found, spoiled, page, sub>>

\* refetchInterval.
Poll ==
    /\ scene.polls /\ Mounted /\ fetch = "none"
    /\ fetch' = "asked"
    /\ UNCHANGED <<scene, version, owed, data, invalid, found, spoiled, page, sub>>

\* Another user writes what the query reads.
Elsewhere ==
    /\ version + Reserved < MaxVersion
    /\ version' = version + 1
    /\ UNCHANGED <<scene, owed, query, page, sub>>
-----------------------------------------------------------------------------
(* The query.                                                              *)

Serve ==
    /\ fetch = "asked"
    /\ fetch' = "answered" /\ found' = version
    /\ UNCHANGED <<scene, version, owed, data, invalid, spoiled, page, sub>>

\* Mistake, for comparison: whoever waited for a refetch is not told of it.
FetchedUntold ==
    /\ fetch = "answered"
    /\ fetch' = "none" /\ found' = 0 /\ data' = found /\ invalid' = FALSE
    /\ spoiled' = (spoiled /\ found < owed)
    /\ UNCHANGED <<scene, version, owed, page, sub>>

\* The answer is cached.  Data that changed seeds the forms again that follow it.
Fetched ==
    /\ fetch = "answered"
    /\ fetch' = "none" /\ found' = 0 /\ data' = found /\ invalid' = FALSE
    /\ spoiled' = (spoiled /\ found < owed)
    /\ sub' = Released(sub)
    /\ IF scene.follows /\ open /\ data' # data
       THEN /\ draft' = "seeded" /\ NewDraft
       ELSE UNCHANGED <<draft, effects, doubt>>
    /\ UNCHANGED <<scene, version, owed, place, open>>

\* The fetch fails for good: the data stays, and so does its mark.
FetchFailed ==
    /\ fetch # "none"
    /\ fetch' = "none" /\ found' = 0 /\ spoiled' = TRUE
    /\ sub' = Released(sub)
    /\ UNCHANGED <<scene, version, owed, data, invalid, page>>
-----------------------------------------------------------------------------
(* The submissions.                                                        *)

\* The call takes effect.
Take(s) ==
    /\ InFlight(s) /\ sub[s].step = "asked"
    /\ version' = (IF Call(s).meets THEN version + 1 ELSE version)
    /\ sub' = [sub EXCEPT ![s] = [@ EXCEPT !.step = "taken", !.took = version']]
    /\ effects' = (IF sub[s].same /\ effects[sub[s].call] < 2
                   THEN [effects EXCEPT ![sub[s].call] = @ + 1] ELSE effects)
    /\ UNCHANGED <<scene, owed, query, place, open, draft, doubt>>

\* onSuccess of the hook without a mark for the query.
Unmarked(s) ==
    /\ data' = (IF Call(s).puts THEN sub[s].took ELSE data)
    /\ invalid' = (invalid /\ ~Call(s).puts)
    /\ spoiled' = (spoiled \/ (Call(s).puts /\ fetch = "answered" /\ found < owed'))
    /\ sub' = [sub EXCEPT ![s].step = "ready"]
    /\ UNCHANGED <<fetch, found>>

\* Mistake, for comparison: the submission goes on without waiting for the refetch.
RefetchedUnawaited(s) ==
    /\ invalid' = TRUE
    /\ fetch' = (IF data = None /\ fetch # "none" THEN fetch ELSE "asked")
    /\ spoiled' = (spoiled \/ (fetch' = "answered" /\ found < owed'))
    /\ sub' = [sub EXCEPT ![s].step = "ready"]
    /\ found' = (IF fetch' = "answered" THEN found ELSE 0)
    /\ UNCHANGED data

\* onSuccess invalidates a query on the screen.  Data is fetched again: a refetch that is
\* under way is cancelled, and whoever waited for it waits for the one that replaces it
\* (not for a third, which no scene asks for).  A first fetch that is under way is left to
\* finish.
Refetched(s) ==
    /\ invalid' = TRUE
    /\ fetch' = (IF data = None /\ fetch # "none" THEN fetch ELSE "asked")
    /\ spoiled' = (spoiled \/ (fetch' = "answered" /\ found < owed'))
    /\ sub' = [sub EXCEPT ![s] =
                [sub[s] EXCEPT !.step = IF Call(s).awaits THEN "waiting" ELSE "ready"]]
    /\ found' = (IF fetch' = "answered" THEN found ELSE 0)
    /\ UNCHANGED data

\* Mistake, for comparison: the hooks refetch, which passes over a query off the screen.
RefetchedOnly(s) ==
    /\ spoiled' = (spoiled \/ (fetch = "answered" /\ found < owed'))
    /\ sub' = [sub EXCEPT ![s].step = "ready"]
    /\ UNCHANGED <<data, invalid, fetch, found>>

\* onSuccess invalidates a query that is not: it is marked, until a fetch that is under
\* way is answered.
Marked(s) ==
    /\ invalid' = TRUE
    /\ spoiled' = (spoiled \/ (fetch = "answered" /\ found < owed'))
    /\ sub' = [sub EXCEPT ![s].step = "ready"]
    /\ UNCHANGED <<data, fetch, found>>

\* 2xx: the hook's onSuccess, which runs whatever became of the form.
Ack(s) ==
    /\ InFlight(s) /\ sub[s].step = "taken"
    /\ owed' = (IF Call(s).meets /\ sub[s].took > owed THEN sub[s].took ELSE owed)
    /\ \/ ~Call(s).stales /\ Unmarked(s)
       \/ Call(s).stales /\ Mounted /\ Refetched(s)
       \/ Call(s).stales /\ ~Mounted /\ Marked(s)
    /\ UNCHANGED <<scene, version, page>>

\* Mistake, for comparison: a call is made after the last one.
ProceedPastTheLast(s) ==
    /\ InFlight(s) /\ sub[s].step = "ready"
    /\ sub' = [sub EXCEPT ![s] =
                [sub[s] EXCEPT !.step = "asked", !.call = sub[s].call + 1]]
    /\ UNCHANGED <<scene, version, owed, query, page>>

\* The form's next call.
Proceed(s) ==
    /\ InFlight(s) /\ sub[s].step = "ready" /\ sub[s].call < Len(scene.calls)
    /\ sub' = [sub EXCEPT ![s] =
                [sub[s] EXCEPT !.step = "asked", !.call = sub[s].call + 1]]
    /\ UNCHANGED <<scene, version, owed, query, page>>

\* The form goes away, and with it what was typed after an earlier one was dismissed.
Closed(s) ==
    /\ open' = FALSE /\ draft' = "none" /\ NewDraft
    /\ sub' = [Orphaned("dismissed") EXCEPT ![s] = Idle]

\* Mistake, for comparison: every form that stays is emptied.
Emptied(s) ==
    /\ draft' = "seeded" /\ NewDraft
    /\ sub' = [r \in Slots |->
                IF r # s /\ InFlight(r) THEN [sub[r] EXCEPT !.same = FALSE] ELSE Idle]
    /\ UNCHANGED open

\* The form stays, emptied, or with what was typed since; what was sent is done with.
Kept(s) ==
    /\ draft' = (IF scene.success = "clear" \/ (draft = "sent" /\ sub[s].same)
                 THEN "seeded" ELSE draft)
    /\ IF draft' = "seeded" THEN NewDraft ELSE UNCHANGED <<effects, doubt>>
    /\ sub' = [r \in Slots |->
                IF r = s THEN Idle
                ELSE IF InFlight(r) THEN [sub[r] EXCEPT !.same = @ /\ draft' # "seeded"]
                ELSE Idle]
    /\ UNCHANGED open

Gone(s) ==
    /\ sub' = [sub EXCEPT ![s] = Idle]
    /\ UNCHANGED <<open, draft, effects, doubt>>

\* The last call has succeeded.
Succeed(s) ==
    /\ InFlight(s) /\ sub[s].step = "ready" /\ sub[s].call = Len(scene.calls)
    /\ \/ Continues(s) /\ open /\ scene.success = "close" /\ Closed(s)
       \/ Continues(s) /\ open /\ scene.success # "close" /\ Kept(s)
       \/ ~(Continues(s) /\ open) /\ Gone(s)
    /\ UNCHANGED <<scene, version, owed, query, place>>

\* A call is refused or lost, before or after it took effect.  The form keeps the draft
\* and can be sent again from its first call, or closes.
Fail(s) ==
    /\ InFlight(s) /\ sub[s].step \in {"asked", "taken"}
    /\ \/ Continues(s) /\ open /\ scene.failure # "keep" /\ Closed(s)
       \/ /\ ~(Continues(s) /\ open /\ scene.failure = "close")
          /\ doubt' = (doubt \/ (sub[s].same /\ sub[s].step = "taken"))
          /\ sub' = [sub EXCEPT ![s] = Idle]
          /\ UNCHANGED <<open, draft, effects>>
    /\ UNCHANGED <<scene, version, owed, query, place>>
-----------------------------------------------------------------------------
FetchStep == Serve \/ Fetched \/ FetchFailed

SubStep(s) == Take(s) \/ Ack(s) \/ Proceed(s) \/ Succeed(s) \/ Fail(s)

Next ==
    \/ Open \/ Type \/ Dismiss \/ Go \/ Age \/ Poll \/ Elsewhere
    \/ FetchStep
    \/ \E s \in Slots : Submit(s) \/ SubStep(s)

\* Every request is answered or fails, and the code after it runs.
Fairness == WF_vars(FetchStep) /\ \A s \in Slots : WF_vars(SubStep(s))

Spec == Init /\ [][Next]_vars /\ Fairness
-----------------------------------------------------------------------------
(* Properties.                                                             *)

\* A query on the screen that is not being fetched shows the writes the client was told
\* of, unless the fetch that was to show them failed or was served before them and none
\* has shown them since.
\* Excepted are forms that put the answers of their calls into the cache in any order.
OwnWriteIsShown ==
    Mounted /\ fetch = "none" /\ data # None /\ ~spoiled
        /\ "overtaken" \notin scene.known => data >= owed

\* A form whose hooks return the invalidation closes onto a list that shows its write, also
\* when the refetch that it waits for is cancelled and replaced by that of another write,
\* unless the fetch failed or was served before the write.
ClosesOntoOwnWrite ==
    [][\A s \in Slots :
        (/\ InFlight(s) /\ sub'[s] = Idle /\ sub[s].step = "ready" /\ sub[s].whose = "mine"
         /\ \A i \in 1 .. Len(scene.calls) : scene.calls[i].stales /\ scene.calls[i].awaits
         /\ Mounted /\ data # None /\ ~spoiled)
        => data >= sub[s].took]_vars

Forgotten == draft = "typed" /\ draft' \in {"none", "seeded"}

Ended == \E s \in Slots : InFlight(s) /\ sub'[s] = Idle

\* Nothing but the user's sending it, dismissing its form or leaving the page takes typed
\* text away: not new data, not the end of a submission, unless the catalogs list that.
TypedIsKept ==
    [][/\ (Forgotten /\ data' # data) => "reseeded" \in scene.known
       /\ (Forgotten /\ Ended /\ ~open') => "closed" \in scene.known
       /\ (Forgotten /\ Ended /\ open') => "cleared" \in scene.known]_vars

\* What was typed once takes effect once, unless an answer was lost.
EffectOnce ==
    "doubled" \in scene.known \/ doubt \/ \A i \in DOMAIN effects : effects[i] <= 1

\* A submission ends, and with it the lock on its form.
SubmissionEnds == \A s \in Slots : InFlight(s) ~> ~InFlight(s)
-----------------------------------------------------------------------------
(* Scenes that have a property by their traits.  ClientProofs shows that   *)
(* the traits suffice; MCClient checks that the catalogs' scenes have them.*)

\* The calls of the scene invalidate the query, or neither write what it reads nor put
\* their answer into it.
EveryWriteIsTold(sc) ==
    \A i \in DOMAIN sc.calls :
        sc.calls[i].stales \/ (~sc.calls[i].meets /\ ~sc.calls[i].puts)

\* The form makes one call, and is locked while it does or sends what has been chosen since.
SentOnce(sc) == Len(sc.calls) = 1 /\ (sc.lock \/ (sc.picks /\ sc.types))

\* The calls of the scene write what the query reads, and their hooks return the promise of
\* its invalidation.
EveryWriteIsAwaited(sc) ==
    \A i \in DOMAIN sc.calls :
        sc.calls[i].meets /\ sc.calls[i].stales /\ sc.calls[i].awaits

\* Nothing that was sent earlier ends under what is typed now: nothing can be typed, or the
\* form takes nothing in until its own submission ends and one it has been dismissed from
\* does not come back to it.
Undisturbed(sc) ==
    \/ ~sc.types
    \/ sc.freezes /\ (~sc.dialog \/ (sc.how = "callback" /\ ~sc.persists))

\* For each weakness, it is listed or the traits of the form rule it out.
KeepsTyped(sc) ==
    /\ "reseeded" \in sc.known \/ ~sc.types \/ ~sc.follows
    /\ "closed" \in sc.known \/ Undisturbed(sc)
         \/ (sc.success # "close" /\ sc.failure = "keep")
    /\ "cleared" \in sc.known \/ Undisturbed(sc) \/ sc.success # "clear"

\* Every property holds of the scene by its traits, or is excepted by a listed weakness.
Covered(sc) ==
    /\ "overtaken" \in sc.known \/ EveryWriteIsTold(sc)
    /\ "doubled" \in sc.known \/ SentOnce(sc)
    /\ \/ EveryWriteIsAwaited(sc)
       \/ \E i \in DOMAIN sc.calls : ~(sc.calls[i].stales /\ sc.calls[i].awaits)
    /\ KeepsTyped(sc)
=============================================================================
