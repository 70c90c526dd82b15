------------------------------- MODULE Session -------------------------------
(***************************************************************************)
(* The session of one identity in the tabs of a browser                    *)
(* (auth/createIdentityAuth.tsx, auth/tokenStorage.ts, api/http.ts,        *)
(* lib/queryClient.ts).  The tabs share one token pair in localStorage;    *)
(* each has its own profile and its own query cache.  A request reads the  *)
(* tokens when it is sent; refused with 401 it refreshes whatever pair is  *)
(* stored by then, stores the answer and is sent once more.  Nothing keeps *)
(* two requests from refreshing at once, or a session from ending while    *)
(* one is under way.  The company and the auditor identity are built by    *)
(* the same factory, each over a storage of its own.                       *)
(***************************************************************************)
EXTENDS FiniteSets, Naturals

CONSTANTS
    Tabs,       \* tabs of one browser
    Users,      \* users who may sign in
    Leavers,    \* users who may be deactivated
    Worked,     \* tabs where one signs in and saves; the others are loaded and read
    None,       \* no user, no tokens
    RefreshLimit,   \* refreshes from one address that the server lets pass in a window
    MaxCalls    \* bound on the calls in flight

ASSUME LimitAssumption == RefreshLimit \in Nat

ASSUME UsersAssumption == None \notin Users /\ Leavers \subseteq Users

ASSUME TabsAssumption == Worked \subseteq Tabs

VARIABLES
    storage,    \* the user whose token pair is stored, if any
    active,     \* users that are not deactivated
    status,     \* of each tab's provider
    profile,    \* of each tab's provider
    cache,      \* users whose answers are in each tab's query cache
    call,       \* the calls in flight of each tab
    disturbed,  \* since the tab last signed in or out or was loaded, another tab or a
                \* call of an ended session has changed the tokens or the profile under it
    counted,    \* refreshes counted in this window, as far as the limit and until trouble
    trouble     \* somebody has signed out or been deactivated, an answer has been lost or
                \* was an error, a refresh token has expired, or a call has refreshed when
                \* the limit was used up

tab == <<status, profile, cache>>
vars == <<storage, active, tab, call, disturbed, counted, trouble>>

\* A tab has at most one request of its page, one hydration and one sign-in in flight.
Slots == {"page", "hydrate", "signIn"}

\* query: fills the cache.  save: a mutation that puts its answer into the cache.
\* as: whose token it was sent with, or whose pair is being refreshed.  who: whose
\* credentials.  limited: the limiter has refused its refresh, and the answer is under
\* way.  late: the tab has signed in or out since the call was made.
Calls ==
    [what: {"query", "save", "me", "login"}, as: Users \cup {None}, who: Users \cup {None},
     step: {"sent", "refreshing", "limited", "retried"}, late: BOOLEAN]

Idle == [what |-> "none"]

TypeOK ==
    /\ storage \in Users \cup {None}
    /\ active \in SUBSET Users
    /\ status \in [Tabs -> {"loading", "authenticated", "unauthenticated"}]
    /\ profile \in [Tabs -> Users \cup {None}]
    /\ cache \in [Tabs -> SUBSET Users]
    /\ call \in [Tabs -> [Slots -> Calls \cup {Idle}]]
    /\ disturbed \in [Tabs -> BOOLEAN]
    /\ counted \in 0 .. RefreshLimit
    /\ trouble \in BOOLEAN

\* The tabs open without tokens.
Init ==
    /\ storage = None
    /\ active = Users
    /\ status = [t \in Tabs |-> "unauthenticated"]
    /\ profile = [t \in Tabs |-> None]
    /\ cache = [t \in Tabs |-> {}]
    /\ call = [t \in Tabs |-> [s \in Slots |-> Idle]]
    /\ disturbed = [t \in Tabs |-> FALSE]
    /\ counted = 0
    /\ trouble = FALSE
-----------------------------------------------------------------------------
(* Helpers.                                                                *)

Room == Cardinality({p \in Tabs \X Slots : call[p[1]][p[2]] # Idle}) < MaxCalls

\* execute reads the tokens and sends.
Sent(what, as, who) ==
    [what |-> what, as |-> as, who |-> who, step |-> "sent", late |-> FALSE]

\* The guard shows the pages to an authenticated tab; during a sign-in the login page
\* is open.
Guard(t) ==
    CASE status[t] = "loading" -> "spinner"
      [] status[t] = "unauthenticated" -> "login"
      [] status[t] = "authenticated" -> IF call[t]["signIn"] = Idle THEN "page" ELSE "login"

\* The calls of a tab that has just signed in or out, except for slot s.
Outlived(t, s, next) ==
    [x \in Slots |-> IF x = s THEN next
                     ELSE IF call[t][x] = Idle THEN Idle ELSE [call[t][x] EXCEPT !.late = TRUE]]

\* Other tabs are not told that the storage now holds the tokens of u.
Disturb(t, u) ==
    [x \in Tabs |-> IF x = t THEN FALSE ELSE disturbed[x] \/ storage # u]

\* Bound: after trouble refreshes are not counted any more.  A 429 then does what
\* RefreshLost does.
Troubled ==
    /\ trouble' = TRUE
    /\ counted' = 0

\* signOut: no token, no cached query, no profile.
SignedOut(t, s) ==
    /\ storage' = None
    /\ cache' = [cache EXCEPT ![t] = {}]
    /\ status' = [status EXCEPT ![t] = "unauthenticated"]
    /\ profile' = [profile EXCEPT ![t] = None]
    /\ call' = [call EXCEPT ![t] = Outlived(t, s, Idle)]
    /\ disturbed' = Disturb(t, None)

\* Mistake, for comparison: hydrate gives up without telling anyone.
ThrownQuietly(t, s) ==
    /\ call' = [call EXCEPT ![t][s] = Idle]
    /\ disturbed' = [disturbed EXCEPT ![t] = @ \/ call[t][s].what = "me"]
    /\ UNCHANGED <<storage, tab>>

\* What a call that throws leaves behind: hydrate signs out, signIn leaves the tokens
\* it has stored, a page shows its error.
Thrown(t, s) ==
    \/ s = "hydrate"
       /\ SignedOut(t, s)
    \/ s # "hydrate"
       /\ call' = [call EXCEPT ![t][s] = Idle]
       /\ disturbed' = [disturbed EXCEPT ![t] = @ \/ call[t][s].what = "me"]
       /\ UNCHANGED <<storage, tab>>
-----------------------------------------------------------------------------
(* The user.                                                               *)

\* The tab is loaded anew.  Its calls are gone with the page, and with tokens stored
\* hydrate asks whose they are.  Bound: not while it is asking.
Load(t) ==
    /\ Room
    /\ call[t]["hydrate"] = Idle
    /\ cache' = [cache EXCEPT ![t] = {}]
    /\ profile' = [profile EXCEPT ![t] = None]
    /\ status' = [status EXCEPT ![t] = IF storage = None THEN "unauthenticated" ELSE "loading"]
    /\ call' = [call EXCEPT ![t] =
                [s \in Slots |-> IF s = "hydrate" /\ storage # None
                                 THEN Sent("me", storage, None) ELSE Idle]]
    /\ disturbed' = [disturbed EXCEPT ![t] = FALSE]
    /\ UNCHANGED <<storage, active, counted, trouble>>

\* The login page is outside the guard and can be reached in any status.
SignIn(t, u) ==
    /\ Room
    /\ call[t]["signIn"] = Idle
    /\ call' = [call EXCEPT ![t]["signIn"] = Sent("login", storage, u)]
    /\ UNCHANGED <<storage, active, tab, disturbed, counted, trouble>>

SignOut(t) ==
    /\ Guard(t) = "page"
    /\ SignedOut(t, "signIn")
    /\ Troubled
    /\ UNCHANGED active

\* A page runs a query or a mutation.
Request(t, what) ==
    /\ Room
    /\ Guard(t) = "page"
    /\ call[t]["page"] = Idle
    /\ call' = [call EXCEPT ![t]["page"] = Sent(what, storage, None)]
    /\ UNCHANGED <<storage, active, tab, disturbed, counted, trouble>>

\* An admin deactivates a user.
Deactivate(u) ==
    /\ u \in active
    /\ active' = active \ {u}
    /\ Troubled
    /\ UNCHANGED <<storage, tab, call, disturbed>>
-----------------------------------------------------------------------------
(* The answers.                                                            *)

\* Mistake, for comparison: a query's answer is cached whatever became of its session.
KeptWhenLate(t, s) ==
    [cache EXCEPT ![t] = @ \cup {call[t][s].as}]

\* Mistake, for comparison: an answer is filed under whoever is signed in by then.
KeptUnderStorage(t, s) ==
    IF call[t][s].what = "query" /\ call[t][s].late THEN cache
    ELSE [cache EXCEPT ![t] = @ \cup {storage}]

\* queryClient.clear has dropped the query of a late answer, while a mutation's
\* onSuccess runs all the same.
Kept(t, s) ==
    IF call[t][s].what = "query" /\ call[t][s].late THEN cache
    ELSE [cache EXCEPT ![t] = @ \cup {call[t][s].as}]

\* 200 to a request of a page.  Bound: what a disturbed tab adds to its cache is not
\* followed; nothing is claimed of it until the cache is emptied.
PageAnswered(t, s) ==
    /\ s = "page"
    /\ call[t][s].as \in active
    /\ cache' = IF disturbed[t] THEN cache ELSE Kept(t, s)
    /\ disturbed' = [disturbed EXCEPT ![t] =
                        @ \/ (call[t][s].what = "save" /\ call[t][s].late)]
    /\ call' = [call EXCEPT ![t][s] = Idle]
    /\ UNCHANGED <<storage, active, status, profile, counted, trouble>>

\* 200 to the profile of hydrate or signIn.
ProfileLoaded(t, s) ==
    /\ call[t][s].what = "me"
    /\ call[t][s].as \in active
    /\ profile' = [profile EXCEPT ![t] = call[t][s].as]
    /\ status' = [status EXCEPT ![t] = "authenticated"]
    /\ disturbed' = [disturbed EXCEPT ![t] = @ \/ call[t][s].late]
    /\ call' = [call EXCEPT ![t][s] = Idle]
    /\ UNCHANGED <<storage, active, cache, counted, trouble>>

\* Mistake, for comparison: the profile is loaded only when there is none.
LoggedInKeepingProfile(t, s) ==
    /\ call[t][s].what = "login"
    /\ call[t][s].who \in active
    /\ storage' = call[t][s].who
    /\ cache' = [cache EXCEPT ![t] = {}]
    /\ call' = [call EXCEPT ![t] = Outlived(t, s,
                IF profile[t] = None THEN Sent("me", call[t][s].who, None) ELSE Idle)]
    /\ disturbed' = Disturb(t, call[t][s].who)
    /\ UNCHANGED <<active, status, profile, counted, trouble>>

\* 200 to the login: the tokens are stored, the cache is dropped, the profile is asked
\* for with them.
LoggedIn(t, s) ==
    /\ call[t][s].what = "login"
    /\ call[t][s].who \in active
    /\ storage' = call[t][s].who
    /\ cache' = [cache EXCEPT ![t] = {}]
    /\ call' = [call EXCEPT ![t] = Outlived(t, s, Sent("me", call[t][s].who, None))]
    /\ disturbed' = Disturb(t, call[t][s].who)
    /\ UNCHANGED <<active, status, profile, counted, trouble>>

\* The limiter counts a refresh: one more than the limit is trouble.
Counted ==
    \/ /\ trouble \/ counted = RefreshLimit
       /\ Troubled
    \/ /\ ~trouble /\ counted < RefreshLimit
       /\ counted' = counted + 1
       /\ trouble' = FALSE

\* Mistake, for comparison: the limiter refuses the call that reaches the limit.
RefreshOneTooFew(t, s) ==
    /\ call[t][s].step = "sent" /\ call[t][s].as # None
    /\ storage # None
    /\ call' = [call EXCEPT ![t][s].step = IF counted + 1 < RefreshLimit
                                           THEN "refreshing" ELSE "limited",
                            ![t][s].as = storage]
    /\ Counted
    /\ UNCHANGED <<storage, active, tab, disturbed>>

\* 401 to a first attempt: the token has expired, its user is deactivated, or the
\* password is wrong.  tryRefresh sends the pair that is stored now, and the limiter
\* counts it.
Refresh(t, s) ==
    /\ call[t][s].step = "sent" /\ call[t][s].as # None
    /\ storage # None
    /\ call' = [call EXCEPT ![t][s].step = IF counted < RefreshLimit
                                           THEN "refreshing" ELSE "limited",
                            ![t][s].as = storage]
    /\ Counted
    /\ UNCHANGED <<storage, active, tab, disturbed>>

\* Another browser behind the same address refreshes.
OthersRefresh ==
    /\ ~trouble /\ counted < RefreshLimit
    /\ counted' = counted + 1
    /\ UNCHANGED <<storage, active, tab, call, disturbed, trouble>>

\* The window of the counter has passed.
WindowEnds ==
    /\ counted > 0
    /\ counted' = 0
    /\ UNCHANGED <<storage, active, tab, call, disturbed, trouble>>

\* There is no pair to refresh: onAuthFailure.
NothingToRefresh(t, s) ==
    /\ call[t][s].step = "sent" /\ call[t][s].as # None
    /\ storage = None
    /\ SignedOut(t, s)
    /\ UNCHANGED <<active, counted, trouble>>

\* 401 or 403 to a call that is not sent again: without a token, or a second time.
\* A token that has just been refreshed is refused only to the deactivated.
Refused(t, s) ==
    /\ call[t][s].what = "login" => call[t][s].as = None \/ call[t][s].step = "retried"
    /\ call[t][s].what # "login" =>
        call[t][s].as = None \/ (call[t][s].step = "retried" /\ call[t][s].as \notin active)
    /\ Thrown(t, s)
    /\ UNCHANGED <<active, counted, trouble>>

\* No answer, or an error of the server or the gateway, which has a limit of its own on
\* the requests of an address.
Lost(t, s) ==
    /\ Thrown(t, s)
    /\ Troubled
    /\ UNCHANGED active

\* Mistake, for comparison: the second attempt can refresh again.
RefreshedAgainAndAgain(t, s) ==
    /\ call[t][s].step = "refreshing"
    /\ storage' = call[t][s].as
    /\ call' = [call EXCEPT ![t][s].step = "sent"]
    /\ disturbed' = [x \in Tabs |-> disturbed[x] \/ storage # call[t][s].as]
    /\ UNCHANGED <<active, tab, counted, trouble>>

\* The refresh endpoint does not ask whether the user is active, and leaves the old
\* refresh token valid.  The new pair is stored and the call is sent again.
Refreshed(t, s) ==
    /\ call[t][s].step = "refreshing"
    /\ storage' = call[t][s].as
    /\ call' = [call EXCEPT ![t][s].step = "retried"]
    /\ disturbed' = [x \in Tabs |-> disturbed[x] \/ storage # call[t][s].as]
    /\ UNCHANGED <<active, tab, counted, trouble>>

\* The refresh is lost or its token has expired: onAuthFailure.
RefreshLost(t, s) ==
    /\ call[t][s].step = "refreshing"
    /\ SignedOut(t, s)
    /\ Troubled
    /\ UNCHANGED active

\* 429 to the refresh: onAuthFailure.
RefreshLimited(t, s) ==
    /\ call[t][s].step = "limited"
    /\ SignedOut(t, s)
    /\ UNCHANGED <<active, counted, trouble>>

Answer(t, s) ==
    /\ call[t][s] # Idle
    /\ \/ call[t][s].step \in {"sent", "retried"}
          /\ \/ PageAnswered(t, s) \/ ProfileLoaded(t, s) \/ LoggedIn(t, s)
             \/ Refresh(t, s) \/ NothingToRefresh(t, s)
             \/ Refused(t, s) \/ Lost(t, s)
       \/ Refreshed(t, s) \/ RefreshLost(t, s) \/ RefreshLimited(t, s)

Next ==
    \/ \E t \in Tabs :
        \/ Load(t) \/ SignOut(t)
        \/ t \in Worked /\ \E u \in Users : SignIn(t, u)
        \/ Request(t, "query")
        \/ t \in Worked /\ Request(t, "save")
        \/ \E s \in Slots : Answer(t, s)
    \/ \E u \in Leavers : Deactivate(u)
    \/ OthersRefresh \/ WindowEnds

\* Every request is answered, or times out.
Fairness == \A t \in Tabs, s \in Slots : WF_vars(Answer(t, s))

Spec == Init /\ [][Next]_vars /\ Fairness
-----------------------------------------------------------------------------
(* Properties.                                                             *)

\* The profile a tab shows and decides by is that of the tokens its requests carry,
\* once its sign-in is through and unless it was disturbed (createIdentityAuth.tsx).
ProfileIsOfTokens ==
    \A t \in Tabs :
        status[t] = "authenticated" /\ Guard(t) = "page" /\ ~disturbed[t] =>
            profile[t] = storage

\* No tab that was not disturbed holds answers given to anyone but the user it is
\* signed in as: "the shared React Query cache would serve the previous account's
\* data after a switch" (createIdentityAuth.tsx, clearCache).
CacheIsOfSession ==
    \A t \in Tabs : ~disturbed[t] => cache[t] \subseteq {storage}

\* Access tokens that run out sign nobody out: the tokens stay stored and no tab goes
\* back to its login page, however many calls of however many tabs find out at once and
\* store their pairs over one another, until somebody has signed out or been
\* deactivated, an answer was lost, or the refreshes of the address have used up the
\* limit of a window and one more was sent ("a 429 here logs the user out", config.py).
ExpiryEndsNoSession ==
    [][~trouble' =>
        /\ storage # None => storage' # None
        /\ \A t \in Tabs :
            status[t] # "unauthenticated" => status'[t] # "unauthenticated"]_vars

\* The guard's spinner stands only while hydrate is waiting for an answer.
SpinnerIsAwaited ==
    \A t \in Tabs : status[t] = "loading" => call[t]["hydrate"] # Idle

\* A call ends, refused or not: it is sent again once and no more, also for a user who
\* is deactivated and whose refreshes succeed (http.ts, isRetry).
CallEnds ==
    \A t \in Worked, s \in Slots : call[t][s] # Idle ~> call[t][s] = Idle
=============================================================================
