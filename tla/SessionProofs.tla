----------------------------- MODULE SessionProofs -----------------------------
(***************************************************************************)
(* Proofs about Session, for any number of tabs, users and calls and any   *)
(* limit on refreshes: its type invariant, its three safety invariants and *)
(* its action property, from one inductive invariant.                      *)
(***************************************************************************)
EXTENDS Session, TLAPS

\* Each slot has calls of its own kinds, and a login has somebody's credentials.
SlotCalls ==
    \A t \in Tabs, s \in Slots : call[t][s] # Idle =>
        /\ call[t][s].what = "login" => s = "signIn" /\ call[t][s].who \in Users
        /\ call[t][s].what = "me" => s # "page"
        /\ call[t][s].what \in {"query", "save"} => s = "page"

\* In a tab that was not disturbed the calls of the present session carry its tokens.
CallsCarryStorage ==
    \A t \in Tabs, s \in Slots :
        ~disturbed[t] /\ call[t][s] # Idle /\ ~call[t][s].late => call[t][s].as = storage

\* The profile is that of the tokens until the login of a sign-in has succeeded.
ProfileUntilLogin ==
    \A t \in Tabs :
        /\ status[t] = "authenticated" /\ ~disturbed[t]
        /\ call[t]["signIn"] = Idle \/ call[t]["signIn"].what = "login"
        => profile[t] = storage

\* There were tokens to refresh, and to hydrate from.
TokensWereThere ==
    \A t \in Tabs, s \in Slots :
        call[t][s] # Idle /\ (call[t][s].step # "sent" \/ s = "hydrate")
            => call[t][s].as # None

\* Until there is trouble nobody is deactivated, no refresh is refused by the limit, and
\* a browser without tokens has not had any: no tab is signed in, no call carries one.
Untroubled ==
    ~trouble =>
        /\ active = Users
        /\ \A t \in Tabs, s \in Slots : call[t][s] # Idle => call[t][s].step # "limited"
        /\ storage = None =>
            /\ \A t \in Tabs : status[t] = "unauthenticated"
            /\ \A t \in Tabs, s \in Slots : call[t][s] # Idle => call[t][s].as = None

IInv ==
    /\ TypeOK /\ SlotCalls /\ CallsCarryStorage /\ ProfileUntilLogin /\ CacheIsOfSession
    /\ SpinnerIsAwaited /\ TokensWereThere /\ Untroubled
-----------------------------------------------------------------------------
(* What becomes of the calls.                                              *)

\* The idle slot is no call.
LEMMA IdleIsNoCall == Idle \notin Calls
<1>1. \A c \in Calls : c.what # "none"
    BY DEF Calls
<1>2. Idle.what = "none"
    BY DEF Idle
<1> QED
    BY <1>1, <1>2

\* The other calls of a tab that signs in or out are late.
Aged(t, s) ==
    \A y \in Slots \ {s} :
        \/ call[t][y] = Idle /\ call'[t][y] = Idle
        \/ /\ call[t][y] # Idle /\ call'[t][y] # Idle
           /\ call'[t][y].late
           /\ call'[t][y].what = call[t][y].what /\ call'[t][y].as = call[t][y].as
           /\ call'[t][y].who = call[t][y].who /\ call'[t][y].step = call[t][y].step

LEMMA OutlivedSlots ==
    ASSUME TypeOK, NEW t \in Tabs, NEW s \in Slots, NEW c \in Calls \cup {Idle},
           call' = [call EXCEPT ![t] = Outlived(t, s, c)]
    PROVE  /\ call' \in [Tabs -> [Slots -> Calls \cup {Idle}]]
           /\ call'[t][s] = c /\ Aged(t, s)
           /\ \A x \in Tabs \ {t}, y \in Slots : call'[x][y] = call[x][y]
<1> DEFINE F == Outlived(t, s, c)
<1>1. \A y \in Slots : F[y] = IF y = s THEN c
                              ELSE IF call[t][y] = Idle THEN Idle
                              ELSE [call[t][y] EXCEPT !.late = TRUE]
    BY DEF Outlived
<1>2. \A d \in Calls :
        LET e == [d EXCEPT !.late = TRUE]
        IN  /\ e \in Calls /\ e.late /\ e.what = d.what /\ e.as = d.as
            /\ e.who = d.who /\ e.step = d.step
    BY DEF Calls
<1>3. \A y \in Slots : call[t][y] \in Calls \cup {Idle}
    BY DEF TypeOK
<1>4. F \in [Slots -> Calls \cup {Idle}]
    BY <1>1, <1>2, <1>3 DEF Outlived
<1>5. call'[t] = F /\ \A x \in Tabs \ {t} : call'[x] = call[x]
    BY DEF TypeOK
<1>6. call' \in [Tabs -> [Slots -> Calls \cup {Idle}]]
    BY <1>4 DEF TypeOK
<1>7. ASSUME NEW y \in Slots \ {s}
      PROVE  \/ call[t][y] = Idle /\ F[y] = Idle
             \/ /\ call[t][y] # Idle /\ F[y] # Idle
                /\ F[y].late /\ F[y].what = call[t][y].what /\ F[y].as = call[t][y].as
                /\ F[y].who = call[t][y].who /\ F[y].step = call[t][y].step
    <2>1. CASE call[t][y] = Idle
        BY <1>1, <2>1
    <2>2. CASE call[t][y] # Idle
        <3>1. call[t][y] \in Calls /\ F[y] = [call[t][y] EXCEPT !.late = TRUE]
            BY <1>1, <1>3, <2>2
        <3> HIDE DEF F
        <3> QED
            BY <1>2, <2>2, <3>1, IdleIsNoCall
    <2> QED
        BY <2>1, <2>2
<1>8. Aged(t, s)
    BY <1>5, <1>7 DEF Aged
<1> QED
    BY <1>1, <1>5, <1>6, <1>8
-----------------------------------------------------------------------------
(* Steps.                                                                  *)

\* What a call may be after a step that keeps the tokens, the status and the profile.
NextCall(t, s, c) ==
    /\ c # Idle =>
        /\ c.what = "login" => s = "signIn" /\ c.who \in Users
        /\ c.what = "me" => s # "page"
        /\ c.what \in {"query", "save"} => s = "page"
        /\ c.late \/ c.as = storage \/ disturbed'[t]
        /\ c.step # "sent" \/ s = "hydrate" => c.as # None
        /\ c.as # None => storage # None \/ trouble'
        /\ c.step = "limited" => trouble'
    /\ s = "signIn" /\ (c = Idle \/ c.what = "login") =>
        \/ call[t][s] = Idle \/ call[t][s].what = "login" \/ disturbed'[t]
    /\ s = "hydrate" => c # Idle \/ status[t] # "loading"

LEMMA SlotStep ==
    ASSUME IInv, NEW t \in Tabs, NEW s \in Slots, NEW c \in Calls \cup {Idle},
           call' = [call EXCEPT ![t][s] = c],
           UNCHANGED <<storage, active, status, profile>>,
           cache' \in [Tabs -> SUBSET Users], CacheIsOfSession',
           disturbed' \in [Tabs -> BOOLEAN], \A x \in Tabs : disturbed[x] => disturbed'[x],
           counted' \in 0 .. RefreshLimit, trouble' \in BOOLEAN, ~trouble' => ~trouble,
           NextCall(t, s, c)
    PROVE  IInv'
<1> USE DEF IInv
<1>1. /\ call' \in [Tabs -> [Slots -> Calls \cup {Idle}]]
      /\ call'[t][s] = c
      /\ \A x \in Tabs, y \in Slots : x # t \/ y # s => call'[x][y] = call[x][y]
    BY DEF TypeOK
<1>2. TypeOK'
    BY <1>1 DEF TypeOK
<1>3. SlotCalls'
    BY <1>1 DEF SlotCalls, NextCall
<1>4. CallsCarryStorage'
    BY <1>1 DEF CallsCarryStorage, NextCall
<1>5. ProfileUntilLogin'
    BY <1>1 DEF ProfileUntilLogin, NextCall, Slots
<1>6. SpinnerIsAwaited'
    BY <1>1 DEF SpinnerIsAwaited, NextCall, Slots
<1>7. TokensWereThere'
    BY <1>1 DEF TokensWereThere, NextCall
<1>8. Untroubled'
    BY <1>1 DEF Untroubled, NextCall
<1> QED
    BY <1>2, <1>3, <1>4, <1>5, <1>6, <1>7, <1>8

\* A sign-out leaves no tab with tokens that are not stored, unless it was disturbed.
LEMMA SignedOutStep ==
    ASSUME IInv, NEW t \in Tabs, NEW s \in Slots, SignedOut(t, s),
           active' = active, counted' \in 0 .. RefreshLimit, trouble' = TRUE
    PROVE  IInv'
<1> USE DEF IInv
<1>1. /\ call' \in [Tabs -> [Slots -> Calls \cup {Idle}]]
      /\ call'[t][s] = Idle /\ Aged(t, s)
      /\ \A x \in Tabs \ {t}, y \in Slots : call'[x][y] = call[x][y]
    <2>1. TypeOK /\ Idle \in Calls \cup {Idle}
        OBVIOUS
    <2>2. call' = [call EXCEPT ![t] = Outlived(t, s, Idle)]
        BY DEF SignedOut
    <2> QED
        BY <2>1, <2>2, OutlivedSlots, Zenon
<1>2. disturbed' \in [Tabs -> BOOLEAN]
    BY DEF SignedOut, Disturb, TypeOK
<1>3. ~disturbed'[t] /\ \A x \in Tabs \ {t} : ~disturbed'[x] => ~disturbed[x] /\ storage = None
    BY DEF SignedOut, Disturb, TypeOK
<1>4. /\ storage' = None /\ cache' = [cache EXCEPT ![t] = {}]
      /\ status' = [status EXCEPT ![t] = "unauthenticated"]
      /\ profile' = [profile EXCEPT ![t] = None]
    BY DEF SignedOut
<1>5. TypeOK'
    BY <1>1, <1>2, <1>4 DEF TypeOK
<1>6. SlotCalls'
    BY <1>1 DEF SlotCalls, Aged
<1>7. CallsCarryStorage'
    BY <1>1, <1>3, <1>4 DEF CallsCarryStorage, Aged
<1>8. ProfileUntilLogin'
    BY <1>1, <1>3, <1>4 DEF ProfileUntilLogin, TypeOK, Slots
<1>9. CacheIsOfSession'
    BY <1>3, <1>4 DEF CacheIsOfSession, TypeOK
<1>10. SpinnerIsAwaited'
    BY <1>1, <1>4 DEF SpinnerIsAwaited, TypeOK, Slots
<1>11. TokensWereThere'
    BY <1>1 DEF TokensWereThere, Aged
<1>12. Untroubled'
    BY DEF Untroubled
<1> QED
    BY <1>5, <1>6, <1>7, <1>8, <1>9, <1>10, <1>11, <1>12

LEMMA InitKeeps ==
    ASSUME Init
    PROVE  IInv
<1>1. TypeOK
    <2>1. counted \in 0 .. RefreshLimit
        BY LimitAssumption DEF Init
    <2>2. call \in [Tabs -> [Slots -> Calls \cup {Idle}]]
        BY DEF Init
    <2> QED
        BY <2>1, <2>2 DEF Init, TypeOK
<1>2. SlotCalls /\ CallsCarryStorage /\ TokensWereThere /\ Untroubled
    BY DEF Init, SlotCalls, CallsCarryStorage, TokensWereThere, Untroubled, Slots, Idle
<1>3. ProfileUntilLogin /\ CacheIsOfSession /\ SpinnerIsAwaited
    BY DEF Init, ProfileUntilLogin, CacheIsOfSession, SpinnerIsAwaited
<1> QED
    BY <1>1, <1>2, <1>3 DEF IInv

LEMMA LoadKeeps ==
    ASSUME IInv, NEW t \in Tabs, Load(t)
    PROVE  IInv'
<1> USE DEF IInv
<1> DEFINE c == Sent("me", storage, None)
           h == IF storage # None THEN c ELSE Idle
<1>1. /\ c \in Calls /\ c.what = "me" /\ c.as = storage /\ c.step = "sent" /\ c # Idle
    <2>1. c \in Calls /\ c.what = "me" /\ c.as = storage /\ c.step = "sent"
        BY DEF TypeOK, Sent, Calls
    <2> QED
        BY <2>1, IdleIsNoCall
<1> HIDE DEF c
<1>2. /\ call' = [call EXCEPT ![t] = [s \in Slots |-> IF s = "hydrate" /\ storage # None
                                                    THEN c ELSE Idle]]
      /\ cache' = [cache EXCEPT ![t] = {}] /\ profile' = [profile EXCEPT ![t] = None]
      /\ status' = [status EXCEPT ![t] = IF storage = None THEN "unauthenticated" ELSE "loading"]
      /\ disturbed' = [disturbed EXCEPT ![t] = FALSE]
      /\ storage' = storage /\ active' = active /\ counted' = counted /\ trouble' = trouble
    BY DEF Load, c
<1>3. /\ call' \in [Tabs -> [Slots -> Calls \cup {Idle}]]
      /\ call'[t]["hydrate"] = h
      /\ \A s \in Slots : s # "hydrate" => call'[t][s] = Idle
      /\ \A x \in Tabs \ {t}, y \in Slots : call'[x][y] = call[x][y]
    BY <1>1, <1>2 DEF TypeOK, Slots
<1>4. TypeOK'
    BY <1>2, <1>3 DEF TypeOK
<1>5. SlotCalls'
    BY <1>1, <1>3 DEF SlotCalls, Slots
<1>6. CallsCarryStorage'
    <2>1. \A x \in Tabs \ {t} : disturbed'[x] = disturbed[x]
        BY <1>2 DEF TypeOK
    <2>2. \A s \in Slots : call'[t][s] # Idle => call'[t][s].as = storage
        BY <1>1, <1>3
    <2> QED
        BY <1>2, <1>3, <2>1, <2>2 DEF CallsCarryStorage
<1>7. ProfileUntilLogin'
    BY <1>2, <1>3 DEF ProfileUntilLogin, TypeOK, Slots
<1>8. CacheIsOfSession'
    BY <1>2 DEF CacheIsOfSession, TypeOK
<1>9. SpinnerIsAwaited'
    BY <1>1, <1>2, <1>3 DEF SpinnerIsAwaited, TypeOK, Slots
<1>10. TokensWereThere'
    BY <1>1, <1>3 DEF TokensWereThere
<1>11. Untroubled'
    <2>1. ASSUME NEW s \in Slots, call'[t][s] # Idle
          PROVE  call'[t][s].step # "limited" /\ call'[t][s].as = storage
        BY <1>1, <1>3, <2>1
    <2>2. storage = None => status'[t] = "unauthenticated"
        BY <1>2 DEF TypeOK
    <2>3. \A x \in Tabs \ {t} : status'[x] = status[x]
        BY <1>2 DEF TypeOK
    <2> QED
        BY <1>2, <1>3, <2>1, <2>2, <2>3 DEF Untroubled
<1> QED
    BY <1>4, <1>5, <1>6, <1>7, <1>8, <1>9, <1>10, <1>11

LEMMA SignInKeeps ==
    ASSUME IInv, NEW t \in Tabs, NEW u \in Users, SignIn(t, u)
    PROVE  IInv'
<1> USE DEF IInv
<1> DEFINE c == Sent("login", storage, u)
<1>1. c \in Calls /\ c.what = "login" /\ c.as = storage /\ c.who = u /\ c.step = "sent"
    BY DEF TypeOK, Sent, Calls
<1>2. call' = [call EXCEPT ![t]["signIn"] = c]
    BY DEF SignIn
<1>3. call[t]["signIn"] = Idle /\ UNCHANGED <<storage, active, tab, disturbed, counted, trouble>>
    BY DEF SignIn
<1> HIDE DEF c
<1>4. NextCall(t, "signIn", c)
    BY <1>1, <1>3 DEF NextCall
<1> QED
    BY <1>1, <1>2, <1>3, <1>4, SlotStep DEF tab, TypeOK, CacheIsOfSession, Slots

LEMMA RequestKeeps ==
    ASSUME IInv, NEW t \in Tabs, NEW what \in {"query", "save"}, Request(t, what)
    PROVE  IInv'
<1> USE DEF IInv
<1> DEFINE c == Sent(what, storage, None)
<1>1. c \in Calls /\ c.what = what /\ c.as = storage /\ c.step = "sent"
    BY DEF TypeOK, Sent, Calls
<1>2. call' = [call EXCEPT ![t]["page"] = c]
    BY DEF Request
<1>3. UNCHANGED <<storage, active, tab, disturbed, counted, trouble>>
    BY DEF Request
<1> HIDE DEF c
<1>4. NextCall(t, "page", c)
    BY <1>1, <1>3 DEF NextCall
<1> QED
    BY <1>1, <1>2, <1>3, <1>4, SlotStep DEF tab, TypeOK, CacheIsOfSession, Slots

LEMMA DeactivateKeeps ==
    ASSUME IInv, NEW u \in Users, Deactivate(u)
    PROVE  IInv'
<1> USE DEF IInv, Deactivate, tab
<1>1. TypeOK'
    BY LimitAssumption DEF TypeOK, Troubled
<1>2. /\ SlotCalls' /\ CallsCarryStorage' /\ ProfileUntilLogin' /\ CacheIsOfSession'
      /\ SpinnerIsAwaited' /\ TokensWereThere'
    BY DEF SlotCalls, CallsCarryStorage, ProfileUntilLogin, CacheIsOfSession,
           SpinnerIsAwaited, TokensWereThere
<1>3. Untroubled'
    BY DEF Untroubled, Troubled
<1> QED
    BY <1>1, <1>2, <1>3

LEMMA SignOutKeeps ==
    ASSUME IInv, NEW t \in Tabs, SignOut(t)
    PROVE  IInv'
<1>1. trouble' = TRUE /\ counted' \in 0 .. RefreshLimit
    BY LimitAssumption DEF SignOut, Troubled
<1> QED
    BY <1>1, SignedOutStep DEF SignOut, Slots

\* A call that is answered.
Asked(t, s) == t \in Tabs /\ s \in Slots /\ call[t][s] # Idle

LEMMA PageAnsweredKeeps ==
    ASSUME IInv, NEW t, NEW s, Asked(t, s), PageAnswered(t, s)
    PROVE  IInv'
<1> USE DEF IInv, Asked
<1>1. call' = [call EXCEPT ![t][s] = Idle] /\ s = "page"
    BY DEF PageAnswered
<1>2. UNCHANGED <<storage, active, status, profile, counted, trouble>>
    BY DEF PageAnswered
<1>3. call[t][s] \in Calls
    BY DEF TypeOK
<1>4. cache' \in [Tabs -> SUBSET Users]
    <2>1. call[t][s].as \in Users
        BY DEF PageAnswered, TypeOK
    <2> QED
        BY <2>1 DEF PageAnswered, Kept, TypeOK
<1>5. /\ disturbed' \in [Tabs -> BOOLEAN] /\ \A x \in Tabs : disturbed[x] => disturbed'[x]
      /\ \A x \in Tabs \ {t} : disturbed'[x] = disturbed[x]
      /\ disturbed'[t] \/ ~(call[t][s].what = "save" /\ call[t][s].late)
    BY <1>3 DEF PageAnswered, TypeOK, Calls
<1>6. CacheIsOfSession'
    <2>1. \A x \in Tabs \ {t} : cache'[x] = cache[x]
        BY DEF PageAnswered, Kept, TypeOK
    <2>2. ~disturbed'[t] => cache'[t] \subseteq {storage}
        <3> SUFFICES ASSUME ~disturbed'[t] PROVE cache'[t] \subseteq {storage}
            OBVIOUS
        <3>1. cache[t] \subseteq {storage} /\ ~disturbed[t]
            BY <1>5 DEF CacheIsOfSession
        <3>2. CASE call[t][s].what = "query" /\ call[t][s].late
            BY <3>1, <3>2 DEF PageAnswered, Kept, TypeOK
        <3>3. CASE ~(call[t][s].what = "query" /\ call[t][s].late)
            <4>1. call[t][s].what \in {"query", "save"}
                BY <1>1, <1>3 DEF SlotCalls, Calls
            <4>2. ~call[t][s].late
                BY <1>5, <3>3, <4>1
            <4>3. call[t][s].as = storage
                BY <3>1, <4>2 DEF CallsCarryStorage
            <4>4. cache'[t] = cache[t] \cup {call[t][s].as}
                BY <3>3 DEF PageAnswered, Kept, TypeOK
            <4> QED
                BY <3>1, <4>3, <4>4
        <3> QED
            BY <3>2, <3>3
    <2> QED
        BY <1>2, <1>5, <2>1, <2>2 DEF CacheIsOfSession
<1>7. NextCall(t, s, Idle)
    BY <1>1 DEF NextCall
<1> QED
    BY <1>1, <1>2, <1>4, <1>5, <1>6, <1>7, SlotStep DEF TypeOK

\* The call that the limiter refuses is one of a window that is used up.
LEMMA RefreshKeeps ==
    ASSUME IInv, NEW t, NEW s, Asked(t, s), Refresh(t, s)
    PROVE  IInv'
<1> USE DEF IInv, Asked
<1> DEFINE next == IF counted < RefreshLimit THEN "refreshing" ELSE "limited"
           c == [call[t][s] EXCEPT !.step = next, !.as = storage]
<1>1. call[t][s] \in Calls
    BY DEF TypeOK
<1>2. /\ next \in {"refreshing", "limited"}
      /\ next = "limited" => ~(counted < RefreshLimit)
    OBVIOUS
<1>3. call' = [call EXCEPT ![t][s] = [call[t][s] EXCEPT !.step = next, !.as = storage]]
    BY <1>1 DEF Refresh, TypeOK, Calls
<1> HIDE DEF next
<1>4. /\ c \in Calls /\ c.what = call[t][s].what /\ c.who = call[t][s].who
      /\ c.as = storage /\ storage # None /\ c.step = next
    BY <1>1, <1>2 DEF Calls, Refresh, TypeOK
<1>5. call' = [call EXCEPT ![t][s] = c]
    BY <1>3
<1>6. UNCHANGED <<storage, active, tab, disturbed>>
    BY DEF Refresh
<1>7. /\ counted' \in 0 .. RefreshLimit /\ trouble' \in BOOLEAN
      /\ ~trouble' => ~trouble /\ counted < RefreshLimit
    <2>1. counted \in 0 .. RefreshLimit /\ Counted
        BY DEF TypeOK, Refresh
    <2>2. CASE trouble' = TRUE /\ counted' = 0
        BY <2>2, LimitAssumption
    <2>3. CASE ~trouble /\ counted < RefreshLimit /\ counted' = counted + 1 /\ trouble' = FALSE
        <3>1. counted' \in 0 .. RefreshLimit
            BY <2>1, <2>3, LimitAssumption
        <3> QED
            BY <2>3, <3>1
    <2> QED
        BY <2>1, <2>2, <2>3 DEF Counted, Troubled
<1> HIDE DEF c
<1>8. NextCall(t, s, c)
    BY <1>2, <1>4, <1>6, <1>7, IdleIsNoCall DEF NextCall, SlotCalls
<1> QED
    BY <1>4, <1>5, <1>6, <1>7, <1>8, SlotStep DEF tab, TypeOK, CacheIsOfSession

\* A call of a page or of a sign-in that throws.
LEMMA ThrownStep ==
    ASSUME IInv, NEW t, NEW s, Asked(t, s), s # "hydrate", Thrown(t, s), active' = active,
           counted' \in 0 .. RefreshLimit, trouble' = trouble \/ trouble' = TRUE
    PROVE  IInv'
<1> USE DEF IInv, Asked
<1>1. /\ call' = [call EXCEPT ![t][s] = Idle]
      /\ disturbed' = [disturbed EXCEPT ![t] = @ \/ call[t][s].what = "me"]
      /\ UNCHANGED <<storage, tab>>
    BY DEF Thrown
<1>2. call[t][s] \in Calls
    BY DEF TypeOK
<1>3. disturbed' \in [Tabs -> BOOLEAN] /\ \A x \in Tabs : disturbed[x] => disturbed'[x]
    BY <1>1 DEF TypeOK
<1>4. call[t][s].what = "me" => disturbed'[t]
    BY <1>1 DEF TypeOK
<1>5. s = "signIn" => call[t][s].what \in {"login", "me"}
    BY <1>2 DEF SlotCalls, Calls
<1>6. NextCall(t, s, Idle)
    BY <1>4, <1>5 DEF NextCall
<1>7. CacheIsOfSession'
    BY <1>1, <1>3 DEF CacheIsOfSession, tab
<1>8. trouble' \in BOOLEAN /\ (~trouble' => ~trouble)
    BY DEF TypeOK
<1> QED
    BY <1>1, <1>3, <1>6, <1>7, <1>8, SlotStep DEF tab, TypeOK

LEMMA LostKeeps ==
    ASSUME IInv, NEW t, NEW s, Asked(t, s), Lost(t, s)
    PROVE  IInv'
<1>1. trouble' = TRUE /\ counted' \in 0 .. RefreshLimit /\ active' = active
    BY LimitAssumption DEF Lost, Troubled
<1>2. CASE s = "hydrate"
    BY <1>1, <1>2, SignedOutStep DEF Lost, Thrown, Asked
<1>3. CASE s # "hydrate"
    BY <1>1, <1>3, ThrownStep DEF Lost
<1> QED
    BY <1>2, <1>3

\* hydrate has a token, and without trouble before it nobody is deactivated.
LEMMA RefusedKeeps ==
    ASSUME IInv, NEW t, NEW s, Asked(t, s), Refused(t, s)
    PROVE  IInv' /\ (s = "hydrate" => trouble')
<1>1. counted' \in 0 .. RefreshLimit /\ trouble' = trouble /\ active' = active
    BY DEF Refused, IInv, TypeOK
<1>2. CASE s = "hydrate"
    <2>1. call[t][s] \in Calls /\ call[t][s].as # None /\ call[t][s].what # "login"
        BY <1>2 DEF IInv, TypeOK, TokensWereThere, SlotCalls, Asked
    <2>2. call[t][s].as \in Users /\ call[t][s].as \notin active
        BY <2>1 DEF Refused, Calls
    <2>3. trouble = TRUE
        BY <2>2 DEF IInv, Untroubled, TypeOK
    <2> QED
        BY <1>1, <1>2, <2>3, SignedOutStep DEF Refused, Thrown, Asked
<1>3. CASE s # "hydrate"
    BY <1>1, <1>3, ThrownStep DEF Refused
<1> QED
    BY <1>2, <1>3

\* Without trouble before it there were no tokens when the call was sent.
LEMMA NothingToRefreshKeeps ==
    ASSUME IInv, NEW t, NEW s, Asked(t, s), NothingToRefresh(t, s)
    PROVE  IInv' /\ trouble'
<1>1. trouble = TRUE
    BY DEF NothingToRefresh, IInv, Untroubled, TypeOK, Asked
<1>2. trouble' = TRUE /\ counted' \in 0 .. RefreshLimit /\ active' = active
    BY <1>1 DEF NothingToRefresh, IInv, TypeOK
<1> QED
    BY <1>2, SignedOutStep DEF NothingToRefresh, Asked

LEMMA RefreshLostKeeps ==
    ASSUME IInv, NEW t, NEW s, Asked(t, s), RefreshLost(t, s)
    PROVE  IInv'
<1>1. trouble' = TRUE /\ counted' \in 0 .. RefreshLimit /\ active' = active
    BY LimitAssumption DEF RefreshLost, Troubled
<1> QED
    BY <1>1, SignedOutStep DEF RefreshLost, Asked

\* A refresh that was refused by the limit was one too many.
LEMMA RefreshLimitedKeeps ==
    ASSUME IInv, NEW t, NEW s, Asked(t, s), RefreshLimited(t, s)
    PROVE  IInv' /\ trouble'
<1>1. trouble = TRUE
    BY DEF RefreshLimited, IInv, Untroubled, TypeOK, Asked
<1>2. trouble' = TRUE /\ counted' \in 0 .. RefreshLimit /\ active' = active
    BY <1>1 DEF RefreshLimited, IInv, TypeOK
<1> QED
    BY <1>2, SignedOutStep DEF RefreshLimited, Asked

\* Only the count changes.
LEMMA CountKeeps ==
    ASSUME IInv, OthersRefresh \/ WindowEnds
    PROVE  IInv'
<1>1. counted' \in 0 .. RefreshLimit
    BY LimitAssumption DEF OthersRefresh, WindowEnds, IInv, TypeOK
<1>2. UNCHANGED <<storage, active, tab, call, disturbed, trouble>>
    BY DEF OthersRefresh, WindowEnds
<1> USE <1>2 DEF IInv, tab
<1>3. TypeOK' /\ SlotCalls' /\ CallsCarryStorage' /\ TokensWereThere'
    BY <1>1 DEF TypeOK, SlotCalls, CallsCarryStorage, TokensWereThere
<1>4. ProfileUntilLogin' /\ CacheIsOfSession' /\ SpinnerIsAwaited' /\ Untroubled'
    BY DEF ProfileUntilLogin, CacheIsOfSession, SpinnerIsAwaited, Untroubled
<1> QED
    BY <1>3, <1>4

\* The profile of a call that is not late is that of the tokens it carries.
LEMMA ProfileLoadedKeeps ==
    ASSUME IInv, NEW t, NEW s, Asked(t, s), ProfileLoaded(t, s)
    PROVE  IInv'
<1> USE DEF IInv, Asked
<1>1. /\ call' = [call EXCEPT ![t][s] = Idle]
      /\ profile' = [profile EXCEPT ![t] = call[t][s].as]
      /\ status' = [status EXCEPT ![t] = "authenticated"]
      /\ disturbed' = [disturbed EXCEPT ![t] = @ \/ call[t][s].late]
      /\ UNCHANGED <<storage, active, cache, counted, trouble>>
    BY DEF ProfileLoaded
<1>2. call[t][s] \in Calls /\ call[t][s].as \in Users /\ call[t][s].late \in BOOLEAN
    BY DEF ProfileLoaded, TypeOK, Calls
<1>3. /\ call' \in [Tabs -> [Slots -> Calls \cup {Idle}]] /\ call'[t][s] = Idle
      /\ \A x \in Tabs, y \in Slots : x # t \/ y # s => call'[x][y] = call[x][y]
    BY <1>1 DEF TypeOK
<1>4. /\ disturbed' \in [Tabs -> BOOLEAN] /\ \A x \in Tabs : disturbed[x] => disturbed'[x]
      /\ call[t][s].late => disturbed'[t]
    BY <1>1, <1>2 DEF TypeOK
<1>5. TypeOK'
    BY <1>1, <1>2, <1>3, <1>4 DEF TypeOK
<1>6. SlotCalls' /\ TokensWereThere'
    BY <1>3 DEF SlotCalls, TokensWereThere
<1>7. CallsCarryStorage'
    BY <1>1, <1>3, <1>4 DEF CallsCarryStorage
<1>8. ProfileUntilLogin'
    <2>1. ~disturbed'[t] => profile'[t] = storage
        BY <1>1, <1>4 DEF CallsCarryStorage, TypeOK
    <2>2. \A x \in Tabs \ {t} : profile'[x] = profile[x] /\ status'[x] = status[x]
        BY <1>1 DEF TypeOK
    <2> QED
        BY <1>1, <1>3, <1>4, <2>1, <2>2 DEF ProfileUntilLogin, Slots
<1>9. CacheIsOfSession'
    BY <1>1, <1>4 DEF CacheIsOfSession
<1>10. SpinnerIsAwaited'
    <2>1. status'[t] # "loading" /\ \A x \in Tabs \ {t} : status'[x] = status[x]
        BY <1>1 DEF TypeOK
    <2> QED
        BY <1>3, <2>1 DEF SpinnerIsAwaited, Slots
<1>11. Untroubled'
    <2>1. storage # None \/ trouble
        BY <1>2, UsersAssumption DEF Untroubled
    <2> QED
        BY <1>1, <1>3, <2>1 DEF Untroubled
<1> QED
    BY <1>5, <1>6, <1>7, <1>8, <1>9, <1>10, <1>11

\* The tokens of the one who logs in replace those of another; the tab starts afresh.
LEMMA LoggedInKeeps ==
    ASSUME IInv, NEW t, NEW s, Asked(t, s), LoggedIn(t, s)
    PROVE  IInv'
<1> USE DEF IInv, Asked
<1> DEFINE u == call[t][s].who
           c == Sent("me", u, None)
<1>1. s = "signIn" /\ u \in Users /\ u # None
    BY UsersAssumption DEF LoggedIn, SlotCalls
<1>2. /\ c \in Calls /\ c.what = "me" /\ c.as = u /\ c.step = "sent" /\ ~c.late
    BY <1>1 DEF Sent, Calls
<1>3. /\ storage' = u /\ cache' = [cache EXCEPT ![t] = {}]
      /\ call' = [call EXCEPT ![t] = Outlived(t, s, c)]
      /\ disturbed' = Disturb(t, u)
      /\ UNCHANGED <<active, status, profile, counted, trouble>>
    BY DEF LoggedIn
<1> HIDE DEF c, u
<1>4. /\ call' \in [Tabs -> [Slots -> Calls \cup {Idle}]]
      /\ call'[t][s] = c /\ Aged(t, s)
      /\ \A x \in Tabs \ {t}, y \in Slots : call'[x][y] = call[x][y]
    BY <1>2, <1>3, OutlivedSlots
<1>5. /\ disturbed' \in [Tabs -> BOOLEAN]
      /\ \A x \in Tabs \ {t} : ~disturbed'[x] => ~disturbed[x] /\ storage = u
    BY <1>3 DEF Disturb, TypeOK
<1>6. TypeOK'
    BY <1>1, <1>3, <1>4, <1>5 DEF TypeOK
<1>7. SlotCalls'
    BY <1>1, <1>2, <1>4 DEF SlotCalls, Aged
<1>8. CallsCarryStorage'
    BY <1>2, <1>3, <1>4, <1>5 DEF CallsCarryStorage, Aged
<1>9. ProfileUntilLogin'
    <2>1. call'[t]["signIn"].what = "me" /\ call'[t]["signIn"] # Idle
        BY <1>1, <1>2, <1>4, IdleIsNoCall
    <2> QED
        BY <1>3, <1>4, <1>5, <2>1 DEF ProfileUntilLogin, Slots
<1>10. CacheIsOfSession'
    BY <1>3, <1>5 DEF CacheIsOfSession, TypeOK
<1>11. SpinnerIsAwaited'
    BY <1>1, <1>3, <1>4 DEF SpinnerIsAwaited, Slots, Aged
<1>12. TokensWereThere'
    <2>1. ASSUME NEW y \in Slots \ {s}, call'[t][y] # Idle,
                 call'[t][y].step # "sent" \/ y = "hydrate"
          PROVE  call'[t][y].as # None
        BY <1>4, <2>1 DEF TokensWereThere, Aged
    <2>2. call'[t][s].as # None
        BY <1>1, <1>2, <1>4
    <2>3. \A x \in Tabs \ {t}, y \in Slots :
            call'[x][y] # Idle /\ (call'[x][y].step # "sent" \/ y = "hydrate")
                => call'[x][y].as # None
        BY <1>4 DEF TokensWereThere
    <2> QED
        BY <2>1, <2>2, <2>3 DEF TokensWereThere
<1>13. Untroubled'
    BY <1>1, <1>2, <1>3, <1>4 DEF Untroubled, Aged
<1> QED
    BY <1>6, <1>7, <1>8, <1>9, <1>10, <1>11, <1>12, <1>13

\* The tokens that are stored are those that were refreshed.
LEMMA RefreshedKeeps ==
    ASSUME IInv, NEW t, NEW s, Asked(t, s), Refreshed(t, s)
    PROVE  IInv'
<1> USE DEF IInv, Asked
<1> DEFINE u == call[t][s].as
           c == [call[t][s] EXCEPT !.step = "retried"]
<1>1. call[t][s] \in Calls
    BY DEF TypeOK
<1>2. /\ c \in Calls /\ c.what = call[t][s].what /\ c.who = call[t][s].who
      /\ c.as = u /\ c.late = call[t][s].late /\ c.step = "retried"
    BY <1>1 DEF Calls
<1>3. u \in Users /\ u # None
    BY <1>1 DEF Calls, Refreshed, TokensWereThere
<1>4. call' = [call EXCEPT ![t][s] = c]
    BY DEF Refreshed, TypeOK
<1>5. /\ storage' = u /\ UNCHANGED <<active, status, profile, cache, counted, trouble>>
      /\ disturbed' = [x \in Tabs |-> disturbed[x] \/ storage # u]
    BY DEF Refreshed, tab
<1> HIDE DEF c, u
<1>6. /\ call' \in [Tabs -> [Slots -> Calls \cup {Idle}]] /\ call'[t][s] = c
      /\ \A x \in Tabs, y \in Slots : x # t \/ y # s => call'[x][y] = call[x][y]
    BY <1>2, <1>4 DEF TypeOK
<1>7. /\ disturbed' \in [Tabs -> BOOLEAN]
      /\ \A x \in Tabs : ~disturbed'[x] => ~disturbed[x] /\ storage = u
    BY <1>5 DEF TypeOK
<1>8. TypeOK'
    BY <1>3, <1>5, <1>6, <1>7 DEF TypeOK
<1>9. SlotCalls'
    BY <1>2, <1>6 DEF SlotCalls
<1>10. CallsCarryStorage'
    BY <1>2, <1>5, <1>6, <1>7 DEF CallsCarryStorage
<1>11. ProfileUntilLogin'
    BY <1>2, <1>5, <1>6, <1>7, IdleIsNoCall DEF ProfileUntilLogin, Slots
<1>12. CacheIsOfSession'
    BY <1>5, <1>7 DEF CacheIsOfSession
<1>13. SpinnerIsAwaited'
    BY <1>2, <1>5, <1>6, IdleIsNoCall DEF SpinnerIsAwaited, Slots
<1>14. TokensWereThere'
    BY <1>2, <1>3, <1>6 DEF TokensWereThere
<1>15. Untroubled'
    BY <1>2, <1>3, <1>5, <1>6 DEF Untroubled
<1> QED
    BY <1>8, <1>9, <1>10, <1>11, <1>12, <1>13, <1>14, <1>15

LEMMA AnswerKeeps ==
    ASSUME IInv, NEW t \in Tabs, NEW s \in Slots, Answer(t, s)
    PROVE  IInv'
<1>1. Asked(t, s)
    BY DEF Answer, Asked
<1>2. CASE PageAnswered(t, s)
    BY <1>1, <1>2, PageAnsweredKeeps
<1>3. CASE ProfileLoaded(t, s)
    BY <1>1, <1>3, ProfileLoadedKeeps
<1>4. CASE LoggedIn(t, s)
    BY <1>1, <1>4, LoggedInKeeps
<1>5. CASE Refresh(t, s)
    BY <1>1, <1>5, RefreshKeeps
<1>6. CASE NothingToRefresh(t, s)
    BY <1>1, <1>6, NothingToRefreshKeeps
<1>7. CASE Refused(t, s)
    BY <1>1, <1>7, RefusedKeeps
<1>8. CASE Lost(t, s)
    BY <1>1, <1>8, LostKeeps
<1>9. CASE Refreshed(t, s)
    BY <1>1, <1>9, RefreshedKeeps
<1>10. CASE RefreshLost(t, s)
    BY <1>1, <1>10, RefreshLostKeeps
<1>11. CASE RefreshLimited(t, s)
    BY <1>1, <1>11, RefreshLimitedKeeps
<1> QED
    BY <1>2, <1>3, <1>4, <1>5, <1>6, <1>7, <1>8, <1>9, <1>10, <1>11 DEF Answer

LEMMA NextKeeps ==
    ASSUME IInv, [Next]_vars
    PROVE  IInv'
<1>1. CASE UNCHANGED vars
    <2> USE <1>1 DEF IInv, vars, tab
    <2>1. TypeOK' /\ SlotCalls' /\ CallsCarryStorage' /\ TokensWereThere'
        BY DEF TypeOK, SlotCalls, CallsCarryStorage, TokensWereThere
    <2>2. ProfileUntilLogin' /\ CacheIsOfSession' /\ SpinnerIsAwaited' /\ Untroubled'
        BY DEF ProfileUntilLogin, CacheIsOfSession, SpinnerIsAwaited, Untroubled
    <2> QED
        BY <2>1, <2>2
<1>2. ASSUME NEW t \in Tabs, Load(t) PROVE IInv'
    BY <1>2, LoadKeeps
<1>3. ASSUME NEW t \in Tabs, SignOut(t) PROVE IInv'
    BY <1>3, SignOutKeeps
<1>4. ASSUME NEW t \in Tabs, NEW u \in Users, SignIn(t, u) PROVE IInv'
    BY <1>4, SignInKeeps
<1>5. ASSUME NEW t \in Tabs, Request(t, "query") \/ Request(t, "save") PROVE IInv'
    BY <1>5, RequestKeeps
<1>6. ASSUME NEW t \in Tabs, NEW s \in Slots, Answer(t, s) PROVE IInv'
    BY <1>6, AnswerKeeps
<1>7. ASSUME NEW u \in Leavers, Deactivate(u) PROVE IInv'
    BY <1>7, DeactivateKeeps, UsersAssumption
<1>8. CASE OthersRefresh \/ WindowEnds
    BY <1>8, CountKeeps
<1> QED
    BY <1>1, <1>2, <1>3, <1>4, <1>5, <1>6, <1>7, <1>8 DEF Next

\* No step from which there is no trouble takes tokens away or a tab to its login page.
EndsNoSession ==
    ~trouble' =>
        /\ storage # None => storage' # None
        /\ \A t \in Tabs :
            status[t] # "unauthenticated" => status'[t] # "unauthenticated"

LEMMA AnswerEndsNoSession ==
    ASSUME IInv, NEW t \in Tabs, NEW s \in Slots, Answer(t, s)
    PROVE  EndsNoSession
<1> USE DEF IInv, EndsNoSession
<1>1. Asked(t, s)
    BY DEF Answer, Asked
<1>2. CASE PageAnswered(t, s)
    BY <1>2 DEF PageAnswered
<1>3. CASE ProfileLoaded(t, s)
    BY <1>3 DEF ProfileLoaded, TypeOK
<1>4. CASE LoggedIn(t, s)
    <2>1. call[t][s].who \in Users
        BY <1>1, <1>4 DEF LoggedIn, SlotCalls, Asked
    <2> QED
        BY <1>4, <2>1, UsersAssumption DEF LoggedIn
<1>5. CASE Refresh(t, s)
    BY <1>5 DEF Refresh, tab
<1>6. CASE NothingToRefresh(t, s)
    BY <1>1, <1>6, NothingToRefreshKeeps
<1>7. CASE Refused(t, s)
    <2>1. CASE s = "hydrate"
        BY <1>1, <1>7, <2>1, RefusedKeeps
    <2>2. CASE s # "hydrate"
        BY <1>7, <2>2 DEF Refused, Thrown, tab
    <2> QED
        BY <2>1, <2>2
<1>8. CASE Lost(t, s)
    BY <1>8 DEF Lost, Troubled
<1>9. CASE Refreshed(t, s)
    BY <1>1, <1>9 DEF Refreshed, TokensWereThere, Asked, tab
<1>10. CASE RefreshLost(t, s)
    BY <1>10 DEF RefreshLost, Troubled
<1>11. CASE RefreshLimited(t, s)
    BY <1>1, <1>11, RefreshLimitedKeeps
<1> QED
    BY <1>2, <1>3, <1>4, <1>5, <1>6, <1>7, <1>8, <1>9, <1>10, <1>11 DEF Answer

LEMMA NextEndsNoSession ==
    ASSUME IInv, [Next]_vars
    PROVE  EndsNoSession
<1> USE DEF EndsNoSession, tab
<1>1. CASE UNCHANGED vars
    BY <1>1 DEF vars
<1>2. ASSUME NEW t \in Tabs, Load(t) PROVE EndsNoSession
    BY <1>2 DEF Load, IInv, Untroubled, TypeOK
<1>3. ASSUME NEW t \in Tabs, SignOut(t) PROVE EndsNoSession
    BY <1>3 DEF SignOut, Troubled
<1>4. ASSUME NEW t \in Tabs, NEW u \in Users, SignIn(t, u) PROVE EndsNoSession
    BY <1>4 DEF SignIn
<1>5. ASSUME NEW t \in Tabs, Request(t, "query") \/ Request(t, "save") PROVE EndsNoSession
    BY <1>5 DEF Request
<1>6. ASSUME NEW t \in Tabs, NEW s \in Slots, Answer(t, s) PROVE EndsNoSession
    BY <1>6, AnswerEndsNoSession
<1>7. ASSUME NEW u \in Leavers, Deactivate(u) PROVE EndsNoSession
    BY <1>7 DEF Deactivate
<1>8. CASE OthersRefresh \/ WindowEnds
    BY <1>8 DEF OthersRefresh, WindowEnds
<1> QED
    BY <1>1, <1>2, <1>3, <1>4, <1>5, <1>6, <1>7, <1>8 DEF Next
-----------------------------------------------------------------------------
(* Theorems.                                                               *)

\* The invariant that the others follow from: what each call carries, and what a tab
\* shows, as long as neither another tab nor a late call has disturbed it.
THEOREM SessionInvariant == Spec => []IInv
<1>1. Init => IInv
    BY InitKeeps
<1>2. IInv /\ [Next]_vars => IInv'
    BY NextKeeps
<1> QED
    BY <1>1, <1>2, PTL DEF Spec

\* Every variable keeps its type (createIdentityAuth.tsx, tokenStorage.ts, http.ts).
THEOREM SessionTypeCorrect == Spec => []TypeOK
<1>1. IInv => TypeOK
    BY DEF IInv
<1> QED
    BY <1>1, SessionInvariant, PTL

\* An undisturbed tab decides by the profile of the user whose tokens its requests
\* carry, for any number of tabs, users and calls at once.
THEOREM SessionProfileIsOfTokens == Spec => []ProfileIsOfTokens
<1>1. IInv => ProfileIsOfTokens
    BY DEF IInv, ProfileUntilLogin, ProfileIsOfTokens, Guard
<1> QED
    BY <1>1, SessionInvariant, PTL

\* An undisturbed tab's query cache has no answers given to another user (clearCache).
THEOREM SessionCacheIsOfSession == Spec => []CacheIsOfSession
<1>1. IInv => CacheIsOfSession
    BY DEF IInv
<1> QED
    BY <1>1, SessionInvariant, PTL

\* The guard's spinner never stands without a hydration under way.
THEOREM SessionSpinnerIsAwaited == Spec => []SpinnerIsAwaited
<1>1. IInv => SpinnerIsAwaited
    BY DEF IInv
<1> QED
    BY <1>1, SessionInvariant, PTL

\* Expired access tokens end no session until somebody has signed out or been
\* deactivated, an answer was lost or the server's limit on refreshes was exceeded, for
\* any limit and any number of calls that refresh (http.ts, tryRefresh).
THEOREM SessionExpiryEndsNoSession == Spec => ExpiryEndsNoSession
<1>1. IInv /\ [Next]_vars => EndsNoSession
    BY NextEndsNoSession
<1>2. EndsNoSession <=> (~trouble' =>
        /\ storage # None => storage' # None
        /\ \A t \in Tabs :
            status[t] # "unauthenticated" => status'[t] # "unauthenticated")
    BY DEF EndsNoSession
<1> QED
    BY <1>1, <1>2, SessionInvariant, PTL DEF Spec, ExpiryEndsNoSession
=============================================================================
