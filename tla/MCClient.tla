------------------------------- MODULE MCClient -------------------------------
(* The scenes of the React client, from its catalogs. *)
EXTENDS
    Client, DocVaultClient, AuditClient, AuditorClient, AssetClient, OfficeClient,
    SequencesExt

Hooks ==
    docvaultQueries @@ docvaultMutations @@ auditeaseQueries @@ auditeaseMutations
        @@ auditorQueries @@ auditorMutationHooks @@ registerQueries @@ registerMutations
        @@ officeQueries @@ officeMutations

Pages == docvaultPages \cup auditeasePages \cup auditorPages \cup registerPages \cup officePages

Overlooked ==
    docvaultOverlooked \cup auditeaseOverlooked \cup auditorOverlooked \cup registerOverlooked
        \cup officeOverlooked

Weak == {docvaultWeak, auditeaseWeak, auditorWeak, registerWeak, officeWeak}

Forms == UNION {p.forms : p \in Pages}

Queries == UNION {p.reads : p \in Pages}

Meets(h, q) == Hooks[h].writes \cap Hooks[q].reads # {}

Stales(h, q) == \E k \in Hooks[h].stales : IsPrefix(k, Hooks[q].key)

StalesOfForm(f, i, q) ==
    i = Len(f.calls) /\ \E k \in f.stales : IsPrefix(k, Hooks[q].key)

Puts(h, q) == Hooks[q].key \in Hooks[h].puts

CallsOf(f) == Range(f.calls)

\* The forms with the queries on the screen with them and elsewhere.
Pairs ==
    UNION {{[form |-> f, query |-> q, together |-> q \in p.reads] :
                f \in p.forms, q \in Queries} : p \in Pages}

\* Those of a form that writes what the query reads, but for the pairs the catalogs list
\* as overlooked, where nothing tells the query of the write.
MeetingPairs ==
    {x \in Pairs :
        /\ \E h \in CallsOf(x.form) : Meets(h, x.query)
        /\ \A h \in CallsOf(x.form) : <<h, x.query>> \notin Overlooked}

Known(x) == UNION {{w \in DOMAIN a : x.form.name \in a[w]} : a \in Weak}

\* Traits that make no difference, such as what survives the dismissal of an inline form,
\* are left at one value.
Traits(x) ==
    [calls |-> [i \in DOMAIN x.form.calls |->
        LET h == x.form.calls[i] IN
        [meets |-> Meets(h, x.query),
         stales |-> Stales(h, x.query) \/ StalesOfForm(x.form, i, x.query),
         puts |-> Puts(h, x.query),
         awaits |-> x.together /\ Stales(h, x.query) /\ Hooks[h].awaits]],
     types |-> x.form.types, picks |-> x.form.picks, dialog |-> x.form.dialog,
     lock |-> x.form.lock, freezes |-> x.form.types /\ x.form.freezes,
     persists |-> x.form.dialog /\ x.form.persists,
     follows |-> x.together /\ x.query \in x.form.follows,
     how |-> IF x.form.dialog THEN x.form.how ELSE "await",
     success |-> x.form.success, failure |-> x.form.failure, together |-> x.together,
     polls |-> Hooks[x.query].polls]

\* Pairs of the same traits behave alike: they make one scene, whose weaknesses are
\* those that are listed for every one of them.
MCScenes ==
    LET tagged == {[name |-> <<x.form.name, x.query>>, traits |-> Traits(x),
                    known |-> Known(x)] : x \in MeetingPairs}
        Scene(t) ==
            LET pairs == {x \in tagged : x.traits = t}
            IN  t @@ [names |-> {x.name : x \in pairs},
                      known |-> {w \in Weaknesses : \A x \in pairs : w \in x.known}]
    IN  {Scene(t) : t \in {x.traits : x \in tagged}}

\* No pair is listed as overlooked that a hook does invalidate.
ASSUME OverlookedAssumption ==
    \A p \in Overlooked : Meets(p[1], p[2]) /\ ~Stales(p[1], p[2]) /\ ~Puts(p[1], p[2])

\* The calls of a scene that invalidate its query either all wait for the refetch or none
\* does, so that a refetch somebody waits for is replaced at most once.
ASSUME ReplacedOnceAssumption ==
    \A s \in MCScenes : ~s.together \/ Cardinality(
        {c.awaits : c \in {c \in Range(s.calls) : c.stales}}) <= 1

\* Every scene has the traits its properties rest on, but for the weaknesses listed.
ASSUME CoveredAssumption == \A s \in MCScenes : Covered(s)
=============================================================================
