------------------------------ MODULE Resolver ------------------------------
(***************************************************************************)
(* The dependency resolver (pkg/controller/registry/resolver): what the    *)
(* catalogs offer and a namespace has installed and subscribed to becomes  *)
(* a problem for the solver, and the solution is the set of operators to   *)
(* install.                                                                *)
(***************************************************************************)
EXTENDS Solver

CONSTANTS
    Worlds,        \* the contents of the resolver's cache, and the Subscriptions
    CatalogOrder,  \* the catalogs by priority, namespace and name
    ChannelOrder,  \* the (package, channel) pairs by name
    DefaultChannel \* those of them that are default channels

VARIABLE world

rvars == <<world, vars>>

Existing == "@existing"    \* the virtual catalog of the installed CSVs
NoName == "none"
ErrorSeq == <<[error |-> TRUE]>>    \* a sort that returned an error

\* A set listed in any order, and in one.
SetToSeqs(S) == {f \in [1 .. Cardinality(S) -> S] : IsInjective(f)}
SetToSeq(S) == CHOOSE f \in SetToSeqs(S) : TRUE

\* world.entries: cache.Entry records; world.subs: Subscriptions.
Entries == world.entries
Named(name) == {e \in Entries : e.catalog = Existing /\ e.name = name}
Virtual(e) == e.catalog = Existing
InstalledEntries == {e \in Entries : Virtual(e)}

\* The identifiers of the variables.
bundleID(e) == <<"bundle", e.catalog, e.channel, e.name>>
subscriptionID(s) == <<"subscription", s.name>>

\* What holds of every cache.  A name identifies a bundle in its catalog and a
\* CSV or a Subscription in its namespace.  A Subscription names a package and
\* a catalog, which is never the virtual one: it has no name a Subscription
\* could refer to.
ASSUME WorldsAssumption ==
    /\ \A w \in Worlds :
         /\ IsFiniteSet(w.entries) /\ IsFiniteSet(w.subs)
         /\ \A e \in w.entries : /\ IsFiniteSet(e.provides)
                                 /\ e.requires \in Seq(Range(e.requires))
         /\ \A e, f \in w.entries :
               bundleID(e) = bundleID(f) \/ (Virtual(e) /\ Virtual(f) /\ e.name = f.name)
                  => e = f
         /\ \A s, t \in w.subs : s.name = t.name => s = t
         /\ \A s \in w.subs : s.catalog # Existing /\ s.pkg # NoName
    /\ CatalogOrder \in Seq(Range(CatalogOrder))
    /\ ChannelOrder \in Seq(Range(ChannelOrder))
-----------------------------------------------------------------------------
(* Predicates and order *)

\* A dependency is on an API or on a package within a range of versions.
Test_(d, e) == IF d.type = "gvk" THEN d.api \in e.provides
               ELSE d.pkg = e.pkg /\ e.version \in d.range

ReplacesPredicate(e, name) == e.replaces = name \/ name \in e.skips
SkipRangeIncludes(e, version) == version \in e.skipRange

\* sortChannel: from the one entry that no other replaces or skips, along
\* replaces, without the entries that are skipped.
sortChannel(bundles) ==
    LET In(name) == {b \in bundles : b.name = name}
        skipped == UNION {b.skips : b \in bundles}
        heads == {b \in bundles : \A c \in bundles :
                     b.name # c.replaces /\ b.name \notin c.skips}
        \* One step more than there are entries shows a cycle.
        chain[i \in 0 .. Cardinality(bundles)] ==
            IF i = 0 THEN SetToSeq(heads)
            ELSE LET to == In(Last(chain[i - 1]).replaces) IN
                 chain[i - 1] \o SetToSeq(to)
        whole == chain[Cardinality(bundles)]
    IN IF bundles = {} THEN <<>>
       ELSE IF Cardinality(heads) # 1 THEN ErrorSeq
       ELSE IF Len(whole) > Cardinality(bundles) THEN ErrorSeq
       ELSE Filter(whole, {b \in bundles : b.name \notin skipped})

Joined(seqs) == IF \E i \in DOMAIN seqs : seqs[i] = ErrorSeq THEN ErrorSeq
                ELSE FlattenSeq(seqs)

\* sortBundles, in one catalog: the default channels first, each sorted.
SortedCatalog(bundles) ==
    LET Channel(pc) == {b \in bundles : <<b.pkg, b.channel>> = pc}
        first == Filter(ChannelOrder, DefaultChannel)
        then == Filter(ChannelOrder, Range(ChannelOrder) \ DefaultChannel)
        in == first \o then
    IN Joined([i \in DOMAIN in |-> sortChannel(Channel(in[i]))])

\* sortableSnapshots.Less: what is installed, the preferred catalog, the rest.
Preferred(catalog) ==
    <<Existing>>
        \o (IF catalog = Existing THEN <<>> ELSE <<catalog>>)
        \o Filter(CatalogOrder, Range(CatalogOrder) \ {catalog})

\* FindPreferred and sortBundles.
sortBundles(catalog, bundles) ==
    LET In(c) == {b \in bundles : b.catalog = c}
        cs == Preferred(catalog)
    IN Joined([i \in DOMAIN cs |-> SortedCatalog(In(cs[i]))])

\* SourceInfo tells installed CSVs apart by package and Subscription only.
SameSource(e, f) ==
    /\ Virtual(e) /\ Virtual(f) /\ e.pkg = f.pkg
    /\ \A s \in world.subs : s.installed = e.name <=> s.installed = f.name

\* The bundles that meet dependency d of bundle b, in order of preference.
\* They are sorted with all that shares a channel with one of them.  Of the
\* installed CSVs of one source only the first that is listed is considered.
Providers(b, d) ==
    LET found == {e \in Entries : Test_(d, e)}
        sources == {f \in found : Virtual(f) =>
                       f = CHOOSE g \in found : SameSource(g, f)}
        Near(e) == \E f \in sources :
                       /\ e.catalog = f.catalog
                       /\ IF Virtual(f) THEN e.name = f.name
                          ELSE <<e.pkg, e.channel>> = <<f.pkg, f.channel>>
        sorted == sortBundles(b.catalog, {e \in Entries : Near(e)})
    IN IF sorted = ErrorSeq THEN ErrorSeq ELSE Filter(sorted, found)
-----------------------------------------------------------------------------
(* Variables *)

\* getBundleVariables: bundles and all they may depend on, through any number
\* of dependencies.
Reached(bundles) ==
    LET Needs(b, k) == LET p == Providers(b, b.requires[k]) IN
                       IF p = ErrorSeq THEN {} ELSE Range(p)
        needs == UNION {{b} \X UNION {Needs(b, k) : k \in DOMAIN b.requires} : b \in Entries}
    IN {e \in Entries : \A S \in SUBSET Entries :
           bundles \subseteq S /\ (\A n \in needs : n[1] \in S => n[2] \in S) => e \in S}

\* getSubscriptionVariables: the entries of the channel, or the starting CSV
\* alone; of them those that the installed CSV can be upgraded to.
Current(s) == Named(s.installed)
Channel(s) ==
    {e \in Entries : /\ <<e.catalog, e.pkg, e.channel>> = <<s.catalog, s.pkg, s.channel>>
                     /\ Current(s) = {} /\ s.starting # NoName => e.name = s.starting}
Candidates(s) ==
    LET sorted == sortChannel(Channel(s)) IN
    IF sorted = ErrorSeq THEN <<>>
    ELSE Filter(sorted, {e \in Channel(s) : \A c \in Current(s) :
                 SkipRangeIncludes(e, c.version) \/ ReplacesPredicate(e, c.name)})
Upgrades(s) == Range(Candidates(s))

\* The bundles that become variables.
Bundles ==
    Reached(InstalledEntries \cup UNION {Upgrades(s) : s \in world.subs})

\* Resolve returns an error before anything is solved.
Unsorted(bundles) ==
    \/ \E s \in world.subs : sortChannel(Channel(s)) = ErrorSeq
    \/ \E b \in bundles : \E k \in DOMAIN b.requires :
          Providers(b, b.requires[k]) = ErrorSeq

IDs(es) == [i \in DOMAIN es |-> bundleID(es[i])]

\* NewBundleVariableFromOperator, its dependencies, and the conflict of an
\* upgrade with what it replaces.
BundleConstraints(b) ==
    (IF Virtual(b) /\ ~ \E s \in world.subs : s.installed = b.name
     THEN <<Mandatory>> ELSE <<>>)
    \o (IF b.deprecated THEN <<Prohibited>> ELSE <<>>)
    \o [k \in DOMAIN b.requires |-> Dependency(IDs(Providers(b, b.requires[k])))]
    \o SetToSeq({Conflict(bundleID(c)) : c \in
                     UNION {Current(s) : s \in {t \in world.subs : b \in Upgrades(t)}}})

\* NewSubscriptionVariable, NewInvalidSubscriptionVariable.
SubscriptionConstraints(s) ==
    IF Channel(s) = {} THEN <<Mandatory, Prohibited>>
    ELSE <<Mandatory,
           Dependency(IDs(Candidates(s)) \o IDs(SetToSeq(Current(s))))>>

\* addInvariants: at most one provider of an API, one operator of a package.
\* A variable with one provider only has no constraints, and is left out.
Package(b) == {b.pkg} \ {NoName}

\* Mutant: only packages are kept unique.
MutSharing(bundles, v) == {b \in bundles : v[1] = "package" /\ v[2] \in Package(b)}

Sharing(bundles, v) ==
    {b \in bundles : v[2] \in IF v[1] = "gvk" THEN b.provides ELSE Package(b)}
Invariants(bundles) ==
    {v \in UNION {{"gvk"} \X b.provides \cup {"package"} \X Package(b) : b \in bundles} :
        Cardinality(Sharing(bundles, v)) > 1}

\* The input of the solver.
Variables(bundles) ==
    [v \in {bundleID(b) : b \in bundles} \cup {subscriptionID(s) : s \in world.subs}
             \cup Invariants(bundles) |->
        CASE v[1] = "bundle" -> BundleConstraints(CHOOSE b \in bundles : bundleID(b) = v)
          [] v[1] = "subscription" ->
                SubscriptionConstraints(CHOOSE s \in world.subs : subscriptionID(s) = v)
          [] OTHER -> <<Mandatory, AtMost(1, {bundleID(b) : b \in Sharing(bundles, v)})>>]

\* The variables come from a map: in any order.  The order matters only for
\* those that open choices; the invariants open none, and are put last.
Listed(S) ==
    LET first[i \in 0 .. Cardinality(S)] ==
            IF i = 0 THEN <<>>
            ELSE LET l == first[i - 1] IN Append(l, CHOOSE v \in S : v \notin Range(l))
    IN first[Cardinality(S)]
Orders(vs) ==
    LET open == {v \in DOMAIN vs : /\ v[1] \in {"bundle", "subscription"}
                                   /\ Mandatory \in Range(vs[v])}
        rest == Listed(DOMAIN vs \ open)
    IN {o \o rest : o \in SetToSeqs(open)}
-----------------------------------------------------------------------------
Init ==
    /\ world \in Worlds
    /\ outcome = "started"
    /\ inorder = <<>> /\ constraints = <<>>
    /\ guesses = <<>> /\ choices = <<>> /\ assumptions = {}
    /\ result = unknown /\ learned = FALSE /\ selected = {}

\* Resolve, up to the call of Solve.
Build ==
    /\ outcome = "started"
    /\ \E bundles \in {Bundles} :
         IF Unsorted(bundles)
         THEN outcome' = "error" /\ UNCHANGED input
         ELSE /\ outcome' = "baseline"
              /\ constraints' = Variables(bundles)
              /\ inorder' \in Orders(constraints')
    /\ UNCHANGED <<world, guesses, choices, assumptions, result, learned, selected>>

Returned == Done /\ UNCHANGED rvars

RNext == Build \/ (Next /\ UNCHANGED world) \/ Returned

\* Resolve runs on: a step is possible until Solve has returned (there is no
\* deadlock), so this is weak fairness of the steps.
RSpec == Init /\ [][RNext]_rvars /\ ([]<>Done \/ []<><<RNext>>_rvars)

\* Resolve's result, and all that is in the namespace once it is installed.
Chosen == {b \in Entries : bundleID(b) \in selected}
Operators == {b \in Chosen : ~Virtual(b)}
-----------------------------------------------------------------------------
(* Properties *)

\* What Resolve returns can be installed in the namespace.  Every Subscription
\* keeps its CSV or moves along an upgrade edge of its channel, never both; a
\* CSV without Subscription stays; no package and no API is there twice; every
\* dependency of what is chosen, installed CSVs included, is met by something
\* chosen; nothing deprecated is there.  And it is refused as not satisfiable
\* only when no selection would do, however much the SAT solver sees early.
ResolvedRight ==
    /\ outcome = "not satisfiable" => Models = {}
    /\ outcome = "selected" =>
        /\ \A s \in world.subs :
              \/ /\ Current(s) \subseteq Chosen
                 /\ Upgrades(s) \cap Operators = {}
                 /\ Current(s) # {}
              \/ /\ Current(s) \cap Chosen = {}
                 /\ Cardinality(Upgrades(s) \cap Operators) = 1
        /\ \A e \in InstalledEntries :
              (\A s \in world.subs : s.installed # e.name) => e \in Chosen
        /\ \A b, c \in Chosen : b # c => /\ b.provides \cap c.provides = {}
                                         /\ Package(b) \cap Package(c) = {}
        /\ \A b \in Chosen : /\ ~b.deprecated
                             /\ \A k \in DOMAIN b.requires :
                                   \E c \in Chosen : Test_(b.requires[k], c)
=============================================================================
