----------------------------- MODULE MCResolver -----------------------------
EXTENDS Resolver

\* Packages a and b have two versions each.  a2 may need API q, which x1 and y1
\* provide; with q they provide r and s, and the versions of b may provide both.
\* At most one CSV is installed: a1, with or without a package property, or x1.
Bundle(catalog, pkg, name, version, replaces, provides, requires) ==
    [catalog |-> catalog, pkg |-> pkg, channel |-> "stable", name |-> name,
     version |-> version, replaces |-> replaces, skips |-> {}, skipRange |-> {},
     provides |-> provides, requires |-> requires, deprecated |-> FALSE]
Installed(e, withPackage) ==
    [e EXCEPT !.catalog = Existing, !.channel = "", !.replaces = NoName, !.skips = {},
              !.skipRange = {}, !.pkg = IF withPackage THEN @ ELSE NoName]
Sub(pkg, installed, starting) ==
    [name |-> pkg, catalog |-> "c1", pkg |-> pkg, channel |-> "stable",
     installed |-> installed, starting |-> starting]
GVK(api) == [type |-> "gvk", api |-> api]
Pkg(pkg, range) == [type |-> "package", pkg |-> pkg, range |-> range]

a1 == Bundle("c1", "a", "a1", 1, NoName, {}, <<>>)
a2(requires) == Bundle("c1", "a", "a2", 2, "a1", {}, requires)
b1(provides) == Bundle("c1", "b", "b1", 1, NoName, provides, <<>>)
b2(provides) == Bundle("c1", "b", "b2", 2, "b1", provides, <<>>)
x1(catalog) == Bundle(catalog, "x", "x1", 1, NoName, {"q", "r"}, <<>>)
y1(catalog) == Bundle(catalog, "y", "y1", 1, NoName, {"q", "s"}, <<>>)

Edges == {a2(<<GVK("q")>>), a2(<<Pkg("x", {1})>>),
          [a2(<<GVK("q")>>) EXCEPT !.deprecated = TRUE],
          [a2(<<>>) EXCEPT !.replaces = NoName, !.skipRange = {1}],
          [a2(<<>>) EXCEPT !.skips = {"a1"}, !.replaces = "a0"]}

MCWorlds ==
    {[entries |-> {a1, a, b1(p), b2(p), x1("c1"), y1(c)} \cup i[1],
      subs |-> {Sub("a", i[2], st)} \cup o] :
        a \in Edges, p \in {{}, {"r", "s"}}, c \in {"c1", "c2"},
        i \in {<<{}, NoName>>, <<{Installed(a1, TRUE)}, "a1">>,
               <<{Installed(a1, FALSE)}, "a1">>,
               <<{Installed(x1("c1"), TRUE)}, NoName>>},
        st \in {NoName, "a1"}, o \in {{}, {Sub("b", NoName, NoName)}}}

MCCatalogOrder == <<"c2", "c1">>
MCChannelOrder == <<<<"a", "">>, <<"a", "stable">>, <<"b", "stable">>, <<"x", "">>,
                    <<"x", "stable">>, <<"y", "stable">>, <<NoName, "">>>>
MCDefaultChannel == {<<"y", "stable">>}
=============================================================================
