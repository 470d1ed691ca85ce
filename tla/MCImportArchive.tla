--------------------------- MODULE MCImportArchive ---------------------------
(* Model-checking instances of ImportArchive: archives of up to three      *)
(* interesting members behind the ones every archive needs, and broken     *)
(* variants of those.                                                      *)
EXTENDS ImportArchive

Text(segments) == [clean |-> TRUE, segments |-> segments]
NoText == Text(<<"">>)

Plain(type, segments)   == [name |-> Text(segments), type |-> type, target |-> NoText]
LinkTo(type, segments, target) ==
    [name |-> Text(segments), type |-> type, target |-> Text(target)]

Root   == Plain("dir", <<".", "">>)
Home   == Plain("dir", <<".", "home", "">>)
Agent  == Plain("dir", <<".", "home", "agent", "">>)

MCNames == {"", ".", "..", "home", "agent", "d", "f", "h", "k", "l", "m", "x", "y", "z", "p",
            "none", "etc"}
MCRequired == <<<<"home">>, <<"home", "agent">>>>

Good ==
    {Plain("dir", <<".", "home", "agent", "d", "">>),
     Plain("file", <<".", "home", "agent", "d", "f">>),
     Plain("file", <<".", "home", "agent", "m", "f">>),
     Plain("file", <<".", "f">>)}

Links ==
    {LinkTo("symlink", <<".", "home", "agent", "l">>, t) :
       t \in {<<"m">>, <<"l">>, <<"d", "f">>, <<"..", "k", "f">>, <<"..", "..">>}}
    \cup {LinkTo("symlink", <<".", "home", "agent", "m">>, t) :
       t \in {<<"l">>, <<"d">>, <<"l", "f">>, <<".", "..", "..", "f">>}}
    \cup {LinkTo("symlink", <<".", "home", "k">>, t) :
       t \in {<<"agent", "l">>, <<"agent", "d">>, <<"agent", "m", "..", "..">>}}
    \cup {LinkTo("hardlink", <<".", "home", "agent", "h">>, t) :
       t \in {<<"home", "agent", "l">>, <<"home", "agent", "d", "f">>,
              <<"f">>, <<"home", "agent">>}}

Odd ==
    {Plain("file", <<"">>), Plain("special", <<"home", "p">>),
     Plain("file", <<"", "home", "x">>), Plain("file", <<"home", "..", "x">>),
     [Plain("file", <<"x">>) EXCEPT !.name.clean = FALSE],
     Plain("file", <<"home", "", "agent", ".", "l">>),
     Plain("file", <<"home", "agent", "l", "y", "z">>),
     Plain("file", <<"home", "none", "x">>),
     LinkTo("symlink", <<"home", "agent", "l">>, <<"", "etc">>),
     LinkTo("symlink", <<"home", "agent", "l">>, <<".">>),
     LinkTo("symlink", <<"home", "agent", "l">>, <<"..", "..", "..", "f">>),
     LinkTo("symlink", <<"home", "agent", "l">>, <<"d", "..", "..", "..", "..">>),
     [LinkTo("symlink", <<"home", "agent", "l">>, <<"d">>) EXCEPT !.target.clean = FALSE],
     LinkTo("hardlink", <<"home", "agent", "h">>, <<"..", "f">>)}

\* Any two members in any order, and any three in some order and in its reverse.
Two   == BoundedSeq(Good \cup Links, 2)
Three == {SetToSeq(S) : S \in kSubset(3, Good \cup Links)}

\* No instance needs an order of the needed members other than tar's.
MCArchives ==
    {<<Root, Home, Agent>> \o s : s \in Two \cup Three \cup {Reverse(s) : s \in Three}}
    \cup {<<Root, Home, Agent>> \o s : s \in BoundedSeq(Good \cup Odd, 2)}
    \cup {<<Home, Agent>> \o s : s \in BoundedSeq(Links, 2)}
    \cup {<<>>, <<Root>>, <<Agent, Home>>, <<Root, Agent>>, <<Root, Home>>}
    \cup {<<Root, Home, LinkTo("symlink", <<"home", "agent">>, <<"..", "home">>)>>}
    \cup {<<Root, Home, Agent, Root, Home, Agent, Root>>}

=============================================================================
