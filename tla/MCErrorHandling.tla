--------------------------- MODULE MCErrorHandling --------------------------
(***************************************************************************)
(* A small instance of ErrorHandling for TLC.  An Error wraps an object    *)
(* and a leaf below up to two properties; the object may wrap the leaf or  *)
(* point back.  One code at a time is borne somewhere, of either sort.     *)
(***************************************************************************)
EXTENDS ErrorHandling

CONSTANTS top, wrapper, leaf, paused, other, own, foreign

SomeNodes == {top, wrapper, leaf}

TopLinks ==
    {f \in [Properties -> {wrapper, leaf, None}] :
        Cardinality({p \in Properties : f[p] # None}) <= 2}

Link(property, n) == [p \in Properties |-> IF p = property THEN n ELSE None]
NoLink == [p \in Properties |-> None]
WrapperLinks == {NoLink, Link("err", top), Link("data", leaf), Link("cause", leaf)}

\* Where a code is borne, which, and what the leaf is.
Contents ==
    [place: {"nowhere"}, code: {None}, leaf: {"string", "object"}]
    \cup [place: {"instruction"}, code: {paused}, leaf: {"string"}]
    \cup [place: {"message", "logs"}, code: {other}, leaf: {"string"}]
    \cup [place: {"leaf"}, code: {other}, leaf: {"string", "object"}]
    \cup [place: {"leaf"}, code: {paused}, leaf: {"CoalescefiError"}]

At(n, bears, code) == [m \in SomeNodes |-> IF m = n /\ bears THEN code ELSE None]

Blamed == {<<{}, {}>>, <<{foreign}, {}>>, <<{own}, {foreign}>>}

Graph(links, below, c, b) ==
    [kind |-> [n \in SomeNodes |-> CASE n = top -> "Error" [] n = wrapper -> "object" [] OTHER -> c.leaf],
     logs |-> At(wrapper, c.place = "logs", c.code),
     instruction |-> At(top, c.place = "instruction", c.code),
     text |-> [n \in SomeNodes |-> IF \/ n = top /\ c.place = "message"
                                      \/ n = leaf /\ c.place = "leaf"
                                   THEN c.code ELSE None],
     blames |-> [n \in SomeNodes |-> CASE n = wrapper -> b[1] [] n = leaf -> b[2] [] OTHER -> {}],
     next |-> [n \in SomeNodes |-> CASE n = top -> links [] n = wrapper -> below [] OTHER -> NoLink]]

SomeErrors ==
    {Graph(links, below, c, b) :
        links \in TopLinks, below \in WrapperLinks, c \in Contents, b \in Blamed}
=============================================================================
