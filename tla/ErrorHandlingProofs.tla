------------------------ MODULE ErrorHandlingProofs -------------------------
(***************************************************************************)
(* Proofs about ErrorParse and ErrorHandling, for error graphs of any size *)
(* and shape, any budget and any number of attempts.                       *)
(*                                                                         *)
(* The traversal is right because what it has not reached yet is always on *)
(* the agenda: at an empty agenda the nodes it has expanded, with the      *)
(* strings between them, are closed under the links of the graph.          *)
(***************************************************************************)
EXTENDS ErrorHandling, FiniteSetTheorems, TLAPS

-----------------------------------------------------------------------------
(* The inductive invariant                                                 *)

Searching == phase \in {"blame", "parse"}

\* A string has no links; the parser has nothing to find in it without a code.
Settled(n) ==
    thrown.kind[n] = "string" /\ (phase = "parse" => thrown.text[n] = None)

OnAgenda(n) ==
    \E i \in DOMAIN agenda : agenda[i].property # "message" /\ Target(agenda[i]) = n

Covered(n) == n \in expanded \/ Settled(n) \/ OnAgenda(n)

TypeInv ==
    /\ ParseTypeOK
    /\ phase # "idle" => thrown \in Errors

\* Items lead from nodes that were expanded; the budget pays for each node once.
AgendaInv ==
    Searching =>
        /\ result = None
        /\ expanded \subseteq {n \in Reachable : IsObject(n)}
        /\ remaining + Cardinality(expanded) = MaxErrorParseNodes
        /\ \A i \in DOMAIN agenda :
              /\ agenda[i].of \in Reachable
              /\ agenda[i].property # "self" => agenda[i].of \in expanded
              /\ agenda[i].property = "message" => phase = "parse"

\* Nothing the search has come across is forgotten.
FrontierInv ==
    Searching /\ Fits =>
        /\ Covered(Root)
        /\ \A n \in expanded : \A m \in Links(n) : Covered(m)

BlameInv ==
    phase = "blame" => attributed /\ blamed = UNION {thrown.blames[n] : n \in expanded}

OursInv ==
    phase = "parse" /\ attributed /\ Fits => Blames = {} \/ OwnProgram \in Blames

ReadInv ==
    phase = "parse" =>
        \A n \in expanded :
            /\ thrown.kind[n] # "CoalescefiError"
            /\ thrown.logs[n] = None /\ thrown.instruction[n] = None
            /\ \/ thrown.text[n] = None
               \/ \E i \in DOMAIN agenda : agenda[i] = Item(n, "message")

ParseIInv ==
    TypeInv /\ AgendaInv /\ FrontierInv /\ BlameInv /\ OursInv /\ ReadInv
    /\ NoCodeHidden /\ CodeIsOurs

-----------------------------------------------------------------------------
(* The graph                                                               *)

LEMMA GraphType ==
    ASSUME NEW g \in Errors
    PROVE  /\ g.kind \in [Nodes -> {"string", "object", "Error", "CoalescefiError"}]
           /\ g.logs \in [Nodes -> Codes \cup {None}]
           /\ g.instruction \in [Nodes -> Codes \cup {None}]
           /\ g.text \in [Nodes -> Codes \cup {None}]
           /\ g.blames \in [Nodes -> SUBSET Programs]
           /\ g.next \in [Nodes -> [Properties -> Nodes \cup {None}]]
           /\ \A n \in Nodes : g.kind[n] = "CoalescefiError" => g.text[n] # None
<1>1. g \in ErrorGraphs
    BY ErrorsAssumption
<1>. QED
    BY <1>1, ErrorsAssumption DEF ErrorGraphs

LEMMA LinksType ==
    ASSUME thrown \in Errors, NEW n \in Nodes
    PROVE  Links(n) \subseteq Nodes
<1>1. \A p \in Properties : Target(Item(n, p)) \in Nodes \cup {None}
    BY GraphType DEF Target, Item, Properties
<1>. QED
    BY <1>1 DEF Links

LEMMA RootReachable == Root \in Reachable
    BY ErrorsAssumption DEF Reachable

LEMMA ReachableStep ==
    ASSUME thrown \in Errors, NEW n \in Reachable, NEW m \in Links(n)
    PROVE  m \in Reachable
<1>1. m \in Nodes
    BY LinksType DEF Reachable
<1>2. ASSUME NEW S \in SUBSET Nodes, Root \in S, Closed(S)
      PROVE  m \in S
  <2>1. n \in S
      BY <1>2 DEF Reachable
  <2>. QED
      BY <2>1, <1>2 DEF Closed
<1>. QED
    BY <1>1, <1>2 DEF Reachable

\* What is closed under links and holds the root holds all that is reachable.
LEMMA ReachableLeast ==
    ASSUME NEW S \in SUBSET Nodes, Root \in S, Closed(S)
    PROVE  Reachable \subseteq S
    BY DEF Reachable

LEMMA ReachableFinite ==
    /\ IsFiniteSet({n \in Reachable : IsObject(n)})
    /\ Cardinality({n \in Reachable : IsObject(n)}) \in Nat
<1>1. {n \in Reachable : IsObject(n)} \in SUBSET Nodes
    BY DEF Reachable
<1>. QED
    BY <1>1, ErrorsAssumption, FS_Subset, FS_CardinalityType

\* A search of the same graph has the same reachable nodes.
LEMMA SameGraph ==
    ASSUME thrown' = thrown
    PROVE  /\ \A n : IsObject(n)' = IsObject(n)
           /\ \A item : Target(item)' = Target(item)
           /\ \A n : Links(n)' = Links(n)
           /\ Reachable' = Reachable
           /\ Blames' = Blames
           /\ Fits' = Fits
           /\ \A n : Borne(n)' = Borne(n)
<1>1. /\ \A n : IsObject(n)' = IsObject(n)
      /\ \A item : Target(item)' = Target(item)
      /\ \A n : Borne(n)' = Borne(n)
    BY DEF IsObject, Target, IsError, Borne
<1>2. \A n : Links(n)' = Links(n)
    BY <1>1 DEF Links
<1>3. Reachable' = Reachable
    BY <1>2 DEF Reachable, Closed
<1>4. Blames' = Blames
    BY <1>1, <1>3 DEF Blames
<1>5. Fits' = Fits
    BY <1>1, <1>3 DEF Fits
<1>. QED
    BY <1>1, <1>2, <1>3, <1>4, <1>5

-----------------------------------------------------------------------------
(* The agenda                                                              *)

AgendaItems == [of: Nodes, property: Properties \cup {"self", "message"}]

\* Popping the first item keeps the others.
LEMMA PopKeeps ==
    ASSUME NEW S, NEW s \in Seq(S), s # <<>>
    PROVE  /\ Tail(s) \in Seq(S)
           /\ Head(s) = s[1] /\ Head(s) \in S /\ 1 \in DOMAIN s
           /\ \A i \in DOMAIN s : i # 1 => i - 1 \in DOMAIN Tail(s) /\ Tail(s)[i - 1] = s[i]
           /\ \A i \in DOMAIN Tail(s) : i + 1 \in DOMAIN s /\ Tail(s)[i] = s[i + 1]
    BY SMT

\* s becomes t when the items of front take the place of its first one.
Replaced(s, front, t) ==
    /\ t \in Seq(AgendaItems)
    /\ \A i \in DOMAIN front : \E j \in DOMAIN t : t[j] = front[i]
    /\ \A i \in DOMAIN s : i # 1 => \E j \in DOMAIN t : t[j] = s[i]
    /\ \A j \in DOMAIN t :
          \/ \E i \in DOMAIN front : t[j] = front[i]
          \/ \E i \in DOMAIN s : t[j] = s[i]

LEMMA PushKeeps ==
    ASSUME NEW s \in Seq(AgendaItems), s # <<>>, NEW front \in Seq(AgendaItems),
           NEW t, t = front \o Tail(s)
    PROVE  Replaced(s, front, t)
<1>. DEFINE rest == Tail(s)
<1>1. /\ rest \in Seq(AgendaItems)
      /\ \A i \in DOMAIN s : i # 1 => i - 1 \in DOMAIN rest /\ rest[i - 1] = s[i]
      /\ \A i \in DOMAIN rest : i + 1 \in DOMAIN s /\ rest[i] = s[i + 1]
    BY PopKeeps
<1>2. t = front \o rest
    OBVIOUS
<1>. HIDE DEF rest
<1>3. t \in Seq(AgendaItems) /\ Len(front) \in Nat
    BY <1>1, <1>2
<1>4. \A i \in DOMAIN front : i \in DOMAIN t /\ t[i] = front[i]
    BY <1>1, <1>2
<1>5. \A i \in DOMAIN rest : Len(front) + i \in DOMAIN t /\ t[Len(front) + i] = rest[i]
    BY <1>1, <1>2
<1>6. \A j \in DOMAIN t :
          \/ j \in DOMAIN front /\ t[j] = front[j]
          \/ j - Len(front) \in DOMAIN rest /\ t[j] = rest[j - Len(front)]
    BY <1>1, <1>2
<1>7. \A i \in DOMAIN s : i # 1 => \E j \in DOMAIN t : t[j] = s[i]
  <2>. SUFFICES ASSUME NEW i \in DOMAIN s, i # 1 PROVE \E j \in DOMAIN t : t[j] = s[i]
      OBVIOUS
  <2>1. i - 1 \in DOMAIN rest /\ rest[i - 1] = s[i]
      BY <1>1
  <2>2. Len(front) + (i - 1) \in DOMAIN t /\ t[Len(front) + (i - 1)] = s[i]
      BY <2>1, <1>5
  <2>. QED
      BY <2>2
<1>8. \A j \in DOMAIN t :
          (\E i \in DOMAIN front : t[j] = front[i]) \/ (\E i \in DOMAIN s : t[j] = s[i])
  <2>. SUFFICES ASSUME NEW j \in DOMAIN t, NEW k, k = j - Len(front),
                       k \in DOMAIN rest, t[j] = rest[k]
                PROVE  \E i \in DOMAIN s : t[j] = s[i]
      BY <1>6
  <2>1. k + 1 \in DOMAIN s /\ rest[k] = s[k + 1]
      BY <1>1
  <2>. QED
      BY <2>1
<1>. QED
    BY <1>3, <1>4, <1>7, <1>8 DEF Replaced

LEMMA ItemsType ==
    ASSUME NEW n \in Nodes, NEW order \in {WalkOrder, Strategies}
    PROVE  /\ Items(n, order) \in Seq(AgendaItems)
           /\ \A p \in Properties : \E i \in DOMAIN Items(n, order) : Items(n, order)[i] = Item(n, p)
           /\ \A i \in DOMAIN Items(n, order) :
                 /\ Items(n, order)[i].of = n
                 /\ Items(n, order)[i].property \in Properties \cup {"message"}
                 /\ order = WalkOrder => Items(n, order)[i].property # "message"
           /\ order = Strategies =>
                 \E i \in DOMAIN Items(n, order) : Items(n, order)[i] = Item(n, "message")
<1>1. CASE order = WalkOrder
  <2>. DEFINE s == <<Item(n, "err"), Item(n, "error"), Item(n, "cause"),
                     Item(n, "originalError"), Item(n, "data")>>
  <2>1. /\ Items(n, order) = s /\ DOMAIN s = 1..5 /\ order # Strategies
      BY <1>1 DEF Items, WalkOrder, Strategies
  <2>2. \A p \in Properties : Item(n, p) \in AgendaItems
      BY DEF Item, AgendaItems
  <2>3. s \in Seq(AgendaItems)
      BY <2>2 DEF Properties
  <2>4. \A p \in Properties : \E i \in 1..5 : s[i] = Item(n, p)
      BY DEF Properties
  <2>5. \A i \in 1..5 : s[i].of = n /\ s[i].property \in Properties /\ s[i].property # "message"
      BY DEF Properties, Item
  <2>. HIDE DEF s
  <2>. QED
      BY <2>1, <2>3, <2>4, <2>5
<1>2. CASE order = Strategies
  <2>. DEFINE s == <<Item(n, "err"), Item(n, "error"), Item(n, "message"), Item(n, "cause"),
                     Item(n, "originalError"), Item(n, "data")>>
  <2>1. /\ Items(n, order) = s /\ DOMAIN s = 1..6 /\ order # WalkOrder
      BY <1>2 DEF Items, WalkOrder, Strategies
  <2>2. \A p \in Properties \cup {"message"} : Item(n, p) \in AgendaItems
      BY DEF Item, AgendaItems
  <2>3. s \in Seq(AgendaItems)
      BY <2>2 DEF Properties
  <2>4. \A p \in Properties \cup {"message"} : \E i \in 1..6 : s[i] = Item(n, p)
      BY DEF Properties
  <2>5. \A i \in 1..6 : s[i].of = n /\ s[i].property \in Properties \cup {"message"}
      BY DEF Properties, Item
  <2>. HIDE DEF s
  <2>. QED
      BY <2>1, <2>3, <2>4, <2>5
<1>. QED
    BY <1>1, <1>2

-----------------------------------------------------------------------------
(* The search                                                              *)

Inductive == TypeInv /\ AgendaInv /\ FrontierInv

\* An item leads to a reachable node or nowhere.
LEMMA ItemLeads ==
    ASSUME Inductive, Searching, NEW i \in DOMAIN agenda, agenda[i].property # "message",
           Target(agenda[i]) # None
    PROVE  Target(agenda[i]) \in Reachable
<1>. DEFINE item == agenda[i]
<1>1. item \in AgendaItems /\ item.of \in Reachable /\ thrown \in Errors
  <2>1. agenda \in Seq(AgendaItems) /\ thrown \in Errors
      BY DEF Inductive, TypeInv, ParseTypeOK, AgendaItems, Searching
  <2>2. item \in AgendaItems
      BY <2>1, SMT
  <2>. QED
      BY <2>1, <2>2 DEF Inductive, AgendaInv
<1>2. CASE item.property = "self"
    BY <1>1, <1>2 DEF Target
<1>3. CASE item.property # "self"
  <2>1. item.property \in Properties /\ IsObject(item.of)
      BY <1>1, <1>3 DEF AgendaItems, Inductive, AgendaInv
  <2>2. Target(item) = Target(Item(item.of, item.property))
      BY DEF Item, Target
  <2>3. Target(item) \in Links(item.of)
      BY <2>1, <2>2 DEF Links
  <2>. QED
      BY <1>1, <2>3, ReachableStep
<1>. QED
    BY <1>2, <1>3

\* The budget is not spent while a reachable object is left, if it covers them.
LEMMA BudgetSuffices ==
    ASSUME Inductive, Searching, Fits,
           NEW n \in Reachable, IsObject(n), n \notin expanded
    PROVE  remaining > 0
<1>. DEFINE R == {m \in Reachable : IsObject(m)}
<1>1. IsFiniteSet(R) /\ expanded \subseteq R /\ n \in R
    BY ReachableFinite DEF Inductive, AgendaInv
<1>2. IsFiniteSet(expanded) /\ Cardinality(expanded) <= Cardinality(R)
      /\ Cardinality(expanded) # Cardinality(R)
    BY <1>1, FS_Subset
<1>3. Cardinality(expanded) \in Nat /\ Cardinality(R) \in Nat
    BY <1>1, <1>2, FS_CardinalityType
<1>4. Cardinality(R) <= MaxErrorParseNodes
    BY DEF Fits
<1>. HIDE DEF R
<1>5. remaining + Cardinality(expanded) = MaxErrorParseNodes /\ remaining \in Nat
    BY DEF Inductive, AgendaInv, TypeInv, ParseTypeOK
<1>. QED
    BY <1>2, <1>3, <1>4, <1>5, ErrorsAssumption

\* At an empty agenda everything reachable has been looked at.
LEMMA SearchComplete ==
    ASSUME Inductive, Searching, Fits, agenda = <<>>
    PROVE  Reachable \subseteq expanded \cup {n \in Nodes : Settled(n)}
<1>. DEFINE S == expanded \cup {n \in Nodes : Settled(n)}
<1>1. \A n : ~OnAgenda(n)
    BY DEF OnAgenda
<1>2. S \in SUBSET Nodes /\ thrown \in Errors
    BY DEF Inductive, TypeInv, ParseTypeOK, Searching
<1>3. Root \in S
    BY <1>1, ErrorsAssumption DEF Inductive, FrontierInv, Covered
<1>4. \A n \in S : Links(n) \subseteq S
  <2>1. \A n \in expanded : Links(n) \subseteq Nodes
      BY <1>2, LinksType
  <2>2. \A n \in expanded : Links(n) \subseteq S
      BY <1>1, <2>1 DEF Inductive, FrontierInv, Covered
  <2>3. \A n : Settled(n) => Links(n) = {}
      BY DEF Settled, Links, IsObject
  <2>. QED
      BY <2>2, <2>3
<1>. QED
    BY <1>2, <1>3, <1>4, ReachableLeast DEF Closed

\* An item that leads to nothing new is dropped.
LEMMA Dropped ==
    ASSUME Inductive, Searching, agenda # <<>>, Pass,
           \/ Head(agenda).property = "message"
           \/ Target(Head(agenda)) \in expanded
           \/ Settled(Target(Head(agenda)))
           \/ Target(Head(agenda)) = None
           \/ ~Fits
    PROVE  Inductive' /\ \A n : OnAgenda(n)' => OnAgenda(n)
<1>1. agenda \in Seq(AgendaItems) /\ thrown \in Errors
    BY DEF Inductive, TypeInv, ParseTypeOK, AgendaItems, Searching
<1>2. /\ agenda' = Tail(agenda)
      /\ UNCHANGED <<phase, thrown, attributed, expanded, remaining, blamed, result>>
    BY DEF Pass
<1>3. /\ Tail(agenda) \in Seq(AgendaItems)
      /\ Head(agenda) = agenda[1]
      /\ \A i \in DOMAIN agenda :
            i # 1 => i - 1 \in DOMAIN Tail(agenda) /\ Tail(agenda)[i - 1] = agenda[i]
      /\ \A i \in DOMAIN Tail(agenda) : i + 1 \in DOMAIN agenda /\ Tail(agenda)[i] = agenda[i + 1]
    BY <1>1, PopKeeps
<1>4. /\ \A n : IsObject(n)' = IsObject(n)
      /\ \A item : Target(item)' = Target(item)
      /\ \A n : Links(n)' = Links(n)
      /\ Reachable' = Reachable /\ Fits' = Fits
    BY <1>2, SameGraph
<1>5. TypeInv'
    BY <1>1, <1>2, <1>3 DEF Inductive, TypeInv, ParseTypeOK, AgendaItems
<1>6. AgendaInv'
    BY <1>2, <1>3, <1>4 DEF Inductive, AgendaInv, Searching
<1>7. \A n : OnAgenda(n) => OnAgenda(n)' \/ (n = Target(Head(agenda)) /\ Head(agenda).property # "message")
    BY <1>2, <1>3, <1>4 DEF OnAgenda
<1>8. \A n : OnAgenda(n)' => OnAgenda(n)
    BY <1>2, <1>3, <1>4 DEF OnAgenda
<1>9. \A n : Settled(n)' = Settled(n)
    BY <1>2 DEF Settled
<1>10. ASSUME Fits PROVE \A n \in Nodes : Covered(n) => Covered(n)'
    BY <1>2, <1>7, <1>9, <1>10, ErrorsAssumption DEF Covered
<1>11. FrontierInv'
  <2>1. SUFFICES ASSUME Fits PROVE Covered(Root)' /\ \A n \in expanded : \A m \in Links(n) : Covered(m)'
      BY <1>2, <1>4 DEF FrontierInv
  <2>2. \A n \in expanded : Links(n) \subseteq Nodes
      BY <1>1, LinksType DEF Inductive, TypeInv, ParseTypeOK
  <2>. QED
      BY <2>1, <2>2, <1>10, ErrorsAssumption DEF Inductive, FrontierInv
<1>. QED
    BY <1>5, <1>6, <1>8, <1>11 DEF Inductive

\* An object is expanded and its properties come first on the agenda.
LEMMA Pushed ==
    ASSUME Inductive, Searching, agenda # <<>>, Head(agenda).property # "message",
           NEW order \in {WalkOrder, Strategies}, order = Strategies <=> phase = "parse",
           NEW n, n = Target(Head(agenda)), n # None, Expandable(n),
           agenda' = Items(n, order) \o Tail(agenda),
           expanded' = expanded \cup {n},
           remaining' = remaining - 1,
           UNCHANGED <<phase, thrown, result>>
    PROVE  /\ n \in Reachable
           /\ agenda' \in Seq(AgendaItems)
           /\ remaining' \in 0..MaxErrorParseNodes
           /\ AgendaInv' /\ FrontierInv'
           /\ \A i \in DOMAIN agenda :
                 agenda[i].property = "message" =>
                     \E j \in DOMAIN agenda' : agenda'[j] = agenda[i]
           /\ phase = "parse" => \E j \in DOMAIN agenda' : agenda'[j] = Item(n, "message")
<1>1. agenda \in Seq(AgendaItems) /\ thrown \in Errors
    BY DEF Inductive, TypeInv, ParseTypeOK, AgendaItems, Searching
<1>2. /\ Tail(agenda) \in Seq(AgendaItems)
      /\ Head(agenda) = agenda[1] /\ 1 \in DOMAIN agenda
      /\ \A i \in DOMAIN agenda :
            i # 1 => i - 1 \in DOMAIN Tail(agenda) /\ Tail(agenda)[i - 1] = agenda[i]
      /\ \A i \in DOMAIN Tail(agenda) : i + 1 \in DOMAIN agenda /\ Tail(agenda)[i] = agenda[i + 1]
    BY <1>1, PopKeeps
<1>3. n \in Reachable /\ n \in Nodes
    BY <1>2, ItemLeads DEF Reachable
<1>. DEFINE front == Items(n, order)
<1>4. /\ front \in Seq(AgendaItems)
      /\ \A p \in Properties : \E i \in DOMAIN front : front[i] = Item(n, p)
      /\ \A i \in DOMAIN front :
            /\ front[i].of = n
            /\ front[i].property \in Properties \cup {"message"}
            /\ order = WalkOrder => front[i].property # "message"
      /\ order = Strategies => \E i \in DOMAIN front : front[i] = Item(n, "message")
    BY <1>3, ItemsType
<1>. HIDE DEF front
<1>5. /\ agenda' \in Seq(AgendaItems)
      /\ \A i \in DOMAIN front : \E j \in DOMAIN agenda' : agenda'[j] = front[i]
      /\ \A i \in DOMAIN agenda : i # 1 => \E j \in DOMAIN agenda' : agenda'[j] = agenda[i]
      /\ \A j \in DOMAIN agenda' :
            \/ \E i \in DOMAIN front : agenda'[j] = front[i]
            \/ \E i \in DOMAIN agenda : agenda'[j] = agenda[i]
  <2>1. agenda' = front \o Tail(agenda)
      BY DEF front
  <2>2. Replaced(agenda, front, agenda')
      BY <2>1, <1>1, <1>4, PushKeeps, Zenon
  <2>. QED
      BY <2>2 DEF Replaced
<1>6. /\ \A m : IsObject(m)' = IsObject(m)
      /\ \A item : Target(item)' = Target(item)
      /\ \A m : Links(m)' = Links(m)
      /\ Reachable' = Reachable /\ Fits' = Fits
    BY SameGraph
<1>9. remaining \in Nat /\ remaining > 0 /\ remaining <= MaxErrorParseNodes
    BY DEF Expandable, Inductive, TypeInv, ParseTypeOK
<1>10. /\ expanded \subseteq {m \in Reachable : IsObject(m)}
       /\ remaining + Cardinality(expanded) = MaxErrorParseNodes
       /\ result = None
       /\ \A i \in DOMAIN agenda :
             /\ agenda[i].of \in Reachable
             /\ agenda[i].property # "self" => agenda[i].of \in expanded
             /\ agenda[i].property = "message" => phase = "parse"
    BY DEF Inductive, AgendaInv
<1>11. Cardinality(expanded') = Cardinality(expanded) + 1 /\ Cardinality(expanded) \in Nat
  <2>1. IsFiniteSet(expanded)
      BY <1>10, ReachableFinite, FS_Subset
  <2>. QED
      BY <2>1, FS_AddElement, FS_CardinalityType DEF Expandable
<1>12. AgendaInv'
  <2>1. result' = None /\ expanded' \subseteq {m \in Reachable' : IsObject(m)'}
      BY <1>3, <1>6, <1>10 DEF Expandable
  <2>2. remaining' + Cardinality(expanded') = MaxErrorParseNodes
      BY <1>9, <1>10, <1>11, ErrorsAssumption
  <2>3. ASSUME NEW j \in DOMAIN agenda'
        PROVE  /\ agenda'[j].of \in Reachable'
               /\ agenda'[j].property # "self" => agenda'[j].of \in expanded'
               /\ agenda'[j].property = "message" => phase' = "parse"
    <3>1. CASE \E i \in DOMAIN front : agenda'[j] = front[i]
        BY <3>1, <1>3, <1>4, <1>6
    <3>2. CASE \E i \in DOMAIN agenda : agenda'[j] = agenda[i]
        BY <3>2, <1>6, <1>10
    <3>. QED
        BY <2>3, <3>1, <3>2, <1>5
  <2>. QED
      BY <2>1, <2>2, <2>3 DEF AgendaInv
<1>13. \A m : Settled(m)' = Settled(m)
    BY DEF Settled
<1>14. \A m : Covered(m) => Covered(m)'
  <2>1. \A m : OnAgenda(m) => m = n \/ OnAgenda(m)'
    <3>. SUFFICES ASSUME NEW m, NEW i \in DOMAIN agenda, agenda[i].property # "message",
                         Target(agenda[i]) = m, m # n
                  PROVE  OnAgenda(m)'
        BY DEF OnAgenda
    <3>1. i # 1
        BY <1>2
    <3>2. PICK j \in DOMAIN agenda' : agenda'[j] = agenda[i]
        BY <3>1, <1>5
    <3>. QED
        BY <3>2, <1>6 DEF OnAgenda
  <2>. QED
      BY <2>1, <1>13 DEF Covered
<1>15. \A m \in Links(n) : Covered(m)'
  <2>1. SUFFICES ASSUME NEW m \in Links(n) PROVE OnAgenda(m)'
      BY DEF Covered
  <2>2. PICK p \in Properties : m = Target(Item(n, p))
      BY DEF Links
  <2>3. PICK i \in DOMAIN front : front[i] = Item(n, p)
      BY <1>4
  <2>4. PICK j \in DOMAIN agenda' : agenda'[j] = front[i]
      BY <1>5
  <2>5. Item(n, p).property # "message"
      BY DEF Item, Properties
  <2>. QED
      BY <2>2, <2>3, <2>4, <2>5, <1>6 DEF OnAgenda
<1>16. FrontierInv'
  <2>1. SUFFICES ASSUME Fits
                 PROVE  Covered(Root)' /\ \A m \in expanded' : \A l \in Links(m) : Covered(l)'
      BY <1>6 DEF FrontierInv
  <2>. QED
      BY <2>1, <1>14, <1>15 DEF Inductive, FrontierInv
<1>17. \A i \in DOMAIN agenda :
           agenda[i].property = "message" => \E j \in DOMAIN agenda' : agenda'[j] = agenda[i]
    BY <1>2, <1>5
<1>18. phase = "parse" => \E j \in DOMAIN agenda' : agenda'[j] = Item(n, "message")
  <2>1. SUFFICES ASSUME phase = "parse"
                 PROVE  \E j \in DOMAIN agenda' : agenda'[j] = Item(n, "message")
      OBVIOUS
  <2>2. PICK i \in DOMAIN front : front[i] = Item(n, "message")
      BY <2>1, <1>4
  <2>. QED
      BY <2>2, <1>5
<1>. QED
  <2>1. remaining' \in 0..MaxErrorParseNodes
      BY <1>9, ErrorsAssumption
  <2>. QED
      BY <2>1, <1>3, <1>5, <1>12, <1>16, <1>17, <1>18

-----------------------------------------------------------------------------
(* The steps of the parser                                                 *)

\* An item is dropped, and if it asked for a message the node bears none.
LEMMA PassKeeps ==
    ASSUME ParseIInv, Searching, agenda # <<>>, Pass,
           \/ Head(agenda).property = "message" /\ thrown.text[Head(agenda).of] = None
           \/ /\ Head(agenda).property # "message"
              /\ \/ Target(Head(agenda)) \in expanded
                 \/ Settled(Target(Head(agenda)))
                 \/ Target(Head(agenda)) = None
                 \/ ~Fits
    PROVE  ParseIInv'
<1>1. Inductive /\ agenda \in Seq(AgendaItems)
    BY DEF ParseIInv, Inductive, TypeInv, ParseTypeOK, AgendaItems
<1>2. Inductive'
    BY <1>1, Dropped
<1>3. /\ agenda' = Tail(agenda)
      /\ UNCHANGED <<phase, thrown, attributed, expanded, remaining, blamed, result>>
    BY DEF Pass
<1>4. BlameInv'
    BY <1>3 DEF ParseIInv, BlameInv
<1>5. Fits' = Fits /\ Blames' = Blames
    BY <1>3, SameGraph
<1>6. OursInv'
    BY <1>3, <1>5 DEF ParseIInv, OursInv
<1>7. ReadInv'
  <2>1. SUFFICES ASSUME phase = "parse", NEW n \in expanded, thrown.text[n] # None
                 PROVE  \E j \in DOMAIN Tail(agenda) : Tail(agenda)[j] = Item(n, "message")
      BY <1>3 DEF ParseIInv, ReadInv, Item
  <2>2. PICK i \in DOMAIN agenda : agenda[i] = Item(n, "message")
      BY <2>1 DEF ParseIInv, ReadInv
  <2>3. Head(agenda) = agenda[1]
      BY <1>1, PopKeeps
  <2>4. i # 1
      BY <2>1, <2>2, <2>3 DEF Item
  <2>5. i - 1 \in DOMAIN Tail(agenda) /\ Tail(agenda)[i - 1] = agenda[i]
      BY <2>4, <1>1, PopKeeps
  <2>. QED
      BY <2>2, <2>5
<1>8. NoCodeHidden' /\ CodeIsOurs'
    BY <1>3 DEF NoCodeHidden, CodeIsOurs, Searching
<1>. QED
    BY <1>2, <1>4, <1>6, <1>7, <1>8 DEF ParseIInv, Inductive

\* An object is expanded: its logs have been read, its properties are to be.
LEMMA ExpandKeeps ==
    ASSUME ParseIInv, Searching, agenda # <<>>, Head(agenda).property # "message",
           NEW order \in {WalkOrder, Strategies}, order = Strategies <=> phase = "parse",
           NEW n, n = Target(Head(agenda)), n # None, Expandable(n),
           agenda' = Items(n, order) \o Tail(agenda),
           expanded' = expanded \cup {n},
           remaining' = remaining - 1,
           UNCHANGED <<phase, thrown, attributed, result>>,
           blamed' = IF phase = "blame" THEN blamed \cup thrown.blames[n] ELSE blamed,
           phase = "parse" => /\ thrown.kind[n] # "CoalescefiError"
                              /\ thrown.logs[n] = None /\ thrown.instruction[n] = None
    PROVE  ParseIInv'
<1>1. Inductive /\ thrown \in Errors
    BY DEF ParseIInv, Inductive, TypeInv, Searching
<1>2. /\ n \in Reachable
      /\ agenda' \in Seq(AgendaItems)
      /\ remaining' \in 0..MaxErrorParseNodes
      /\ AgendaInv' /\ FrontierInv'
      /\ \A i \in DOMAIN agenda :
            agenda[i].property = "message" =>
                \E j \in DOMAIN agenda' : agenda'[j] = agenda[i]
      /\ phase = "parse" => \E j \in DOMAIN agenda' : agenda'[j] = Item(n, "message")
    BY <1>1, Pushed
<1>3. n \in Nodes /\ thrown.blames[n] \subseteq Programs
    BY <1>1, <1>2, GraphType DEF Reachable
<1>4. TypeInv'
    BY <1>2, <1>3 DEF ParseIInv, TypeInv, ParseTypeOK, AgendaItems
<1>5. BlameInv'
    BY DEF ParseIInv, BlameInv
<1>6. Fits' = Fits /\ Blames' = Blames
    BY SameGraph
<1>7. OursInv'
    BY <1>6 DEF ParseIInv, OursInv
<1>8. ReadInv'
  <2>1. SUFFICES ASSUME phase = "parse", NEW m \in expanded', m # n, thrown.text[m] # None
                 PROVE  \E j \in DOMAIN agenda' : agenda'[j] = Item(m, "message")
      BY <1>2 DEF ParseIInv, ReadInv, Item
  <2>2. PICK i \in DOMAIN agenda : agenda[i] = Item(m, "message")
      BY <2>1 DEF ParseIInv, ReadInv
  <2>3. agenda[i].property = "message"
      BY <2>2 DEF Item
  <2>. QED
      BY <2>2, <2>3, <1>2
<1>9. NoCodeHidden' /\ CodeIsOurs'
    BY DEF NoCodeHidden, CodeIsOurs, Searching
<1>. QED
    BY <1>2, <1>4, <1>5, <1>7, <1>8, <1>9 DEF ParseIInv

\* A code is reported that a reachable node bears.
LEMMA FoundKeeps ==
    ASSUME ParseIInv, phase = "parse", NEW n \in Reachable, NEW code \in Borne(n),
           result' = code, phase' = "done", agenda' = <<>>,
           expanded' \subseteq Nodes, remaining' \in 0..MaxErrorParseNodes,
           UNCHANGED <<thrown, attributed, blamed>>
    PROVE  ParseIInv'
<1>1. thrown \in Errors /\ n \in Nodes
    BY DEF ParseIInv, TypeInv, Reachable
<1>2. code \in Codes /\ code # None
    BY <1>1, GraphType, ErrorsAssumption DEF Borne
<1>3. /\ Fits' = Fits /\ Blames' = Blames /\ Reachable' = Reachable
      /\ \A m : Borne(m)' = Borne(m)
    BY SameGraph
<1>4. TypeInv'
    BY <1>2 DEF ParseIInv, TypeInv, ParseTypeOK
<1>5. AgendaInv' /\ FrontierInv' /\ BlameInv' /\ OursInv' /\ ReadInv' /\ NoCodeHidden'
    BY <1>2 DEF AgendaInv, FrontierInv, BlameInv, OursInv, ReadInv, NoCodeHidden, Searching
<1>6. CodeIsOurs'
  <2>1. \E m \in Reachable' : result' \in Borne(m)'
      BY <1>3
  <2>2. attributed /\ Fits => Blames = {} \/ OwnProgram \in Blames
      BY DEF ParseIInv, OursInv
  <2>. QED
      BY <2>1, <2>2, <1>3 DEF CodeIsOurs
<1>. QED
    BY <1>4, <1>5, <1>6 DEF ParseIInv

\* A search starts at the root, after the programs have been told from ours.
LEMMA StartKeeps ==
    ASSUME thrown' \in Errors, phase' \in {"blame", "parse"}, result' = None,
           attributed' \in BOOLEAN, blamed' \subseteq Programs,
           agenda' = <<Item(Root, "self")>>, expanded' = {}, remaining' = MaxErrorParseNodes,
           phase' = "blame" => attributed' /\ blamed' = {},
           OursInv'
    PROVE  ParseIInv'
<1>1. Item(Root, "self") \in AgendaItems /\ Target(Item(Root, "self"))' = Root
      /\ Item(Root, "self").property = "self" /\ Item(Root, "self").of = Root
    BY ErrorsAssumption DEF AgendaItems, Item, Target
<1>2. agenda' \in Seq(AgendaItems) /\ DOMAIN agenda' = {1} /\ agenda'[1] = Item(Root, "self")
    BY <1>1
<1>3. thrown' \in ErrorGraphs /\ thrown' # None
    BY ErrorsAssumption
<1>4. TypeInv'
    BY <1>2, <1>3, ErrorsAssumption DEF TypeInv, ParseTypeOK, AgendaItems
<1>5. AgendaInv'
  <2>1. Root \in Reachable'
      BY ErrorsAssumption DEF Reachable
  <2>2. Cardinality({}) = 0
      BY FS_EmptySet
  <2>. QED
      BY <1>1, <1>2, <2>1, <2>2, ErrorsAssumption DEF AgendaInv
<1>6. FrontierInv'
    BY <1>1, <1>2 DEF FrontierInv, Covered, OnAgenda
<1>7. BlameInv' /\ ReadInv' /\ NoCodeHidden' /\ CodeIsOurs'
    BY DEF BlameInv, ReadInv, NoCodeHidden, CodeIsOurs
<1>. QED
    BY <1>4, <1>5, <1>6, <1>7 DEF ParseIInv

LEMMA ThrowKeeps ==
    ASSUME ParseIInv, NEW g \in Errors, NEW withProgram \in BOOLEAN, Throw(g, withProgram)
    PROVE  ParseIInv'
<1>1. OursInv'
    BY DEF Throw, OursInv
<1>. QED
    BY <1>1, StartKeeps DEF Throw, Visit

\* An object that is not expanded has been, or the budget is too small for the error.
LEMMA NotExpandable ==
    ASSUME Inductive, Searching, agenda # <<>>, Head(agenda).property # "message",
           NEW n, n = Target(Head(agenda)), n # None, IsObject(n), ~Expandable(n)
    PROVE  n \in expanded \/ ~Fits
<1>1. Head(agenda) = agenda[1] /\ 1 \in DOMAIN agenda
    BY PopKeeps DEF Inductive, TypeInv, ParseTypeOK, AgendaItems
<1>2. n \in Reachable
    BY <1>1, ItemLeads
<1>. QED
    BY <1>2, BudgetSuffices DEF Expandable

LEMMA WalkKeeps ==
    ASSUME ParseIInv, Walk
    PROVE  ParseIInv'
<1>. DEFINE n == Target(Head(agenda))
<1>1. phase = "blame" /\ agenda # <<>> /\ Inductive /\ Searching
    BY DEF Walk, ParseIInv, Inductive, Searching
<1>2. Head(agenda).property # "message"
  <2>1. Head(agenda) = agenda[1] /\ 1 \in DOMAIN agenda
      BY <1>1, PopKeeps DEF Inductive, TypeInv, ParseTypeOK, AgendaItems
  <2>. QED
      BY <1>1, <2>1 DEF Inductive, AgendaInv
<1>3. CASE n = None \/ ~Expandable(n)
  <2>1. Pass
      BY <1>3 DEF Walk
  <2>2. n \in expanded \/ Settled(n) \/ n = None \/ ~Fits
    <3>1. CASE ~IsObject(n)
        BY <3>1, <1>1 DEF IsObject, Settled
    <3>2. CASE IsObject(n) /\ n # None
        BY <3>2, <1>1, <1>2, <1>3, NotExpandable
    <3>. QED
        BY <3>1, <3>2
  <2>. QED
      BY <2>1, <2>2, <1>1, <1>2, PassKeeps
<1>4. CASE n # None /\ Expandable(n)
  <2>1. /\ agenda' = Items(n, WalkOrder) \o Tail(agenda)
        /\ expanded' = expanded \cup {n}
        /\ remaining' = remaining - 1
        /\ blamed' = blamed \cup thrown.blames[n]
        /\ UNCHANGED <<phase, thrown, attributed, result>>
      BY <1>4 DEF Walk
  <2>2. WalkOrder # Strategies
      BY DEF WalkOrder, Strategies
  <2>. HIDE DEF n
  <2>. QED
      BY <2>1, <2>2, <1>1, <1>2, <1>4, ExpandKeeps DEF n
<1>. QED
    BY <1>3, <1>4

\* The ids collected are those of every object the thrown value leads to.
LEMMA BlamesFound ==
    ASSUME ParseIInv, phase = "blame", agenda = <<>>, Fits
    PROVE  blamed = Blames /\ attributed
<1>1. Reachable \subseteq expanded \cup {m \in Nodes : Settled(m)}
    BY SearchComplete DEF ParseIInv, Inductive, Searching
<1>2. expanded \subseteq {m \in Reachable : IsObject(m)}
    BY DEF ParseIInv, AgendaInv, Searching
<1>3. expanded = {m \in Reachable : IsObject(m)}
    BY <1>1, <1>2 DEF Settled, IsObject
<1>. QED
    BY <1>3 DEF ParseIInv, BlameInv, Blames

LEMMA AttributeKeeps ==
    ASSUME ParseIInv, Attribute
    PROVE  ParseIInv'
<1>1. /\ phase = "blame" /\ agenda = <<>> /\ result = None /\ thrown \in Errors
      /\ attributed \in BOOLEAN /\ blamed \subseteq Programs
      /\ UNCHANGED <<thrown, attributed, blamed, result>>
    BY DEF Attribute, ParseIInv, AgendaInv, TypeInv, ParseTypeOK, Searching
<1>2. Fits' = Fits /\ Blames' = Blames
    BY <1>1, SameGraph
<1>3. CASE Foreign
  <2>1. phase' = "done" /\ UNCHANGED <<agenda, expanded, remaining>>
      BY <1>3 DEF Attribute
  <2>2. TypeInv'
      BY <1>1, <2>1 DEF ParseIInv, TypeInv, ParseTypeOK
  <2>3. AgendaInv' /\ FrontierInv' /\ BlameInv' /\ OursInv' /\ ReadInv' /\ CodeIsOurs'
      BY <1>1, <2>1 DEF AgendaInv, FrontierInv, BlameInv, OursInv, ReadInv, CodeIsOurs, Searching
  <2>4. NoCodeHidden'
    <3>1. Fits => attributed /\ Blames # {} /\ OwnProgram \notin Blames
        BY <1>1, <1>3, BlamesFound DEF Foreign
    <3>. QED
        BY <3>1, <1>1, <1>2 DEF NoCodeHidden
  <2>. QED
      BY <2>2, <2>3, <2>4 DEF ParseIInv
<1>4. CASE ~Foreign
  <2>1. phase' = "parse" /\ Visit(Root)
      BY <1>4 DEF Attribute
  <2>2. Fits => Blames = {} \/ OwnProgram \in Blames
      BY <1>1, <1>4, BlamesFound DEF Foreign
  <2>3. OursInv'
      BY <2>2, <1>2 DEF OursInv
  <2>. QED
      BY <2>1, <2>3, <1>1, StartKeeps DEF Visit
<1>. QED
    BY <1>3, <1>4

LEMMA ParseKeeps ==
    ASSUME ParseIInv, Parse
    PROVE  ParseIInv'
<1>. DEFINE item == Head(agenda)
            n == Target(item)
<1>1. phase = "parse" /\ agenda # <<>> /\ Inductive /\ Searching
    BY DEF Parse, ParseIInv, Inductive, Searching
<1>2. /\ item = agenda[1] /\ 1 \in DOMAIN agenda /\ thrown \in Errors
      /\ expanded \subseteq Nodes /\ remaining \in 0..MaxErrorParseNodes
      /\ MaxErrorParseNodes \in Nat
    BY <1>1, PopKeeps, ErrorsAssumption DEF Inductive, TypeInv, ParseTypeOK, AgendaItems
<1>3. ASSUME NEW m \in Reachable, NEW code \in Borne(m), Found(code)
      PROVE  ParseIInv'
    BY <1>1, <1>2, <1>3, FoundKeeps DEF Found
<1>4. CASE item.property = "message"
  <2>1. item.of \in expanded /\ item.of \in Reachable /\ IsObject(item.of)
        /\ thrown.kind[item.of] # "CoalescefiError"
      BY <1>1, <1>2, <1>4 DEF ParseIInv, AgendaInv, ReadInv
  <2>2. ReadMessage(item.of)
      BY <1>4 DEF Parse
  <2>3. CASE thrown.text[item.of] # None
    <3>1. thrown.text[item.of] \in Borne(item.of)
        BY <2>1, <2>3 DEF Borne, IsObject
    <3>. QED
        BY <3>1, <2>1, <2>2, <2>3, <1>3 DEF ReadMessage
  <2>4. CASE thrown.text[item.of] = None
      BY <2>2, <2>4, <1>1, <1>4, PassKeeps DEF ReadMessage
  <2>. QED
      BY <2>3, <2>4
<1>5. CASE item.property # "message" /\ n = None
  <2>1. Pass
      BY <1>5 DEF Parse
  <2>. QED
      BY <2>1, <1>1, <1>5, PassKeeps
<1>6. CASE item.property # "message" /\ n # None
  <2>1. n \in Reachable /\ n \in Nodes
      BY <1>1, <1>2, <1>6, ItemLeads DEF Reachable
  <2>. HIDE DEF n
  <2>2. CASE thrown.kind[n] \in {"CoalescefiError", "string"}
    <3>1. ReadMessage(n)
        BY <1>6, <2>2 DEF Parse, n
    <3>2. CASE thrown.text[n] # None
      <4>1. thrown.text[n] \in Borne(n)
          BY <2>2, <3>2 DEF Borne
      <4>. QED
          BY <4>1, <2>1, <3>1, <3>2, <1>3 DEF ReadMessage
    <3>3. CASE thrown.text[n] = None
      <4>1. Pass /\ Settled(n)
          BY <1>2, <2>1, <2>2, <3>1, <3>3, GraphType DEF ReadMessage, Settled
      <4>. QED
          BY <4>1, <1>1, <1>6, PassKeeps DEF n
    <3>. QED
        BY <3>2, <3>3
  <2>3. CASE thrown.kind[n] \notin {"CoalescefiError", "string"} /\ Expandable(n)
    <3>. DEFINE code == IF thrown.logs[n] # None THEN thrown.logs[n] ELSE thrown.instruction[n]
    <3>1. ReadObject(n)
        BY <1>6, <2>3 DEF Parse, n
    <3>2. CASE code = None
      <4>1. /\ agenda' = Items(n, Strategies) \o Tail(agenda)
            /\ expanded' = expanded \cup {n}
            /\ remaining' = remaining - 1
            /\ UNCHANGED <<phase, thrown, attributed, result, blamed>>
          BY <3>1, <3>2 DEF ReadObject
      <4>2. thrown.logs[n] = None /\ thrown.instruction[n] = None
          BY <3>2
      <4>. QED
          BY <4>1, <4>2, <1>1, <1>6, <2>3, ExpandKeeps DEF n
    <3>3. CASE code # None
      <4>1. /\ agenda' = <<>> /\ phase' = "done" /\ result' = code
            /\ expanded' = expanded \cup {n}
            /\ remaining' = remaining - 1
            /\ UNCHANGED <<thrown, attributed, blamed>>
          BY <3>1, <3>3 DEF ReadObject
      <4>2. code \in Borne(n)
          BY <2>3, <3>3 DEF Borne
      <4>3. expanded' \subseteq Nodes /\ remaining' \in 0..MaxErrorParseNodes
          BY <4>1, <1>2, <2>1, <2>3 DEF Expandable
      <4>. HIDE DEF code
      <4>. QED
          BY <4>1, <4>2, <4>3, <1>1, <2>1, FoundKeeps
    <3>. QED
        BY <3>2, <3>3
  <2>4. CASE thrown.kind[n] \notin {"CoalescefiError", "string"} /\ ~Expandable(n)
    <3>1. Pass
        BY <1>6, <2>4 DEF Parse, n
    <3>2. n \in expanded \/ ~Fits
        BY <1>1, <1>6, <2>4, NotExpandable DEF n, IsObject
    <3>. QED
        BY <3>1, <3>2, <1>1, <1>6, PassKeeps DEF n
  <2>. QED
      BY <2>2, <2>3, <2>4
<1>. QED
    BY <1>4, <1>5, <1>6

LEMMA NothingFoundKeeps ==
    ASSUME ParseIInv, NothingFound
    PROVE  ParseIInv'
<1>1. /\ phase = "parse" /\ agenda = <<>> /\ phase' = "done" /\ thrown \in Errors
      /\ UNCHANGED <<thrown, attributed, agenda, expanded, remaining, blamed, result>>
      /\ result = None
    BY DEF NothingFound, ParseIInv, TypeInv, AgendaInv, Searching
<1>2. TypeInv'
    BY <1>1 DEF ParseIInv, TypeInv, ParseTypeOK
<1>3. AgendaInv' /\ FrontierInv' /\ BlameInv' /\ OursInv' /\ ReadInv' /\ CodeIsOurs'
    BY <1>1 DEF AgendaInv, FrontierInv, BlameInv, OursInv, ReadInv, CodeIsOurs, Searching
<1>4. Fits => \A n \in Reachable : Borne(n) = {}
  <2>1. SUFFICES ASSUME Fits, NEW n \in Reachable PROVE Borne(n) = {}
      OBVIOUS
  <2>2. n \in expanded \/ Settled(n)
      BY <1>1, <2>1, SearchComplete DEF ParseIInv, Inductive, Searching
  <2>3. CASE n \in expanded
    <3>1. IsObject(n)
        BY <1>1, <2>3 DEF ParseIInv, AgendaInv, Searching
    <3>2. /\ thrown.kind[n] # "CoalescefiError" /\ thrown.logs[n] = None
          /\ thrown.instruction[n] = None /\ thrown.text[n] = None
        BY <1>1, <2>3 DEF ParseIInv, ReadInv
    <3>. QED
        BY <3>1, <3>2 DEF Borne, IsObject
  <2>4. CASE Settled(n)
      BY <2>4, <1>1 DEF Settled, Borne
  <2>. QED
      BY <2>2, <2>3, <2>4
<1>5. NoCodeHidden'
  <2>1. /\ Fits' = Fits /\ Reachable' = Reachable /\ \A n : Borne(n)' = Borne(n)
      BY <1>1, SameGraph
  <2>. QED
      BY <2>1, <1>4 DEF NoCodeHidden
<1>. QED
    BY <1>2, <1>3, <1>5 DEF ParseIInv

LEMMA ForgetKeeps ==
    ASSUME ParseIInv, Forget
    PROVE  ParseIInv'
    BY DEF Forget, ParseIInv, TypeInv, ParseTypeOK, AgendaInv, FrontierInv, BlameInv,
           OursInv, ReadInv, NoCodeHidden, CodeIsOurs, Searching

LEMMA ParseStutter ==
    ASSUME ParseIInv, UNCHANGED parseVars
    PROVE  ParseIInv'
<1>1. /\ Fits' = Fits /\ Blames' = Blames /\ Reachable' = Reachable
      /\ (\A n : IsObject(n)' = IsObject(n)) /\ (\A item : Target(item)' = Target(item))
      /\ (\A n : Links(n)' = Links(n)) /\ (\A n : Borne(n)' = Borne(n))
    BY SameGraph DEF parseVars
<1>2. \A n : Covered(n)' = Covered(n)
    BY <1>1 DEF Covered, Settled, OnAgenda, parseVars
<1>3. TypeInv' /\ BlameInv' /\ ReadInv'
    BY DEF ParseIInv, TypeInv, ParseTypeOK, BlameInv, ReadInv, parseVars
<1>4. AgendaInv'
    BY <1>1 DEF ParseIInv, AgendaInv, Searching, parseVars
<1>5. FrontierInv'
    BY <1>1, <1>2 DEF ParseIInv, FrontierInv, Searching, parseVars
<1>6. OursInv' /\ NoCodeHidden' /\ CodeIsOurs'
    BY <1>1 DEF ParseIInv, OursInv, NoCodeHidden, CodeIsOurs, parseVars
<1>. QED
    BY <1>3, <1>4, <1>5, <1>6 DEF ParseIInv

LEMMA ParseInitHolds == ParseInit => ParseIInv
<1>. SUFFICES ASSUME ParseInit PROVE ParseIInv
    OBVIOUS
<1>. USE DEF ParseInit
<1>1. agenda \in Seq(AgendaItems) /\ remaining \in 0..MaxErrorParseNodes
    BY ErrorsAssumption
<1>2. TypeInv
    BY <1>1 DEF TypeInv, ParseTypeOK, AgendaItems
<1>. QED
    BY <1>2 DEF ParseIInv, AgendaInv, FrontierInv, BlameInv, OursInv, ReadInv, NoCodeHidden,
       CodeIsOurs, Searching

LEMMA ParseStepKeeps == ParseIInv /\ [ParseNext]_parseVars => ParseIInv'
<1>. SUFFICES ASSUME ParseIInv, [ParseNext]_parseVars PROVE ParseIInv'
    OBVIOUS
<1>. QED
    BY ThrowKeeps, WalkKeeps, AttributeKeeps, ParseKeeps, NothingFoundKeeps, ForgetKeeps,
       ParseStutter DEF ParseNext, ParseStep

-----------------------------------------------------------------------------
(* The parser by itself                                                    *)

\* The parser's state has its types, for any graphs of errors.
THEOREM ParserTypeCorrect == ParseSpec => []ParseTypeOK
<1>1. ParseIInv => ParseTypeOK
    BY DEF ParseIInv, TypeInv
<1>. QED
    BY <1>1, ParseInitHolds, ParseStepKeeps, PTL DEF ParseSpec

\* However the thrown value is linked, the parser answers null only if no node
\* that it leads to bears a code, or if only foreign programs are blamed.
THEOREM ParserHidesNothing == ParseSpec => []NoCodeHidden
<1>1. ParseIInv => NoCodeHidden
    BY DEF ParseIInv
<1>. QED
    BY <1>1, ParseInitHolds, ParseStepKeeps, PTL DEF ParseSpec

\* A code the parser reports is borne by the thrown value and never by an error
\* that is another program's alone.
THEOREM ParserReportsOurs == ParseSpec => []CodeIsOurs
<1>1. ParseIInv => CodeIsOurs
    BY DEF ParseIInv
<1>. QED
    BY <1>1, ParseInitHolds, ParseStepKeeps, PTL DEF ParseSpec

-----------------------------------------------------------------------------
(* The callers                                                             *)

CallType ==
    /\ caller \in Callers
    /\ stage \in {"idle", "sending", "parsing", "waiting", "returned", "raised"}
    /\ stage = "parsing" <=> phase # "idle"
    /\ stage = "parsing" => caller # "sendWithRetry"
    /\ attempt \in 0..MaxAttempts
    /\ stage \in {"sending", "parsing", "waiting"} => attempt \in 1..MaxAttempts
    /\ stage = "waiting" => attempt < MaxAttempts
    /\ inFlight \subseteq 1..attempt /\ landed \subseteq 1..attempt
    /\ raised.class \in {"none", "CoalescefiError", "SdkError", "Error", "object", "string"}

\* An attempt of sendAndConfirm that may have taken effect is its last: the error
\* it ended with says nothing, and the client does not retry what says nothing.
LastAttemptInv ==
    /\ stage = "idle" => landed \cup inFlight = {}
    /\ stage # "raised" => raised.class = "none"
    /\ caller = "sendAndConfirm" =>
          /\ landed \cup inFlight \subseteq {attempt}
          /\ stage \in {"sending", "waiting"} => landed \cup inFlight = {}
          /\ stage = "parsing" /\ landed \cup inFlight # {} => Inconclusive(thrown)
          /\ raised.class = "CoalescefiError" => landed \cup inFlight = {}

HandlingIInv == ParseIInv /\ CallType /\ LastAttemptInv

LEMMA RaisesOfType ==
    ASSUME NEW g \in Errors, NEW transient
    PROVE  Raw(g, transient).class \in {"CoalescefiError", "Error", "object", "string"}
<1>1. g.kind[Root] \in {"string", "object", "Error", "CoalescefiError"}
    BY GraphType, ErrorsAssumption
<1>. QED
    BY <1>1 DEF Raw, ProgramError

\* The parser reads a code only from an error that says what happened.
LEMMA CodesAreConclusive ==
    ASSUME ParseIInv, phase = "done", result # None
    PROVE  ~Inconclusive(thrown)
<1>1. PICK n \in Reachable : result \in Borne(n)
    BY DEF ParseIInv, CodeIsOurs
<1>2. n \in Nodes
    BY DEF Reachable
<1>. QED
    BY <1>1, <1>2 DEF Borne, Inconclusive

LEMMA WrappedIsFinal == ~IsRetryableError(Wrapped)
    BY DEF IsRetryableError, Wrapped

\* Every step of a call is a step of the parser, or leaves the parser alone.
LEMMA HandlingParses ==
    ASSUME [Next]_vars
    PROVE  [ParseNext]_parseVars
<1>1. CASE Fails
    BY <1>1 DEF Fails, ParseNext
<1>2. CASE Parsing
    BY <1>2 DEF Parsing, ParseNext
<1>3. CASE Parsed
    BY <1>3 DEF Parsed, ParseNext
<1>4. CASE UNCHANGED vars
    BY <1>4 DEF vars
<1>. QED
    BY <1>1, <1>2, <1>3, <1>4 DEF Next, Begin, Confirmed, Refresh, Land, Expire, Finish

LEMMA FailsKeeps ==
    ASSUME HandlingIInv, Fails
    PROVE  CallType' /\ LastAttemptInv'
<1>. USE DEF HandlingIInv
<1>1. PICK g \in Errors, transient \in BOOLEAN, sent \in BOOLEAN :
          /\ sent => Inconclusive(g)
          /\ inFlight' = IF sent THEN inFlight \cup {attempt} ELSE inFlight
          /\ \/ /\ caller = "sendWithRetry"
                /\ Settle(Raw(g, transient))
                /\ UNCHANGED parseVars
             \/ /\ caller # "sendWithRetry"
                /\ Throw(g, caller = "sendAndConfirm")
                /\ stage' = "parsing"
                /\ UNCHANGED raised
    BY DEF Fails
<1>2. /\ stage = "sending" /\ attempt \in 1..MaxAttempts
      /\ UNCHANGED <<caller, attempt, landed>>
      /\ inFlight' \subseteq inFlight \cup {attempt} /\ phase = "idle"
    BY <1>1 DEF Fails, CallType
<1>3. inFlight' \subseteq 1..attempt' /\ landed' \subseteq 1..attempt'
    BY <1>2, HandlingAssumption DEF CallType
<1>4. CASE caller = "sendWithRetry"
  <2>1. Settle(Raw(g, transient)) /\ phase' = "idle"
      BY <1>1, <1>2, <1>4 DEF parseVars
  <2>2. /\ stage' \in {"waiting", "raised"}
        /\ stage' = "waiting" => attempt < MaxAttempts /\ raised' = NoError
        /\ stage' = "raised" => raised' = Raw(g, transient)
      BY <2>1 DEF Settle, Retries
  <2>3. raised'.class \in {"none", "CoalescefiError", "Error", "object", "string"}
      BY <2>2, RaisesOfType DEF NoError
  <2>4. stage' # "raised" => raised'.class = "none"
      BY <2>2 DEF NoError
  <2>. QED
      BY <1>2, <1>3, <1>4, <2>1, <2>2, <2>3, <2>4 DEF CallType, LastAttemptInv
<1>5. CASE caller # "sendWithRetry"
  <2>1. thrown' = g /\ phase' # "idle" /\ stage' = "parsing" /\ UNCHANGED raised
      BY <1>1, <1>5 DEF Throw
  <2>2. caller = "sendAndConfirm" => landed \cup inFlight = {}
      BY <1>2 DEF LastAttemptInv
  <2>3. caller = "sendAndConfirm" /\ landed' \cup inFlight' # {} => sent /\ inFlight' = {attempt}
      BY <1>1, <1>2, <2>2
  <2>4. sent => Inconclusive(thrown)'
      BY <1>1, <2>1 DEF Inconclusive
  <2>5. raised.class = "none"
      BY <1>2 DEF LastAttemptInv
  <2>6. CallType'
      BY <1>2, <1>3, <1>5, <2>1 DEF CallType
  <2>7. LastAttemptInv'
      BY <1>2, <2>1, <2>2, <2>3, <2>4, <2>5 DEF LastAttemptInv
  <2>. QED
      BY <2>6, <2>7
<1>. QED
    BY <1>4, <1>5

LEMMA ParsedKeeps ==
    ASSUME HandlingIInv, Parsed
    PROVE  CallType' /\ LastAttemptInv'
<1>. USE DEF HandlingIInv
<1>1. /\ stage = "parsing" /\ phase = "done" /\ phase' = "idle"
      /\ attempt \in 1..MaxAttempts
      /\ UNCHANGED <<caller, attempt, inFlight, landed>>
    BY DEF Parsed, Forget, CallType
<1>2. thrown.kind[Root] \in {"string", "object", "Error", "CoalescefiError"}
    BY <1>1, GraphType, ErrorsAssumption DEF ParseIInv, TypeInv
<1>3. CASE caller = "sendAndConfirm" /\ Settle(Handled)
  <2>1. Handled.class \in {"CoalescefiError", "SdkError"}
        /\ (Handled.class = "CoalescefiError" => result # None)
      BY DEF Handled, ProgramError, Wrapped
  <2>2. Retries(Handled) => attempt < MaxAttempts /\ result # None
      BY WrappedIsFinal DEF Retries, Handled
  <2>3. result # None => landed \cup inFlight = {}
      BY <1>1, <1>3, CodesAreConclusive DEF LastAttemptInv
  <2>4. /\ stage' \in {"waiting", "raised"}
        /\ stage' = "waiting" => Retries(Handled) /\ raised' = NoError
        /\ stage' = "raised" => raised' = Handled
      BY <1>3 DEF Settle
  <2>5. /\ raised'.class \in {"none", "CoalescefiError", "SdkError"}
        /\ stage' # "raised" => raised'.class = "none"
        /\ raised'.class = "CoalescefiError" => result # None
      BY <2>1, <2>4 DEF NoError
  <2>6. CallType'
      BY <1>1, <2>2, <2>4, <2>5 DEF CallType
  <2>7. LastAttemptInv'
      BY <1>1, <1>3, <2>2, <2>3, <2>4, <2>5 DEF LastAttemptInv
  <2>. QED
      BY <2>6, <2>7
<1>4. CASE caller = "sendWithErrorHandling" /\ stage' = "raised" /\ raised' = HandledByExample
  <2>1. raised'.class \in {"string", "object", "Error", "CoalescefiError"}
      BY <1>2, <1>4 DEF HandledByExample, ProgramError
  <2>2. CallType'
      BY <1>1, <1>4, <2>1 DEF CallType
  <2>3. LastAttemptInv'
      BY <1>1, <1>4 DEF LastAttemptInv
  <2>. QED
      BY <2>2, <2>3
<1>. QED
    BY <1>3, <1>4 DEF Parsed

LEMMA HandlingStepKeeps ==
    ASSUME HandlingIInv, [Next]_vars
    PROVE  HandlingIInv'
<1>1. ParseIInv'
    BY HandlingParses, ParseStepKeeps DEF HandlingIInv
<1>. SUFFICES CallType' /\ LastAttemptInv'
    BY <1>1 DEF HandlingIInv
<1>. USE DEF HandlingIInv
<1>2. ASSUME NEW c \in Callers, Begin(c) PROVE CallType' /\ LastAttemptInv'
    BY <1>2, HandlingAssumption DEF Begin, CallType, LastAttemptInv, parseVars
<1>3. CASE Confirmed
    BY <1>3 DEF Confirmed, CallType, LastAttemptInv, parseVars
<1>4. CASE Fails
    BY <1>4, FailsKeeps
<1>5. CASE Parsing
  <2>1. phase # "idle" /\ phase' # "idle" /\ thrown' = thrown /\ UNCHANGED callVars
      BY <1>5 DEF Parsing, ParseStep, Walk, Attribute, Parse, NothingFound, Pass, ReadMessage,
         ReadObject, Found
  <2>2. Inconclusive(thrown)' = Inconclusive(thrown)
      BY <2>1 DEF Inconclusive
  <2>. QED
      BY <2>1, <2>2 DEF CallType, LastAttemptInv, callVars
<1>6. CASE Parsed
    BY <1>6, ParsedKeeps
<1>7. CASE Refresh
  <2>1. attempt \in 1..MaxAttempts /\ attempt < MaxAttempts
      BY <1>7 DEF Refresh, CallType
  <2>2. attempt + 1 \in 1..MaxAttempts /\ 1..attempt \subseteq 1..(attempt + 1)
      BY <2>1, HandlingAssumption
  <2>3. caller = "sendAndConfirm" => landed \cup inFlight = {}
      BY <1>7 DEF Refresh, LastAttemptInv
  <2>4. UNCHANGED <<phase, caller, inFlight, landed>> /\ stage = "waiting"
      BY <1>7 DEF Refresh, parseVars
  <2>5. CASE stage' = "sending" /\ attempt' = attempt + 1 /\ UNCHANGED raised
      BY <2>1, <2>2, <2>3, <2>4, <2>5 DEF CallType, LastAttemptInv
  <2>6. CASE stage' = "raised" /\ raised' = [class |-> "Error"] /\ UNCHANGED attempt
      BY <2>1, <2>3, <2>4, <2>6 DEF CallType, LastAttemptInv
  <2>. QED
      BY <1>7, <2>5, <2>6 DEF Refresh, NextAttempt
<1>8. ASSUME NEW a \in Attempts, Land(a) \/ Expire(a) PROVE CallType' /\ LastAttemptInv'
  <2>1. /\ inFlight' \subseteq inFlight /\ landed' \cup inFlight' \subseteq landed \cup inFlight
        /\ UNCHANGED <<phase, thrown, caller, stage, attempt, raised>>
        /\ landed' \subseteq landed \cup inFlight
      BY <1>8 DEF Land, Expire, parseVars
  <2>2. Inconclusive(thrown)' = Inconclusive(thrown)
      BY <2>1 DEF Inconclusive
  <2>3. CallType'
      BY <2>1 DEF CallType
  <2>4. LastAttemptInv'
      BY <2>1, <2>2 DEF LastAttemptInv
  <2>. QED
      BY <2>3, <2>4
<1>9. CASE Finish
    BY <1>9, HandlingAssumption DEF Finish, CallType, LastAttemptInv, parseVars, NoError
<1>10. CASE UNCHANGED vars
    BY <1>10 DEF vars, parseVars, callVars, CallType, LastAttemptInv, Inconclusive
<1>. QED
    BY <1>2, <1>3, <1>4, <1>5, <1>6, <1>7, <1>8, <1>9, <1>10 DEF Next

LEMMA HandlingInit == Init => HandlingIInv
<1>. SUFFICES ASSUME Init PROVE HandlingIInv
    OBVIOUS
<1>1. ParseIInv
    BY ParseInitHolds DEF Init
<1>2. CallType /\ LastAttemptInv
    BY HandlingAssumption DEF Init, ParseInit, CallType, LastAttemptInv, Callers, NoError
<1>. QED
    BY <1>1, <1>2 DEF HandlingIInv

-----------------------------------------------------------------------------
(* Theorems                                                                *)

THEOREM HandlingInvariant == Spec => []HandlingIInv
    BY HandlingInit, HandlingStepKeeps, PTL DEF Spec

\* Handling an error implements the parser: the callers throw into it and take
\* its answer, and disturb nothing of it.
THEOREM HandlingImplementsParser == Spec => ParseSpec
<1>1. Init => ParseInit
    BY DEF Init
<1>. QED
    BY <1>1, HandlingParses, PTL DEF Spec, ParseSpec

\* The state of the parser and of its callers has its types.
THEOREM HandlingTypeCorrect == Spec => []TypeOK
<1>1. HandlingIInv => TypeOK
    BY DEF HandlingIInv, ParseIInv, TypeInv, CallType, TypeOK
<1>. QED
    BY <1>1, HandlingInvariant, PTL

\* No code of the program is hidden from the callers.
THEOREM NoCodeIsHidden == Spec => []NoCodeHidden
<1>1. HandlingIInv => NoCodeHidden
    BY DEF HandlingIInv, ParseIInv
<1>. QED
    BY <1>1, HandlingInvariant, PTL

\* No code that the callers act on is made up or another program's.
THEOREM CodesAreOurs == Spec => []CodeIsOurs
<1>1. HandlingIInv => CodeIsOurs
    BY DEF HandlingIInv, ParseIInv
<1>. QED
    BY <1>1, HandlingInvariant, PTL

\* Acting on isRetryableError never sends an operation twice, with any number of
\* attempts, if the error comes from the client.
THEOREM RetriesAreSafeForTheClient == Spec => []ClientRetriesAreSafe
<1>1. HandlingIInv => ClientRetriesAreSafe
  <2>. SUFFICES ASSUME HandlingIInv, caller = "sendAndConfirm"
                PROVE  /\ Cardinality(landed \cup inFlight) <= 1
                       /\ raised.class = "CoalescefiError" => landed \cup inFlight = {}
      BY DEF ClientRetriesAreSafe
  <2>1. landed \cup inFlight = {} \/ landed \cup inFlight = {attempt}
      BY DEF HandlingIInv, LastAttemptInv
  <2>2. Cardinality({}) = 0 /\ Cardinality({attempt}) = 1
      BY FS_EmptySet, FS_Singleton
  <2>3. Cardinality(landed \cup inFlight) <= 1
      BY <2>1, <2>2
  <2>. QED
      BY <2>3 DEF HandlingIInv, LastAttemptInv
<1>. QED
    BY <1>1, HandlingInvariant, PTL
=============================================================================
