----------------------------- MODULE ErrorParse -----------------------------
(***************************************************************************)
(* ErrorParse: parseCoalescefiError and findFailedProgramIds.              *)
(*                                                                         *)
(* What a wallet, a connection or the runtime throws is a graph of         *)
(* objects and strings that may share children and contain cycles.  The    *)
(* parser first asks which programs the logs blame, when its caller names  *)
(* a program, and then looks for a code of the program depth first.  The   *)
(* recursion is kept as the agenda of what is still to be looked at.  A    *)
(* node bears the first known code of its logs, of its instruction error   *)
(* and of its text; how a string spells a code is left out.                *)
(***************************************************************************)
EXTENDS Naturals, Sequences, FiniteSets

CONSTANTS
    Nodes,
    Root,                  \* the value that was thrown
    Codes,                 \* CoalescefiErrorCode
    Programs,
    OwnProgram,            \* options.programId
    MaxErrorParseNodes,    \* MAX_ERROR_PARSE_NODES: 512
    Errors,                \* the error graphs that are thrown
    None

Properties == {"err", "error", "cause", "originalError", "data"}

ErrorGraphs ==
    [kind: [Nodes -> {"string", "object", "Error", "CoalescefiError"}],
     logs: [Nodes -> Codes \cup {None}],
     instruction: [Nodes -> Codes \cup {None}],
     text: [Nodes -> Codes \cup {None}],      \* a string, a message or a code
     blames: [Nodes -> SUBSET Programs],      \* "Program ... failed" in the logs
     next: [Nodes -> [Properties -> Nodes \cup {None}]]]

ASSUME ErrorsAssumption ==
    /\ IsFiniteSet(Nodes)
    /\ Root \in Nodes
    /\ OwnProgram \in Programs
    /\ MaxErrorParseNodes \in Nat
    /\ Errors \subseteq ErrorGraphs
    /\ None \notin Nodes \cup Codes /\ None \notin Errors
    /\ \A g \in Errors, n \in Nodes :
          g.kind[n] = "CoalescefiError" => g.text[n] # None

VARIABLES
    phase,        \* idle, blame, parse, done
    thrown,       \* the graph in hand
    attributed,   \* whether options.programId was given
    agenda,       \* properties still to be looked at, the next one first
    expanded,
    remaining,    \* budget.remaining
    blamed,       \* ids findFailedProgramIds has collected
    result        \* the code of the parsed error, None for null

parseVars == <<phase, thrown, attributed, agenda, expanded, remaining, blamed, result>>

-----------------------------------------------------------------------------
(* The graph                                                               *)

IsObject(n) == thrown.kind[n] # "string"
IsError(n) == thrown.kind[n] \in {"Error", "CoalescefiError"}

\* An item of the agenda names a property of a node, or the node itself.
Item(n, property) == [of |-> n, property |-> property]

\* cause is read from instances of Error only.
Target(item) ==
    IF item.property = "self" THEN item.of
    ELSE IF item.property = "cause" /\ ~IsError(item.of) THEN None
    ELSE thrown.next[item.of][item.property]

Items(n, order) == [i \in DOMAIN order |-> Item(n, order[i])]
\* Mutant: the properties of wrappers are not followed.
StandardOrder == <<"err", "error", "cause">>

WalkOrder == <<"err", "error", "cause", "originalError", "data">>

Strategies == <<"err", "error", "message", "cause", "originalError", "data">>

-----------------------------------------------------------------------------
(* Actions                                                                 *)

Visit(n) ==
    /\ agenda' = <<Item(n, "self")>>
    /\ expanded' = {}
    /\ remaining' = MaxErrorParseNodes

\* parseCoalescefiError(error, options).
Throw(g, withProgram) ==
    /\ phase = "idle"
    /\ thrown' = g
    /\ attributed' = withProgram
    /\ phase' = IF withProgram THEN "blame" ELSE "parse"
    /\ Visit(Root)
    /\ blamed' = {}
    /\ result' = None

Pass ==
    /\ agenda' = Tail(agenda)
    /\ UNCHANGED <<phase, thrown, attributed, expanded, remaining, blamed, result>>

\* Mutant: a node is looked into again whenever it is reached.
ExpandableAgain(n) == IsObject(n) /\ remaining > 0

Expandable(n) == IsObject(n) /\ n \notin expanded /\ remaining > 0

\* walk(node) in findFailedProgramIds.  A node is recorded before its properties
\* are read, so that a cycle ends.
Walk ==
    /\ phase = "blame"
    /\ agenda # <<>>
    /\ LET n == Target(Head(agenda))
       IN  IF n = None \/ ~Expandable(n) THEN Pass
           ELSE /\ agenda' = Items(n, WalkOrder) \o Tail(agenda)
                /\ expanded' = expanded \cup {n}
                /\ remaining' = remaining - 1
                /\ blamed' = blamed \cup thrown.blames[n]
                /\ UNCHANGED <<phase, thrown, attributed, result>>

Foreign == blamed # {} /\ OwnProgram \notin blamed

Attribute ==
    /\ phase = "blame"
    /\ agenda = <<>>
    /\ IF Foreign
       THEN phase' = "done" /\ UNCHANGED <<agenda, expanded, remaining>>
       ELSE phase' = "parse" /\ Visit(Root)
    /\ UNCHANGED <<thrown, attributed, blamed, result>>

Found(code) ==
    /\ result' = code
    /\ phase' = "done"
    /\ agenda' = <<>>
    /\ UNCHANGED <<thrown, attributed, expanded, remaining, blamed>>

ReadMessage(n) ==
    IF thrown.text[n] # None THEN Found(thrown.text[n]) ELSE Pass

\* parseErrorObjectStrategies: the logs and the instruction error come before
\* anything nested.
ReadObject(n) ==
    LET code == IF thrown.logs[n] # None THEN thrown.logs[n] ELSE thrown.instruction[n]
    IN  /\ expanded' = expanded \cup {n}
        /\ remaining' = remaining - 1
        /\ IF code = None
           THEN /\ agenda' = Items(n, Strategies) \o Tail(agenda)
                /\ UNCHANGED <<phase, result>>
           ELSE /\ agenda' = <<>>
                /\ phase' = "done"
                /\ result' = code
        /\ UNCHANGED <<thrown, attributed, blamed>>

\* parseCoalescefiErrorNode.
Parse ==
    /\ phase = "parse"
    /\ agenda # <<>>
    /\ LET item == Head(agenda)
           n == Target(item)
       IN  IF item.property = "message"
           THEN ReadMessage(item.of)
           ELSE IF n = None THEN Pass
           ELSE IF thrown.kind[n] \in {"CoalescefiError", "string"} THEN ReadMessage(n)
           ELSE IF Expandable(n) THEN ReadObject(n)
           ELSE Pass

NothingFound ==
    /\ phase = "parse"
    /\ agenda = <<>>
    /\ phase' = "done"
    /\ UNCHANGED <<thrown, attributed, agenda, expanded, remaining, blamed, result>>
\* The caller has acted on the result.
Forget ==
    /\ phase = "done"
    /\ phase' = "idle"
    /\ thrown' = None
    /\ attributed' = FALSE
    /\ expanded' = {}
    /\ blamed' = {}
    /\ result' = None
    /\ UNCHANGED <<agenda, remaining>>

ParseInit ==
    /\ phase = "idle"
    /\ thrown = None
    /\ attributed = FALSE
    /\ agenda = <<>>
    /\ expanded = {}
    /\ remaining = 0
    /\ blamed = {}
    /\ result = None

ParseStep == Walk \/ Attribute \/ Parse \/ NothingFound

ParseNext ==
    \/ \E g \in Errors, withProgram \in BOOLEAN : Throw(g, withProgram)
    \/ ParseStep
    \/ Forget

ParseSpec == ParseInit /\ [][ParseNext]_parseVars

-----------------------------------------------------------------------------
(* Properties                                                              *)

\* The nodes a thrown value leads to.
Links(n) == IF IsObject(n) THEN {Target(Item(n, p)) : p \in Properties} \ {None} ELSE {}
Closed(S) == \A n \in S : Links(n) \subseteq S
Reachable == {n \in Nodes : \A S \in SUBSET Nodes : Root \in S /\ Closed(S) => n \in S}

Borne(n) ==
    (IF thrown.kind[n] \in {"string", "CoalescefiError"} THEN {thrown.text[n]}
     ELSE {thrown.logs[n], thrown.instruction[n], thrown.text[n]}) \ {None}
Blames == UNION {thrown.blames[n] : n \in {m \in Reachable : IsObject(m)}}

\* The budget covers the error, as 512 objects cover every wrapper seen so far.
Fits == Cardinality({n \in Reachable : IsObject(n)}) <= MaxErrorParseNodes

ParseTypeOK ==
    /\ phase \in {"idle", "blame", "parse", "done"}
    /\ thrown = None \/ thrown \in ErrorGraphs
    /\ phase # "idle" => thrown # None
    /\ attributed \in BOOLEAN
    /\ agenda \in Seq([of: Nodes, property: Properties \cup {"self", "message"}])
    /\ expanded \subseteq Nodes
    /\ remaining \in 0..MaxErrorParseNodes
    /\ blamed \subseteq Programs
    /\ result \in Codes \cup {None}

\* When the parser answers null, no node that the thrown value leads to bears a
\* code, however the nodes are shared or linked in a circle: only an error that
\* blames foreign programs alone is left undecoded.
NoCodeHidden ==
    phase = "done" /\ result = None /\ Fits =>
        \/ attributed /\ Blames # {} /\ OwnProgram \notin Blames
        \/ \A n \in Reachable : Borne(n) = {}

\* A code that is reported is borne by a node the thrown value leads to, and no
\* log that the value leads to puts the failure on other programs alone, when
\* the caller names the program.
CodeIsOurs ==
    phase = "done" /\ result # None =>
        /\ \E n \in Reachable : result \in Borne(n)
        /\ attributed /\ Fits => Blames = {} \/ OwnProgram \in Blames
=============================================================================
