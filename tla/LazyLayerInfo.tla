---------------------------- MODULE LazyLayerInfo ----------------------------
(***************************************************************************)
(* The layer information of a segmentation, made by the first caller who   *)
(* needs it and published with one compare-and-exchange:                   *)
(*                                                                         *)
(*   FCCSWHCalPhiTheta_k4geo, FCCSWHCalPhiRow_k4geo    getLayerInfo        *)
(*   FCCSWGridModuleThetaMerged_k4geo                  position            *)
(*   FCCSWEndcapTurbine_k4geo                          getLocalZ           *)
(*                                                                         *)
(* Segmentations are shared by all threads and their queries are const.    *)
(* A query may look up several layers, and keeps references into the table *)
(* until it returns.  Tables live on a heap whose memory is used again.    *)
(***************************************************************************)
EXTENDS Naturals

CONSTANTS
  Threads,
  Blocks,         \* memory: at least one more than there are threads
  Null,
  Cells,          \* cells queries are made for
  BadCells,       \* cells for which the table cannot be made: it throws
  NumLayers,      \* layers of the table
  LayersAsked,    \* layers that are asked for
  MaxLookups      \* bound: of layers a query looks up

ASSUME LazyAssumption ==
  /\ Null \notin Blocks /\ Null \notin Cells /\ BadCells \subseteq Cells
  /\ NumLayers \in Nat /\ LayersAsked \subseteq Nat /\ MaxLookups \in Nat

VARIABLES
  memory,         \* of each block: "free", "filled" while made, or "table"
  madeFor,        \* the cell whose query made the table in a block
  size,           \* layers of the table in a block
  m_layerInfo,
  pc, cID,        \* where a thread is, and the cell of its query
  layer,          \* it looks up
  liv, liv_new,   \* its pointers
  refs,           \* blocks it has references into
  lookups,
  alive           \* the segmentation is: until its destructor runs

heap == <<memory, madeFor, size>>
vars == <<heap, m_layerInfo, pc, cID, layer, liv, liv_new, refs, lookups, alive>>

-----------------------------------------------------------------------------
(***************************************************************************)
(* A query.                                                                *)
(***************************************************************************)
Start(t, c, l) ==
  /\ pc[t] = "idle" /\ alive
  /\ pc' = [pc EXCEPT ![t] = "load"]
  /\ cID' = [cID EXCEPT ![t] = c] /\ layer' = [layer EXCEPT ![t] = l]
  /\ lookups' = [lookups EXCEPT ![t] = 1]
  /\ UNCHANGED <<heap, m_layerInfo, liv, liv_new, refs, alive>>

\* liv = m_layerInfo.load()
Load(t) ==
  /\ pc[t] = "load"
  /\ liv' = [liv EXCEPT ![t] = m_layerInfo]
  /\ pc' = [pc EXCEPT ![t] = IF m_layerInfo = Null THEN "new" ELSE "at"]
  /\ UNCHANGED <<heap, m_layerInfo, cID, layer, liv_new, refs, lookups, alive>>

\* liv_new = new std::vector: from here on the table is being made.
New(t) ==
  /\ pc[t] = "new"
  /\ \E b \in Blocks :
       /\ memory[b] = "free"
       /\ memory' = [memory EXCEPT ![b] = "filled"]
       /\ madeFor' = [madeFor EXCEPT ![b] = cID[t]]
       /\ size' = [size EXCEPT ![b] = 0]
       /\ liv_new' = [liv_new EXCEPT ![t] = b]
  /\ pc' = [pc EXCEPT ![t] = "init"]
  /\ UNCHANGED <<m_layerInfo, cID, layer, liv, refs, lookups, alive>>

\* initLayerInfo, one layer after the other.
InitLayer(t) ==
  /\ pc[t] = "init" /\ cID[t] \notin BadCells /\ size[liv_new[t]] < NumLayers
  /\ size' = [size EXCEPT ![liv_new[t]] = @ + 1]
  /\ UNCHANGED <<memory, madeFor, m_layerInfo, pc, cID, layer, liv, liv_new, refs,
                 lookups, alive>>

Made(t) ==
  /\ pc[t] = "init" /\ cID[t] \notin BadCells /\ size[liv_new[t]] = NumLayers
  /\ memory' = [memory EXCEPT ![liv_new[t]] = "table"]
  /\ pc' = [pc EXCEPT ![t] = "exchange"]
  /\ UNCHANGED <<madeFor, size, m_layerInfo, cID, layer, liv, liv_new, refs, lookups,
                 alive>>

\* What the query throws leaves it with nothing in its hands.
Unwound(t) ==
  /\ pc' = [pc EXCEPT ![t] = "idle"]
  /\ liv' = [liv EXCEPT ![t] = Null] /\ liv_new' = [liv_new EXCEPT ![t] = Null]
  /\ refs' = [refs EXCEPT ![t] = {}]

\* Mutant: a table that could not be made is lost.
LostOnThrow(t) == UNCHANGED memory

FreedOnThrow(t) == memory' = [memory EXCEPT ![liv_new[t]] = "free"]

\* initLayerInfo throws: the new expression gives the memory back.
InitThrows(t) ==
  /\ pc[t] = "init" /\ cID[t] \in BadCells
  /\ FreedOnThrow(t) /\ Unwound(t)
  /\ UNCHANGED <<madeFor, size, m_layerInfo, cID, layer, lookups, alive>>

\* Mutant: a plain store.
Stored(t) ==
  /\ m_layerInfo' = liv_new[t]
  /\ liv' = [liv EXCEPT ![t] = liv_new[t]] /\ liv_new' = [liv_new EXCEPT ![t] = Null]
  /\ pc' = [pc EXCEPT ![t] = "at"]

\* Mutant: who lost keeps the table it has made.
KeepsItsOwn(t) ==
  /\ m_layerInfo' = IF m_layerInfo = Null THEN liv_new[t] ELSE m_layerInfo
  /\ liv' = [liv EXCEPT ![t] = liv_new[t]] /\ liv_new' = [liv_new EXCEPT ![t] = Null]
  /\ pc' = [pc EXCEPT ![t] = "at"]

\* Mutant: who lost tries again.
TriesAgain(t) ==
  IF m_layerInfo = Null THEN Stored(t)
  ELSE /\ pc' = [pc EXCEPT ![t] = "init"]
       /\ UNCHANGED <<m_layerInfo, liv, liv_new>>

\* Mutant: who lost does not know what to delete.
ForgetsItsOwn(t) ==
  IF m_layerInfo = Null THEN Stored(t)
  ELSE /\ liv' = [liv EXCEPT ![t] = m_layerInfo] /\ liv_new' = [liv_new EXCEPT ![t] = Null]
       /\ pc' = [pc EXCEPT ![t] = "delete"] /\ UNCHANGED m_layerInfo

\* compare_exchange_strong(liv, liv_new) and liv = liv_new, or else liv is
\* what another thread has published.
CompareExchange(t) ==
  IF m_layerInfo = Null
  THEN /\ m_layerInfo' = liv_new[t]
       /\ liv' = [liv EXCEPT ![t] = liv_new[t]] /\ liv_new' = [liv_new EXCEPT ![t] = Null]
       /\ pc' = [pc EXCEPT ![t] = "at"]
  ELSE /\ liv' = [liv EXCEPT ![t] = m_layerInfo]
       /\ pc' = [pc EXCEPT ![t] = "delete"]
       /\ UNCHANGED <<m_layerInfo, liv_new>>

Exchange(t) ==
  /\ pc[t] = "exchange"
  /\ CompareExchange(t)
  /\ UNCHANGED <<heap, cID, layer, refs, lookups, alive>>

\* Mutant: the pointer that lost is taken for the one that won.
WrongOne(t) == liv[t]

Loser(t) == liv_new[t]

\* delete liv_new
Delete(t) ==
  /\ pc[t] = "delete"
  /\ memory' = [memory EXCEPT ![Loser(t)] = "free"]
  /\ liv_new' = [liv_new EXCEPT ![t] = Null]
  /\ pc' = [pc EXCEPT ![t] = "at"]
  /\ UNCHANGED <<madeFor, size, m_layerInfo, cID, layer, liv, refs, lookups, alive>>

\* liv->at(layer): a reference, or an exception for a layer there is not.
At(t) ==
  /\ pc[t] = "at"
  /\ IF layer[t] < size[liv[t]]
     THEN /\ refs' = [refs EXCEPT ![t] = @ \cup {liv[t]}]
          /\ pc' = [pc EXCEPT ![t] = "holds"]
          /\ UNCHANGED <<liv, liv_new>>
     ELSE Unwound(t)
  /\ UNCHANGED <<heap, m_layerInfo, cID, layer, lookups, alive>>

\* neighbours() goes on to another layer, not above the size it reads from
\* m_layerInfo anew.
LookUpNext(t, l) ==
  /\ pc[t] = "holds" /\ lookups[t] < MaxLookups
  /\ l < size[m_layerInfo]
  /\ pc' = [pc EXCEPT ![t] = "load"] /\ layer' = [layer EXCEPT ![t] = l]
  /\ lookups' = [lookups EXCEPT ![t] = @ + 1]
  /\ UNCHANGED <<heap, m_layerInfo, cID, liv, liv_new, refs, alive>>

Return(t) ==
  /\ pc[t] = "holds"
  /\ Unwound(t)
  /\ UNCHANGED <<heap, m_layerInfo, cID, layer, lookups, alive>>

\* ~FCCSWGridModuleThetaMerged_k4geo, when no query is under way.
Destroy ==
  /\ alive /\ \A t \in Threads : pc[t] = "idle"
  /\ alive' = FALSE
  /\ memory' = IF m_layerInfo = Null THEN memory
               ELSE [memory EXCEPT ![m_layerInfo] = "free"]
  /\ UNCHANGED <<madeFor, size, m_layerInfo, pc, cID, layer, liv, liv_new, refs, lookups>>

-----------------------------------------------------------------------------
Init ==
  /\ memory = [b \in Blocks |-> "free"]
  /\ madeFor = [b \in Blocks |-> Null] /\ size = [b \in Blocks |-> 0]
  /\ m_layerInfo = Null
  /\ pc = [t \in Threads |-> "idle"]
  /\ cID \in [Threads -> Cells] /\ layer \in [Threads -> LayersAsked]
  /\ liv = [t \in Threads |-> Null] /\ liv_new = [t \in Threads |-> Null]
  /\ refs = [t \in Threads |-> {}] /\ lookups = [t \in Threads |-> 0]
  /\ alive = TRUE

\* A step of a query that is under way.
Step(t) ==
  \/ Load(t) \/ New(t) \/ InitLayer(t) \/ Made(t) \/ InitThrows(t) \/ Exchange(t)
  \/ Delete(t) \/ At(t) \/ Return(t) \/ \E l \in LayersAsked : LookUpNext(t, l)

Next ==
  \/ \E t \in Threads : Step(t) \/ \E c \in Cells, l \in LayersAsked : Start(t, c, l)
  \/ Destroy

Spec == Init /\ [][Next]_vars

-----------------------------------------------------------------------------
(***************************************************************************)
(* Properties.                                                             *)
(***************************************************************************)
PCs == {"idle", "load", "new", "init", "exchange", "delete", "at", "holds"}

\* The heap and the threads have their types, and a thread that makes a table
\* has a block for it.
TypeOK ==
  /\ memory \in [Blocks -> {"free", "filled", "table"}]
  /\ madeFor \in [Blocks -> Cells \cup {Null}] /\ size \in [Blocks -> Nat]
  /\ m_layerInfo \in Blocks \cup {Null}
  /\ pc \in [Threads -> PCs] /\ cID \in [Threads -> Cells]
  /\ layer \in [Threads -> LayersAsked]
  /\ liv \in [Threads -> Blocks \cup {Null}] /\ liv_new \in [Threads -> Blocks \cup {Null}]
  /\ refs \in [Threads -> SUBSET Blocks] /\ lookups \in [Threads -> Nat]
  /\ alive \in BOOLEAN
  /\ \A t \in Threads : pc[t] \in {"init", "exchange", "delete"} => liv_new[t] \in Blocks

\* A whole table, made for a cell that has one.
IsTable(b) == b \in Blocks /\ memory[b] = "table" /\ size[b] = NumLayers

\* Nothing is read through a pointer or a reference but a whole table: what
\* is published is complete, and is not freed while a query may read it.
ReadsAreOfTables ==
  /\ alive /\ m_layerInfo # Null => IsTable(m_layerInfo)
  /\ \A t \in Threads :
       /\ pc[t] = "at" => IsTable(liv[t])
       /\ \A b \in refs[t] : IsTable(b)
       /\ pc[t] = "holds" => m_layerInfo # Null

\* The table in use is the one published, and one only: queries under way,
\* of whatever cells, read the same one.
OneTable == \A t \in Threads : refs[t] \subseteq {m_layerInfo}

InHand(t) == IF pc[t] \in {"init", "exchange", "delete"} THEN {liv_new[t]} ELSE {}

\* Memory is published, or in the hands of the one thread that makes a table
\* there, or free: tables that lost, or could not be made, are given back.
NothingIsLost ==
  /\ \A b \in Blocks : memory[b] # "free" =>
       b = m_layerInfo \/ \E t \in Threads : b \in InHand(t)
  /\ \A t, u \in Threads : t # u => InHand(t) \cap InHand(u) = {}

\* A query returns, whatever others that make a table do meanwhile.
QueryReturns(t) == pc[t] # "idle" ~> pc[t] = "idle"

Held(t) == IF refs[t] = {} THEN Null ELSE madeFor[CHOOSE b \in refs[t] : TRUE]

Published == IF m_layerInfo = Null THEN Null ELSE madeFor[m_layerInfo]

Once == INSTANCE OnceValue WITH
  Callers <- Threads, Values <- Cells, None <- Null,
  chosen <- Published, got <- [t \in Threads |-> Held(t)]

\* To its users the table is a value that is chosen once.
ChosenOnce == Once!Spec
=============================================================================
